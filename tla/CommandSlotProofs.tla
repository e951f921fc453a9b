------------------------- MODULE CommandSlotProofs -------------------------
(***************************************************************************)
(* Proofs about CommandSlot, for any callers and any bounds: the state     *)
(* stays well typed, the slot is exclusive and its raw queue lives and     *)
(* dies with it, commands are served first come first served, and a frame  *)
(* that is not an answer to the command that took it stems from a command  *)
(* that was given up; while nobody gives up, answers are returned whole.   *)
(* Last, the slot implements TicketLock.                                   *)
(***************************************************************************)
EXTENDS CommandSlot, SequenceTheorems, TLAPS

Active(c) == Phase(c) # "idle"

\* Requests in flight have numbers of their own, none of them abandoned yet.
Numbered ==
    /\ \A c \in Callers : Active(c) => call[c].req \in 1..nreq
    /\ \A c, d \in Callers :
          Active(c) /\ Active(d) /\ c # d => call[c].req # call[d].req
    /\ \A c \in Callers : Active(c) => call[c].req \notin abandoned
    /\ abandoned \subseteq 1..nreq

\* A reboot never waits for an answer, and frames are there only after sending.
PhaseData ==
    /\ \A c \in Callers :
          call[c].cmd = "reboot" => Phase(c) \in {"wait", "send"}
    /\ \A c \in Callers : Phase(c) \in {"idle", "wait", "send"} => got[c] = <<>>

\* Frames of request r may still arrive: r was abandoned, or its caller holds
\* the slot, has sent it and has not taken the last frame of its answer.
Owed(r) ==
    \/ r \in abandoned
    \/ \E c \in Callers : /\ slot = c
                          /\ Phase(c) \in {"recv", "took"}
                          /\ call[c].req = r
                          /\ ~Answered(c)

\* A request of no caller in flight, to which there is no answer.
Silent(q) ==
    /\ q.cmd = "reboot"
    /\ q.req \in 1..nreq
    /\ \A c \in Callers : Active(c) => call[c].req # q.req

OwedInbox == \A i \in DOMAIN inbox : Owed(inbox[i].req) \/ Silent(inbox[i])
OwedWire  == \A i \in DOMAIN wire : wire[i].code = "push" \/ Owed(wire[i].req)
OwedQueue == \A i \in DOMAIN rawQueue : Owed(rawQueue[i].req)

\* Nothing follows the last frame of an answer.
LastInWire ==
    \A i, j \in DOMAIN wire :
        i < j /\ wire[i].code \in Final => wire[j].req # wire[i].req
LastInQueue ==
    \A i, j \in DOMAIN rawQueue :
        i < j /\ rawQueue[i].code \in Final => rawQueue[j].req # rawQueue[i].req
LastAcross ==
    \A i \in DOMAIN rawQueue, j \in DOMAIN wire :
        rawQueue[i].code \in Final => wire[j].req # rawQueue[i].req
\* A request still to be executed has no frames yet, and is there once.
Unexecuted ==
    /\ \A i \in DOMAIN inbox, j \in DOMAIN wire : wire[j].req # inbox[i].req
    /\ \A i \in DOMAIN inbox, j \in DOMAIN rawQueue :
          rawQueue[j].req # inbox[i].req
    /\ \A i, j \in DOMAIN inbox : i # j => inbox[i].req # inbox[j].req
PushTag ==
    /\ \A i \in DOMAIN wire : wire[i].code = "push" => wire[i].req = 0
    /\ \A i \in DOMAIN inbox : inbox[i].req # 0

Pipeline ==
    /\ OwedInbox /\ OwedWire /\ OwedQueue
    /\ LastInWire /\ LastInQueue /\ LastAcross /\ Unexecuted /\ PushTag

-----------------------------------------------------------------------------
(* Type correctness.                                                        *)

\* A new phase leaves the record of a call a record of a call.
LEMMA CallPhase ==
    ASSUME NEW r \in Call, NEW p \in {"idle", "wait"} \cup Holding
    PROVE  [r EXCEPT !.phase = p] \in Call
  BY DEF Call

LEMMA Values ==
    /\ Idle \in Call
    /\ <<>> \in Seq(Frame) /\ <<>> \in Seq(RawFrame) /\ <<>> \in Seq(Request)
    /\ RawFrame \subseteq Frame
  <1>1. Idle \in Call
    BY DEF Idle, Call, Commands, Holding
  <1>2. /\ <<>> \in Seq(Frame) /\ <<>> \in Seq(RawFrame)
        /\ <<>> \in Seq(Request)
    BY EmptySeq
  <1>3. RawFrame \subseteq Frame
    BY DEF RawFrame, Frame
  <1>4. QED
    BY <1>1, <1>2, <1>3

\* The frames of an answer: its last one, and only that one, is final.
LEMMA AnswerFrames ==
    ASSUME NEW q \in Request, NEW a \in Answers(q)
    PROVE  /\ a \in Seq(Frame) /\ Len(a) \in Nat
           /\ \A i \in 1..Len(a) :
                /\ a[i].req = q.req /\ a[i].code # "push"
                /\ a[i].code \in Final => i = Len(a)
           /\ q.cmd = "reboot" => Len(a) = 0
  <1> DEFINE Resp(code) == [req |-> q.req, code |-> code]
  <1>0. /\ q.req \in Nat /\ q.cmd \in Commands
        /\ \A code \in Codes : /\ Resp(code) \in Frame
                               /\ Resp(code).req = q.req
                               /\ Resp(code).code = code
    BY DEF Request, Frame
  <1>1. \/ q.cmd = "contacts" /\ a = <<Resp("start"), Resp("contact"), Resp("end")>>
        \/ q.cmd # "reboot" /\ a = <<Resp("err")>>
        \/ q.cmd = "set" /\ a = <<Resp("ok")>>
        \/ a = <<>>
    BY <1>0 DEF Answers, Commands
  <1> HIDE DEF Resp
  <1>2. CASE q.cmd = "contacts" /\ a = <<Resp("start"), Resp("contact"), Resp("end")>>
    BY <1>0, <1>2 DEF Codes, Final
  <1>3. CASE q.cmd # "reboot" /\ a = <<Resp("err")>>
    BY <1>0, <1>3 DEF Codes, Final
  <1>4. CASE q.cmd = "set" /\ a = <<Resp("ok")>>
    BY <1>0, <1>4 DEF Codes, Final
  <1>5. CASE a = <<>>
    BY <1>5, Values
  <1>6. QED
    BY <1>1, <1>2, <1>3, <1>4, <1>5

\* Leaving, entering and taking a frame keep the variables they set typed.
LEMMA LeaveType ==
    ASSUME TypeOK, NEW c \in Callers, Leave(c)
    PROVE  /\ slot' \in Callers \cup {NoOne}
           /\ rawOpen' \in BOOLEAN
           /\ rawQueue' \in Seq(RawFrame)
           /\ call' \in [Callers -> Call]
           /\ got' \in [Callers -> Seq(Frame)]
           /\ abandoned' \in SUBSET Nat
  <1>1. call[c].req \in Nat
    BY DEF TypeOK, Call
  <1>2. QED
    BY <1>1, Values DEF TypeOK, Leave, Release

LEMMA TakeType ==
    ASSUME TypeOK, NEW c \in Callers, NEW f \in Frame, Take(c, f)
    PROVE  /\ call' \in [Callers -> Call]
           /\ got' \in [Callers -> Seq(Frame)]
  <1>1. Append(got[c], f) \in Seq(Frame)
    BY AppendProperties DEF TypeOK
  <1>2. [call[c] EXCEPT !.phase = "took"] \in Call
    BY CallPhase DEF TypeOK, Holding
  <1>3. QED
    BY <1>1, <1>2 DEF TypeOK, Take

LEMMA TypeInit == Init => TypeOK
  <1> SUFFICES ASSUME Init PROVE TypeOK
    OBVIOUS
  <1>1. connected \in BOOLEAN /\ rawOpen \in BOOLEAN
    BY DEF Init
  <1>2. epoch \in Nat /\ nreq \in Nat /\ drops \in Nat /\ pushes \in Nat
    BY DEF Init
  <1>3. call \in [Callers -> Call] /\ got \in [Callers -> Seq(Frame)]
    BY Values DEF Init
  <1>4. QED
    BY <1>1, <1>2, <1>3, Values DEF Init, TypeOK

LEMMA TypeStep == TypeOK /\ [Next]_vars => TypeOK'
  <1> SUFFICES ASSUME TypeOK, [Next]_vars PROVE TypeOK'
    OBVIOUS
  <1> USE DEF link, node
  <1>1. ASSUME NEW c \in Callers, NEW cmd \in Commands, Submit(c, cmd)
        PROVE  TypeOK'
    <2> DEFINE r == [phase |-> "wait", cmd |-> cmd, req |-> nreq + 1,
                     epoch |-> epoch]
    <2>1. r \in Call
      BY DEF TypeOK, Call
    <2>2. [r EXCEPT !.phase = "send"] \in Call
      BY <2>1, CallPhase DEF Holding
    <2>3. nreq + 1 \in Nat
      BY DEF TypeOK
    <2> HIDE DEF r
    <2>4. CASE Enter(c, r)
      BY <1>1, <2>2, <2>3, <2>4, Values DEF Submit, Enter, TypeOK, r
    <2>5. CASE call' = [call EXCEPT ![c] = r] /\ UNCHANGED <<slot, rawOpen, rawQueue>>
      BY <1>1, <2>1, <2>3, <2>5 DEF Submit, TypeOK, r
    <2>6. QED
      BY <1>1, <2>4, <2>5 DEF Submit, r
  <1>2. ASSUME NEW c \in Callers, Acquire(c) PROVE TypeOK'
    <2>1. [call[c] EXCEPT !.phase = "send"] \in Call
      BY CallPhase DEF TypeOK, Holding
    <2>2. QED
      BY <1>2, <2>1, Values DEF Acquire, Enter, TypeOK
  <1>3. ASSUME NEW c \in Callers, Send(c) PROVE TypeOK'
    <2>1. [req |-> call[c].req, cmd |-> call[c].cmd] \in Request
      BY DEF TypeOK, Request, Call
    <2>2. inbox' \in Seq(Request)
      BY <1>3, <2>1, AppendProperties DEF TypeOK, Send, Deliver
    <2>3. CASE Leave(c)
      BY <1>3, <2>2, <2>3, LeaveType DEF Send, TypeOK
    <2>4. CASE ~Leave(c)
      <3>1. [call[c] EXCEPT !.phase = "recv"] \in Call
        BY CallPhase DEF TypeOK, Holding
      <3>2. QED
        BY <1>3, <2>2, <2>4, <3>1 DEF Send, TypeOK
    <2>5. QED
      BY <2>3, <2>4
  <1>4. ASSUME NEW c \in Callers,
               SendFails(c) \/ StreamFails(c) \/ Timeout(c)
        PROVE  TypeOK'
    <2>1. Leave(c)
      BY <1>4 DEF SendFails, StreamFails, Timeout
    <2>2. QED
      BY <1>4, <2>1, LeaveType
         DEF SendFails, StreamFails, Timeout, TypeOK
  <1>5. ASSUME NEW c \in Callers, RawReceive(c) PROVE TypeOK'
    <2>1. /\ Head(rawQueue) \in RawFrame
          /\ rawQueue' \in Seq(RawFrame)
      BY <1>5, HeadTailProperties DEF RawReceive, TypeOK
    <2>2. Head(rawQueue) \in Frame
      BY <2>1 DEF RawFrame, Frame
    <2>3. QED
      BY <1>5, <2>1, <2>2, TakeType DEF RawReceive, TypeOK
  <1>6. ASSUME NEW c \in Callers, Taken(c) PROVE TypeOK'
    <2>1. CASE Leave(c)
      BY <1>6, <2>1, LeaveType DEF Taken, TypeOK
    <2>2. CASE ~Leave(c)
      <3>1. [call[c] EXCEPT !.phase = "recv"] \in Call
        BY CallPhase DEF TypeOK, Holding
      <3>2. QED
        BY <1>6, <2>2, <3>1 DEF Taken, TypeOK
    <2>3. QED
      BY <2>1, <2>2
  <1>7. ASSUME NEW c \in Callers, Cancel(c) PROVE TypeOK'
    <2>1. CASE Leave(c)
      BY <1>7, <2>1, LeaveType DEF Cancel, TypeOK
    <2>2. CASE ~Leave(c)
      BY <1>7, <2>2, Values DEF Cancel, TypeOK
    <2>3. QED
      BY <2>1, <2>2
  <1>8. CASE NodeAnswer
    <2>1. /\ Head(inbox) \in Request
          /\ inbox' \in Seq(Request)
      BY <1>8, HeadTailProperties DEF NodeAnswer, TypeOK
    <2>2. PICK a \in Answers(Head(inbox)) : wire' = wire \o a
      BY <1>8 DEF NodeAnswer
    <2>3. wire' \in Seq(Frame)
      BY <2>1, <2>2, AnswerFrames, ConcatProperties DEF TypeOK
    <2>4. QED
      BY <1>8, <2>1, <2>3 DEF NodeAnswer, TypeOK
  <1>9. CASE NodePush
    <2>1. [req |-> 0, code |-> "push"] \in Frame
      BY DEF Frame, Codes
    <2>2. wire' \in Seq(Frame)
      BY <1>9, <2>1, AppendProperties DEF NodePush, TypeOK
    <2>3. QED
      BY <1>9, <2>2 DEF NodePush, TypeOK
  <1>10. CASE Dispatch
    <2>1. /\ Head(wire) \in Frame
          /\ wire' \in Seq(Frame)
      BY <1>10, HeadTailProperties DEF Dispatch, TypeOK
    <2>2. rawQueue' \in Seq(RawFrame)
      <3>1. CASE rawOpen /\ ForRaw(Head(wire))
        <4>1. Head(wire) \in RawFrame
          BY <2>1, <3>1 DEF Frame, RawFrame, ForRaw
        <4>2. QED
          BY <1>10, <3>1, <4>1, AppendProperties
             DEF Dispatch, TypeOK
      <3>2. CASE ~(rawOpen /\ ForRaw(Head(wire)))
        BY <1>10, <3>2 DEF Dispatch, TypeOK
      <3>3. QED
        BY <3>1, <3>2
    <2>3. ASSUME NEW c \in LibCallers, Take(c, Head(wire))
          PROVE  TypeOK'
      <3>1. c \in Callers
        BY DEF Callers
      <3>2. QED
        BY <1>10, <2>1, <2>2, <2>3, <3>1, TakeType
           DEF Dispatch, TypeOK
    <2>4. CASE UNCHANGED <<call, got>>
      BY <1>10, <2>1, <2>2, <2>4 DEF Dispatch, TypeOK
    <2>5. QED
      BY <1>10, <2>3, <2>4 DEF Dispatch
  <1>11. CASE LinkDrop \/ ConnLost \/ Reconnect
    <2>1. CASE LinkDrop \/ ConnLost
      <3>1. connected' \in BOOLEAN
        BY <2>1 DEF LinkDrop, ConnLost, TypeOK
      <3>2. drops' \in Nat
        BY <2>1 DEF LinkDrop, ConnLost, LoseTraffic, TypeOK
      <3>3. QED
        BY <2>1, <3>1, <3>2, Values DEF LinkDrop, ConnLost, LoseTraffic, TypeOK
    <2>2. CASE Reconnect
      BY <2>2 DEF Reconnect, TypeOK
    <2>3. QED
      BY <1>11, <2>1, <2>2
  <1>12. CASE UNCHANGED vars
    BY <1>12 DEF vars, TypeOK
  <1>13. QED
    BY <1>1, <1>2, <1>3, <1>4, <1>5, <1>6, <1>7, <1>8, <1>9, <1>10, <1>11,
       <1>12
       DEF Next, CallerStep

\* Every state of the slot is well typed; no push frame gets into a raw queue.
THEOREM Typing == Spec => []TypeOK
  BY TypeInit, TypeStep, PTL DEF Spec

-----------------------------------------------------------------------------
(* The slot: exclusion, order and the life of the raw queue.                *)

SlotInv ==
    /\ TypeOK /\ SlotDiscipline /\ Numbered /\ FirstComeFirstServed /\ PhaseData

LEMMA SlotInit == Init => SlotInv
  <1> SUFFICES ASSUME Init PROVE SlotInv
    OBVIOUS
  <1>1. TypeOK
    BY TypeInit
  <1>2. SlotDiscipline
    BY CallersAssumption DEF Init, SlotDiscipline, Phase, Idle, Holding, Callers
  <1>3. Numbered /\ FirstComeFirstServed /\ PhaseData
    BY DEF Init, Numbered, FirstComeFirstServed, PhaseData, Active, Phase, Idle,
           Waiting
  <1>4. QED
    BY <1>1, <1>2, <1>3 DEF SlotInv

\* The holder leaves: its queue goes with it, its number is given up or done.
LEMMA LeaveSlot ==
    ASSUME SlotInv, NEW c \in Callers, Phase(c) \in Holding, Leave(c),
           nreq' = nreq, TypeOK'
    PROVE  SlotInv'
  <1> USE DEF SlotInv, Leave, Release
  <1>0. /\ call' = [call EXCEPT ![c] = Idle]
        /\ \A d \in Callers \ {c} : call'[d] = call[d]
        /\ call'[c] = Idle
    BY DEF TypeOK
  <1>1. slot = c
    BY DEF SlotDiscipline
  <1>2. SlotDiscipline'
    BY <1>0, <1>1, CallersAssumption
       DEF SlotDiscipline, Phase, Idle, Holding, Callers
  <1>3. Numbered'
    <2>1. Active(c) /\ ~Active(c)'
      BY <1>0 DEF Active, Phase, Idle, Holding
    <2>2. abandoned' \subseteq abandoned \cup {call[c].req}
      OBVIOUS
    <2>3. \A d \in Callers : Active(d)' => Active(d) /\ d # c
                                        /\ call'[d] = call[d]
      BY <1>0, <2>1 DEF Active, Phase
    <2>4. QED
      BY <2>1, <2>2, <2>3 DEF Numbered
  <1>4. FirstComeFirstServed'
    BY <1>0, CallersAssumption DEF FirstComeFirstServed
  <1>5. PhaseData'
    BY <1>0 DEF PhaseData, Phase, Idle, TypeOK
  <1>6. QED
    BY <1>2, <1>3, <1>4, <1>5

\* A caller whose turn it is enters, directly or from the line of waiters.
LEMMA EnterSlot ==
    ASSUME SlotInv, NEW c \in Callers, NEW r \in Call, Enter(c, r),
           slot = NoOne, got[c] = <<>>, UNCHANGED <<got, abandoned>>,
           r.req \in 1..nreq', nreq' \in Nat, nreq' >= nreq,
           r.req \notin abandoned,
           \A d \in Callers \ {c} : Active(d) => call[d].req # r.req,
           \A w \in Waiting \ {c} : r.req < call[w].req,
           TypeOK'
    PROVE  SlotInv'
  <1> USE DEF SlotInv, Enter
  <1>0. /\ \A d \in Callers \ {c} : call'[d] = call[d]
        /\ call'[c] = [r EXCEPT !.phase = "send"]
        /\ call'[c].phase = "send" /\ call'[c].req = r.req
    BY DEF TypeOK, Call
  <1>1. \A d \in Callers : Phase(d) \notin Holding
    BY CallersAssumption DEF SlotDiscipline
  <1>2. SlotDiscipline'
    BY <1>0, <1>1, CallersAssumption DEF SlotDiscipline, Phase, Holding
  <1>3. Numbered'
    BY <1>0 DEF Numbered, Active, Phase, TypeOK
  <1>4. FirstComeFirstServed'
    BY <1>0 DEF FirstComeFirstServed, Waiting, Phase
  <1>5. PhaseData'
    BY <1>0 DEF PhaseData, Phase, TypeOK
  <1>6. QED
    BY <1>2, <1>3, <1>4, <1>5

\* A command proceeds from sending to receiving, or receives one more frame.
LEMMA ProceedSlot ==
    ASSUME SlotInv, NEW c \in Callers, Phase(c) \in Holding,
           NEW p \in {"recv", "took"}, call[c].cmd # "reboot",
           call' = [call EXCEPT ![c].phase = p],
           \A d \in Callers \ {c} : got'[d] = got[d],
           UNCHANGED <<slot, rawOpen, nreq, abandoned>>,
           ~rawOpen => rawQueue' = <<>>,
           TypeOK'
    PROVE  SlotInv'
  <1> USE DEF SlotInv
  <1>0. /\ \A d \in Callers \ {c} : call'[d] = call[d]
        /\ call'[c].phase = p
        /\ call'[c].req = call[c].req /\ call'[c].cmd = call[c].cmd
    BY DEF TypeOK, Call
  <1>2. SlotDiscipline'
    BY <1>0 DEF SlotDiscipline, Phase, Holding
  <1>3. Numbered'
    BY <1>0 DEF Numbered, Active, Phase, Holding
  <1>4. FirstComeFirstServed'
    BY <1>0 DEF FirstComeFirstServed, Waiting, Phase
  <1>5. PhaseData'
    BY <1>0 DEF PhaseData, Phase
  <1>6. QED
    BY <1>2, <1>3, <1>4, <1>5

LEMMA SlotStep == SlotInv /\ [Next]_vars => SlotInv'
  <1> SUFFICES ASSUME SlotInv, [Next]_vars PROVE SlotInv'
    OBVIOUS
  <1>0. TypeOK /\ TypeOK'
    BY TypeStep DEF SlotInv
  <1> USE <1>0 DEF link, node
  <1>1. ASSUME NEW c \in Callers, NEW cmd \in Commands, Submit(c, cmd)
        PROVE  SlotInv'
    <2> DEFINE r == [phase |-> "wait", cmd |-> cmd, req |-> nreq + 1,
                     epoch |-> epoch]
    <2>1. r \in Call /\ r.req = nreq + 1 /\ r.phase = "wait"
      BY DEF TypeOK, Call
    <2>2. /\ nreq' = nreq + 1 /\ nreq \in Nat /\ got[c] = <<>>
          /\ ~Active(c) /\ UNCHANGED <<got, abandoned>>
      BY <1>1 DEF Submit, SlotInv, PhaseData, TypeOK, Active, Phase
    <2>3. \A d \in Callers : Active(d) => call[d].req < nreq + 1
      BY <2>2 DEF SlotInv, Numbered
    <2>4. nreq + 1 \notin abandoned
      BY <2>2 DEF SlotInv, Numbered
    <2>5. \/ LockFree /\ Enter(c, r)
          \/ /\ call' = [call EXCEPT ![c] = r]
             /\ UNCHANGED <<slot, rawOpen, rawQueue>>
      BY <1>1 DEF Submit
    <2> HIDE DEF r
    <2>6. CASE LockFree /\ Enter(c, r)
      <3>1. slot = NoOne /\ Waiting = {}
        BY <2>6 DEF LockFree
      <3>2. \A d \in Callers \ {c} : Active(d) => call[d].req # r.req
        BY <2>1, <2>2, <2>3
      <3>3. r.req \in 1..nreq' /\ nreq' \in Nat /\ nreq' >= nreq
        BY <2>1, <2>2
      <3>4. QED
        BY <2>1, <2>2, <2>4, <2>6, <3>1, <3>2, <3>3, EnterSlot
    <2>7. CASE /\ call' = [call EXCEPT ![c] = r]
               /\ UNCHANGED <<slot, rawOpen, rawQueue>>
      <3>1. call'[c] = r /\ \A d \in Callers \ {c} : call'[d] = call[d]
        BY <2>7 DEF TypeOK
      <3>2. slot # c
        BY <2>2 DEF SlotInv, SlotDiscipline, Active, Holding
      <3>3. SlotDiscipline'
        BY <2>1, <2>7, <3>1, <3>2 DEF SlotInv, SlotDiscipline, Phase, Holding
      <3>4. Numbered'
        BY <2>1, <2>2, <2>3, <2>4, <3>1 DEF SlotInv, Numbered, Active, Phase
      <3>5. FirstComeFirstServed'
        <4>1. \A d \in Callers : slot = d => call[d].req < nreq + 1
          BY <2>3 DEF SlotInv, SlotDiscipline, Active, Holding
        <4>2. QED
          BY <2>1, <2>7, <3>1, <3>2, <4>1
             DEF SlotInv, FirstComeFirstServed, Waiting, Phase
      <3>6. PhaseData'
        BY <2>1, <2>2, <3>1 DEF SlotInv, PhaseData, Phase
      <3>7. QED
        BY <3>3, <3>4, <3>5, <3>6 DEF SlotInv
    <2>8. QED
      BY <2>5, <2>6, <2>7
  <1>2. ASSUME NEW c \in Callers, Acquire(c) PROVE SlotInv'
    <2>1. /\ slot = NoOne /\ Phase(c) = "wait" /\ First(c)
          /\ Enter(c, call[c]) /\ UNCHANGED <<got, nreq, abandoned>>
      BY <1>2 DEF Acquire
    <2>2. call[c] \in Call /\ got[c] = <<>> /\ Active(c)
      BY <2>1 DEF TypeOK, SlotInv, PhaseData, Active
    <2>3. /\ call[c].req \in 1..nreq /\ call[c].req \notin abandoned
          /\ \A d \in Callers \ {c} : Active(d) => call[d].req # call[c].req
      BY <2>2 DEF SlotInv, Numbered
    <2>4. \A w \in Waiting \ {c} : call[c].req < call[w].req
      <3> SUFFICES ASSUME NEW w \in Waiting \ {c}
                   PROVE  call[c].req < call[w].req
        OBVIOUS
      <3>1. w \in Callers /\ Active(w) /\ call[c].req <= call[w].req
        BY <2>1 DEF Waiting, First, Active
      <3>2. call[w].req \in 1..nreq
        BY <3>1 DEF SlotInv, Numbered
      <3>3. QED
        BY <2>3, <3>1, <3>2 DEF TypeOK
    <2>5. nreq' \in Nat /\ nreq' >= nreq
      BY <2>1 DEF TypeOK
    <2>6. QED
      BY <2>1, <2>2, <2>3, <2>4, <2>5, EnterSlot
  <1>3. ASSUME NEW c \in Callers, Send(c) PROVE SlotInv'
    <2>1. Phase(c) \in Holding /\ nreq' = nreq
      BY <1>3 DEF Send, Holding
    <2>2. CASE Leave(c)
      BY <2>1, <2>2, LeaveSlot
    <2>3. CASE ~Leave(c)
      <3>1. /\ call[c].cmd # "reboot"
            /\ call' = [call EXCEPT ![c].phase = "recv"]
            /\ UNCHANGED <<slot, rawOpen, rawQueue, got, nreq, abandoned>>
        BY <1>3, <2>3 DEF Send
      <3>2. ~rawOpen => rawQueue' = <<>>
        BY <3>1 DEF SlotInv, SlotDiscipline
      <3>3. QED
        BY <2>1, <3>1, <3>2, ProceedSlot
    <2>4. QED
      BY <2>2, <2>3
  <1>4. ASSUME NEW c \in Callers,
               SendFails(c) \/ StreamFails(c) \/ Timeout(c)
        PROVE  SlotInv'
    BY <1>4, LeaveSlot DEF SendFails, StreamFails, Timeout, MayExpire, Holding
  <1>5. ASSUME NEW c \in Callers, RawReceive(c) PROVE SlotInv'
    <2>1. /\ Phase(c) = "recv" /\ rawQueue # <<>>
          /\ Take(c, Head(rawQueue))
          /\ UNCHANGED <<slot, rawOpen, nreq, abandoned>>
      BY <1>5 DEF RawReceive
    <2>2. call[c].cmd # "reboot" /\ rawOpen
      BY <2>1 DEF SlotInv, PhaseData, SlotDiscipline
    <2>3. \A d \in Callers \ {c} : got'[d] = got[d]
      BY <2>1 DEF Take, TypeOK
    <2>4. QED
      BY <2>1, <2>2, <2>3, ProceedSlot DEF Take, Holding
  <1>6. ASSUME NEW c \in Callers, Taken(c) PROVE SlotInv'
    <2>1. Phase(c) = "took" /\ Phase(c) \in Holding /\ nreq' = nreq
      BY <1>6 DEF Taken, Holding
    <2>2. CASE Leave(c)
      BY <2>1, <2>2, LeaveSlot
    <2>3. CASE ~Leave(c)
      <3>1. /\ call' = [call EXCEPT ![c].phase = "recv"]
            /\ UNCHANGED <<slot, rawOpen, rawQueue, got, abandoned>>
        BY <1>6, <2>3 DEF Taken
      <3>2. call[c].cmd # "reboot" /\ (~rawOpen => rawQueue' = <<>>)
        BY <2>1, <3>1 DEF SlotInv, SlotDiscipline, PhaseData
      <3>3. QED
        BY <2>1, <3>1, <3>2, ProceedSlot
    <2>4. QED
      BY <2>2, <2>3
  <1>7. ASSUME NEW c \in Callers, Cancel(c) PROVE SlotInv'
    <2>1. CASE Phase(c) \in Holding /\ Leave(c)
      BY <1>7, <2>1, LeaveSlot DEF Cancel
    <2>2. CASE /\ Phase(c) = "wait"
               /\ call' = [call EXCEPT ![c] = Idle]
               /\ UNCHANGED <<slot, got, rawOpen, rawQueue, abandoned>>
      <3>1. call'[c] = Idle /\ \A d \in Callers \ {c} : call'[d] = call[d]
        BY <2>2 DEF TypeOK
      <3>2. slot # c /\ nreq' = nreq
        BY <1>7, <2>2 DEF SlotInv, SlotDiscipline, Holding, Cancel
      <3>3. SlotDiscipline'
        BY <2>2, <3>1, <3>2 DEF SlotInv, SlotDiscipline, Phase, Idle, Holding
      <3>4. Numbered'
        BY <2>2, <3>1, <3>2 DEF SlotInv, Numbered, Active, Phase, Idle
      <3>5. FirstComeFirstServed'
        BY <2>2, <3>1, <3>2
           DEF SlotInv, FirstComeFirstServed, Waiting, Phase, Idle
      <3>6. PhaseData'
        BY <2>2, <3>1 DEF SlotInv, PhaseData, Phase, Idle
      <3>7. QED
        BY <3>3, <3>4, <3>5, <3>6 DEF SlotInv
    <2>3. QED
      BY <1>7, <2>1, <2>2 DEF Cancel
  <1>8. CASE Dispatch
    <2>1. CASE UNCHANGED <<call, got>>
      BY <1>8, <2>1 DEF Dispatch, SlotInv, SlotDiscipline, Numbered, Phase,
         FirstComeFirstServed, PhaseData, Active, Waiting
    <2>2. ASSUME NEW c \in LibCallers, Phase(c) = "recv", Take(c, Head(wire))
          PROVE  SlotInv'
      <3>1. /\ c \in Callers /\ slot = c /\ call[c].cmd # "reboot"
        BY <2>2 DEF Callers, SlotInv, SlotDiscipline, PhaseData, Holding
      <3>2. ~rawOpen /\ rawQueue' = <<>>
        BY <1>8, <3>1, CallersAssumption DEF Dispatch, SlotInv, SlotDiscipline
      <3>3. \A d \in Callers \ {c} : got'[d] = got[d]
        BY <2>2 DEF Take, TypeOK
      <3>4. QED
        BY <1>8, <2>2, <3>1, <3>2, <3>3, ProceedSlot
           DEF Take, Holding, Dispatch
    <2>3. QED
      BY <1>8, <2>1, <2>2 DEF Dispatch
  <1>9. CASE \/ NodeAnswer \/ NodePush \/ LinkDrop \/ ConnLost \/ Reconnect
             \/ UNCHANGED vars
    <2>1. UNCHANGED <<slot, call, got, rawOpen, rawQueue, nreq, abandoned>>
      BY <1>9 DEF NodeAnswer, NodePush, LinkDrop, ConnLost, Reconnect, vars
    <2>2. QED
      BY <2>1 DEF SlotInv, SlotDiscipline, Numbered, Phase,
         FirstComeFirstServed, PhaseData, Active, Waiting
  <1>10. QED
    BY <1>1, <1>2, <1>3, <1>4, <1>5, <1>6, <1>7, <1>8, <1>9 DEF Next, CallerStep

\* At most one command talks to the node and raw frames are diverted exactly while
\* a raw command holds the slot, whatever is cancelled, times out or fails.
THEOREM SlotSafety == Spec => []SlotDiscipline
  <1>1. SlotInv => SlotDiscipline
    BY DEF SlotInv
  <1>2. QED
    BY SlotInit, SlotStep, <1>1, PTL DEF Spec

\* Commands get the slot in the order in which they asked for it: command_lock is fair,
\* also when waiters are cancelled (device.py).
THEOREM SlotOrder == Spec => []FirstComeFirstServed
  <1>1. SlotInv => FirstComeFirstServed
    BY DEF SlotInv
  <1>2. QED
    BY SlotInit, SlotStep, <1>1, PTL DEF Spec

-----------------------------------------------------------------------------
(* Attribution: what can still arrive, and where it may go.                 *)

\* The requests whose frames may still arrive, and the silent ones, stay so.
OwedKept   == \A r \in Nat : Owed(r) => Owed(r)'
SilentKept == \A q \in Request : Silent(q) => Silent(q)'

\* Who is in flight after a step was so before, or has just got a new number.
SameCommand(d) == call'[d].req = call[d].req /\ call'[d].cmd = call[d].cmd

LEMMA ActiveStep ==
    ASSUME SlotInv, [Next]_vars
    PROVE  /\ nreq' \in Nat /\ nreq' >= nreq
           /\ \A d \in Callers : Active(d)' =>
                \/ Active(d) /\ SameCommand(d)
                \/ call'[d].req = nreq + 1
  <1>0. TypeOK /\ TypeOK'
    BY TypeStep DEF SlotInv
  <1> USE DEF Active, Phase, SameCommand
  <1>1. ASSUME NEW c \in Callers, NEW cmd \in Commands, Submit(c, cmd)
        PROVE  /\ nreq' = nreq + 1
               /\ \A d \in Callers \ {c} : call'[d] = call[d]
               /\ call'[c].req = nreq + 1
    <2> DEFINE r == [phase |-> "wait", cmd |-> cmd, req |-> nreq + 1,
                     epoch |-> epoch]
    <2>1. \/ call' = [call EXCEPT ![c] = r]
          \/ call' = [call EXCEPT ![c] = [r EXCEPT !.phase = "send"]]
      BY <1>1 DEF Submit, Enter
    <2>2. r.req = nreq + 1 /\ [r EXCEPT !.phase = "send"].req = nreq + 1
      OBVIOUS
    <2>3. nreq' = nreq + 1
      BY <1>1 DEF Submit
    <2> HIDE DEF r
    <2>4. QED
      BY <1>0, <2>1, <2>2, <2>3 DEF TypeOK
  <1>2. ASSUME NEW c \in Callers,
               \/ Acquire(c) \/ Send(c) \/ SendFails(c)
               \/ RawReceive(c) \/ Taken(c) \/ StreamFails(c)
               \/ Timeout(c) \/ Cancel(c)
        PROVE  /\ nreq' = nreq
               /\ \/ call' = [call EXCEPT ![c] = Idle]
                  \/ /\ Phase(c) # "idle"
                     /\ \E p \in {"send", "recv", "took"} :
                          call' = [call EXCEPT ![c].phase = p]
    BY <1>2 DEF Acquire, Send, SendFails, RawReceive, Taken, StreamFails, Timeout,
                Cancel, Enter, Leave, Take, MayExpire, Holding
  <1>3. CASE Dispatch
    <2>1. /\ nreq' = nreq
          /\ \/ call' = call
             \/ \E c \in LibCallers : /\ Phase(c) = "recv"
                                     /\ call' = [call EXCEPT ![c].phase = "took"]
      BY <1>3 DEF Dispatch, Take
    <2>2. ASSUME NEW c \in LibCallers, Phase(c) = "recv",
                 call' = [call EXCEPT ![c].phase = "took"]
          PROVE  \A d \in Callers : Active(d)' =>
                    Active(d) /\ SameCommand(d)
      BY <1>0, <2>2 DEF TypeOK, Call, Callers
    <2>3. nreq' \in Nat /\ nreq' >= nreq
      BY <1>0, <2>1 DEF TypeOK
    <2>4. QED
      BY <2>1, <2>2, <2>3
  <1>4. CASE \/ NodeAnswer \/ NodePush \/ LinkDrop \/ ConnLost \/ Reconnect
             \/ UNCHANGED vars
    BY <1>0, <1>4 DEF NodeAnswer, NodePush, LinkDrop, ConnLost, Reconnect, vars,
                      TypeOK
  <1>5. ASSUME NEW c \in Callers, CallerStep(c)
        PROVE  /\ nreq' \in Nat /\ nreq' >= nreq
               /\ \A d \in Callers : Active(d)' =>
                    \/ Active(d) /\ SameCommand(d)
                    \/ call'[d].req = nreq + 1
    <2>1. CASE \E cmd \in Commands : Submit(c, cmd)
      <3>1. /\ nreq' = nreq + 1
            /\ \A d \in Callers \ {c} : call'[d] = call[d]
            /\ call'[c].req = nreq + 1
        BY <1>1, <2>1
      <3>2. nreq \in Nat
        BY <1>0 DEF TypeOK
      <3>3. QED
        BY <3>1, <3>2
    <2>2. CASE ~\E cmd \in Commands : Submit(c, cmd)
      <3>1. /\ nreq' = nreq /\ nreq \in Nat
            /\ \/ call' = [call EXCEPT ![c] = Idle]
               \/ /\ Phase(c) # "idle"
                  /\ \E p \in {"send", "recv", "took"} :
                       call' = [call EXCEPT ![c].phase = p]
        BY <1>0, <1>2, <1>5, <2>2 DEF CallerStep, TypeOK
      <3>2. CASE call' = [call EXCEPT ![c] = Idle]
        BY <1>0, <3>1, <3>2, SMTT(30) DEF TypeOK, Idle
      <3>3. ASSUME Phase(c) # "idle", NEW p \in {"send", "recv", "took"},
                   call' = [call EXCEPT ![c].phase = p]
            PROVE  \A d \in Callers : Active(d)' =>
                      Active(d) /\ SameCommand(d)
        BY <1>0, <3>3 DEF TypeOK, Call
      <3>4. QED
        BY <3>1, <3>2, <3>3
    <2>3. QED
      BY <2>1, <2>2
  <1>6. QED
    BY <1>3, <1>4, <1>5 DEF Next

LEMMA SilentStep ==
    ASSUME SlotInv, [Next]_vars
    PROVE  SilentKept
  <1>1. /\ nreq' \in Nat /\ nreq' >= nreq /\ nreq \in Nat
        /\ \A d \in Callers : Active(d)' =>
              \/ Active(d) /\ call'[d].req = call[d].req
              \/ call'[d].req = nreq + 1
    BY ActiveStep DEF SlotInv, TypeOK, SameCommand
  <1>2. QED
    BY <1>1 DEF SilentKept, Silent

\* Emptying parts of the pipeline, or leaving them alone, does no harm.
LEMMA PipelineSame ==
    ASSUME Pipeline, TypeOK, OwedKept, SilentKept,
           inbox' = inbox \/ inbox' = <<>>,
           wire' = wire \/ wire' = <<>>,
           rawQueue' = rawQueue \/ rawQueue' = <<>>
    PROVE  Pipeline'
  <1>1. /\ \A i \in DOMAIN inbox : inbox[i] \in Request /\ inbox[i].req \in Nat
        /\ \A i \in DOMAIN wire : wire[i].req \in Nat
        /\ \A i \in DOMAIN rawQueue : rawQueue[i].req \in Nat
    <2>1. /\ \A i \in DOMAIN inbox : inbox[i] \in Request
          /\ \A i \in DOMAIN wire : wire[i] \in Frame
          /\ \A i \in DOMAIN rawQueue : rawQueue[i] \in RawFrame
      BY LenProperties, ElementOfSeq DEF TypeOK
    <2>2. QED
      BY <2>1 DEF Request, Frame, RawFrame
  <1>2. OwedInbox' /\ OwedWire' /\ OwedQueue'
    BY <1>1 DEF Pipeline, OwedKept, SilentKept, OwedInbox, OwedWire, OwedQueue
  <1>3. LastInWire' /\ LastInQueue' /\ LastAcross'
    BY DEF Pipeline, LastInWire, LastInQueue, LastAcross
  <1>4. Unexecuted' /\ PushTag'
    BY DEF Pipeline, Unexecuted, PushTag
  <1>5. QED
    BY <1>2, <1>3, <1>4 DEF Pipeline

\* Who leaves while frames are owed to it has abandoned its request.
LEMMA LeaveOwed ==
    ASSUME SlotInv, NEW c \in Callers, Phase(c) \in Holding, Leave(c)
    PROVE  OwedKept
  <1>1. slot = c
    BY DEF SlotInv, SlotDiscipline
  <1>2. Phase(c) \in {"recv", "took"} => call[c].cmd # "reboot"
    BY DEF SlotInv, PhaseData
  <1>3. QED
    BY <1>1, <1>2 DEF OwedKept, Owed, Leave

\* A frame taken by the holder ends what is owed to it only if it is the last.
LEMMA TakeOwed ==
    ASSUME SlotInv, NEW c \in Callers, Phase(c) = "recv", NEW f \in Frame,
           Take(c, f), UNCHANGED <<slot, abandoned>>
    PROVE  \A r \in Nat : Owed(r) /\ ~(f.req = r /\ f.code \in Final) => Owed(r)'
  <1>1. slot = c
    BY DEF SlotInv, SlotDiscipline, Holding
  <1>2. /\ call'[c].req = call[c].req /\ call'[c].phase = "took"
        /\ got'[c] = Append(got[c], f) /\ got[c] \in Seq(Frame)
    BY DEF Take, SlotInv, TypeOK, Call
  <1>3. \A i \in DOMAIN got'[c] :
          \/ i \in DOMAIN got[c] /\ got'[c][i] = got[c][i]
          \/ got'[c][i] = f
    BY <1>2
  <1>4. ~Answered(c) /\ ~(f.req = call[c].req /\ f.code \in Final)
          => ~Answered(c)'
    BY <1>2, <1>3 DEF Answered
  <1>5. QED
    BY <1>1, <1>2, <1>4 DEF Owed, Phase

\* A frame that is owed to anybody is owed to the holder or to nobody any more.
LEMMA TakeStray ==
    ASSUME SlotInv, StrayOnlyAfterAbandon, NEW c \in Callers, Phase(c) = "recv",
           NEW f \in Frame, Owed(f.req), Take(c, f),
           UNCHANGED <<slot, abandoned>>
    PROVE  StrayOnlyAfterAbandon'
  <1>1. slot = c
    BY DEF SlotInv, SlotDiscipline, Holding
  <1>2. f.req \in {call[c].req} \cup abandoned
    BY <1>1 DEF Owed
  <1>3. /\ \A d \in Callers \ {c} : call'[d] = call[d] /\ got'[d] = got[d]
        /\ call'[c].req = call[c].req
        /\ got'[c] = Append(got[c], f) /\ got[c] \in Seq(Frame)
    BY DEF Take, SlotInv, TypeOK, Call
  <1>4. \A i \in DOMAIN got'[c] :
          \/ i \in DOMAIN got[c] /\ got'[c][i] = got[c][i]
          \/ got'[c][i] = f
    BY <1>3
  <1>5. QED
    BY <1>2, <1>3, <1>4 DEF StrayOnlyAfterAbandon

IInv == SlotInv /\ Pipeline /\ StrayOnlyAfterAbandon

\* Appending puts one element behind the others.
LEMMA AppendElements ==
    ASSUME NEW S, NEW s \in Seq(S), NEW e \in S
    PROVE  /\ Len(s) \in Nat /\ DOMAIN s = 1..Len(s)
           /\ DOMAIN Append(s, e) = 1..(Len(s) + 1)
           /\ Append(s, e)[Len(s) + 1] = e
           /\ \A i \in DOMAIN Append(s, e) :
                \/ i \in DOMAIN s /\ Append(s, e)[i] = s[i]
                \/ i = Len(s) + 1 /\ Append(s, e)[i] = e
  BY AppendProperties, LenProperties

\* Concatenation puts the elements of one sequence behind those of the other.
LEMMA ConcatElements ==
    ASSUME NEW S, NEW s \in Seq(S), NEW t \in Seq(S)
    PROVE  /\ Len(s) \in Nat /\ DOMAIN s = 1..Len(s)
           /\ Len(s \o t) = Len(s) + Len(t)
           /\ \A i \in DOMAIN (s \o t) :
                /\ i \in 1..(Len(s) + Len(t))
                /\ \/ i \in DOMAIN s /\ (s \o t)[i] = s[i]
                   \/ /\ i > Len(s) /\ i - Len(s) \in 1..Len(t)
                      /\ (s \o t)[i] = t[i - Len(s)]
  <1>1. /\ s \o t \in Seq(S) /\ Len(s \o t) = Len(s) + Len(t)
        /\ \A i \in 1..(Len(s) + Len(t)) :
             (s \o t)[i] = IF i <= Len(s) THEN s[i] ELSE t[i - Len(s)]
    BY ConcatProperties
  <1>2. /\ Len(s) \in Nat /\ Len(t) \in Nat /\ DOMAIN s = 1..Len(s)
        /\ DOMAIN (s \o t) = 1..(Len(s) + Len(t))
    BY <1>1, LenProperties
  <1>3. QED
    BY <1>1, <1>2

\* The elements of the three sequences.
LEMMA Elements ==
    ASSUME TypeOK
    PROVE  /\ \A i \in DOMAIN inbox : inbox[i] \in Request /\ inbox[i].req \in Nat
           /\ \A i \in DOMAIN wire : wire[i] \in Frame /\ wire[i].req \in Nat
           /\ \A i \in DOMAIN rawQueue :
                 rawQueue[i] \in Frame /\ rawQueue[i].req \in Nat
  <1>1. /\ \A i \in DOMAIN inbox : inbox[i] \in Request
        /\ \A i \in DOMAIN wire : wire[i] \in Frame
        /\ \A i \in DOMAIN rawQueue : rawQueue[i] \in RawFrame
    BY LenProperties, ElementOfSeq DEF TypeOK
  <1>2. QED
    BY <1>1, Values DEF Request, Frame, RawFrame

\* Whatever is owed, is owed to a request that has a number.
LEMMA OwedNumber ==
    ASSUME SlotInv, NEW r, Owed(r)
    PROVE  r \in 1..nreq
  BY DEF Owed, SlotInv, Numbered, Active

\* The request that is sent is new to the pipeline.
LEMMA SendPipeline ==
    ASSUME IInv, NEW c \in Callers, Send(c), TypeOK', SilentKept
    PROVE  Pipeline'
  <1>0. PICK q \in Request : q = [req |-> call[c].req, cmd |-> call[c].cmd]
    BY DEF IInv, SlotInv, TypeOK, Call, Request
  <1>1. /\ slot = c /\ Phase(c) = "send" /\ Active(c) /\ got[c] = <<>>
        /\ TypeOK /\ call[c].req \in 1..nreq /\ call[c].req \notin abandoned
    BY DEF Send, IInv, SlotInv, SlotDiscipline, PhaseData, Active, Holding,
           Numbered
  <1>2. OwedKept
    <2>1. CASE Leave(c)
      BY <1>1, <2>1, LeaveOwed DEF Holding, IInv
    <2>2. CASE ~Leave(c)
      <3>1. UNCHANGED <<slot, got, abandoned>>
        BY <2>2 DEF Send
      <3>2. QED
        BY <1>1, <3>1 DEF OwedKept, Owed
    <2>3. QED
      BY <2>1, <2>2
  <1>3. CASE ~Reaches(c)
    <2>1. inbox' = inbox /\ wire' = wire
      BY <1>3 DEF Send, Deliver
    <2>2. rawQueue' = rawQueue \/ rawQueue' = <<>>
      BY DEF Send, Leave, Release
    <2>3. QED
      BY <1>1, <1>2, <2>1, <2>2, PipelineSame DEF IInv
  <1>4. CASE Reaches(c)
    <2>1. /\ inbox' = Append(inbox, q) /\ q \in Request /\ inbox \in Seq(Request)
          /\ q.req = call[c].req /\ wire' = wire
      BY <1>0, <1>1, <1>4 DEF Send, Deliver, TypeOK
    <2>2. rawQueue' = rawQueue \/ rawQueue' = <<>>
      BY DEF Send, Leave, Release
    <2>3. /\ \A i \in DOMAIN inbox' :
                \/ i \in DOMAIN inbox /\ inbox'[i] = inbox[i]
                \/ i = Len(inbox) + 1 /\ inbox'[i] = q
          /\ DOMAIN inbox = 1..Len(inbox)
      BY <2>1, AppendElements
    <2>4. ~Owed(q.req)
      BY <1>1, <2>1 DEF Owed
    <2>5. /\ \A i \in DOMAIN inbox : inbox[i].req # q.req
          /\ \A i \in DOMAIN wire : wire[i].req # q.req
          /\ \A i \in DOMAIN rawQueue : rawQueue[i].req # q.req
      BY <1>1, <2>1, <2>4
         DEF IInv, Pipeline, OwedInbox, OwedWire, OwedQueue, PushTag, Silent
    <2>6. Owed(q.req)' \/ Silent(q)'
      <3>1. CASE call[c].cmd = "reboot"
        <4>1. /\ nreq' = nreq /\ call' = [call EXCEPT ![c] = Idle]
          BY <3>1 DEF Send, Leave
        <4>2. Silent(q)'
          BY <1>0, <1>1, <3>1, <4>1
             DEF Silent, IInv, SlotInv, Numbered, TypeOK, Active, Phase, Idle
        <4>3. QED
          BY <4>2
      <3>2. CASE call[c].cmd # "reboot"
        <4>1. /\ call' = [call EXCEPT ![c].phase = "recv"]
              /\ UNCHANGED <<slot, got>>
          BY <3>2 DEF Send
        <4>2. call'[c].phase = "recv" /\ call'[c].req = q.req /\ got'[c] = <<>>
          BY <1>1, <2>1, <4>1 DEF TypeOK, Call
        <4>3. ~Answered(c)'
          BY <4>2 DEF Answered
        <4>4. QED
          BY <1>1, <4>1, <4>2, <4>3 DEF Owed, Phase
      <3>3. QED
        BY <3>1, <3>2
    <2>7. OwedInbox' /\ OwedWire' /\ OwedQueue'
      BY <1>1, <1>2, <2>1, <2>2, <2>3, <2>6, Elements
         DEF IInv, Pipeline, OwedKept, SilentKept, OwedInbox, OwedWire, OwedQueue
    <2>8. LastInWire' /\ LastInQueue' /\ LastAcross'
      BY <2>1, <2>2 DEF IInv, Pipeline, LastInWire, LastInQueue, LastAcross
    <2>9. Unexecuted'
      BY <2>1, <2>2, <2>3, <2>5 DEF IInv, Pipeline, Unexecuted
    <2>10. PushTag'
      BY <1>1, <2>1, <2>3 DEF IInv, Pipeline, PushTag
    <2>11. QED
      BY <2>7, <2>8, <2>9, <2>10 DEF Pipeline
  <1>5. QED
    BY <1>3, <1>4

\* The node answers the oldest request: frames of a request without frames yet.
LEMMA AnswerPipeline ==
    ASSUME IInv, NodeAnswer, OwedKept, SilentKept
    PROVE  Pipeline'
  <1>1. TypeOK /\ inbox # <<>> /\ inbox \in Seq(Request) /\ wire \in Seq(Frame)
    BY DEF IInv, SlotInv, TypeOK, NodeAnswer
  <1>0. PICK q \in Request : q = Head(inbox)
    BY <1>1, HeadTailProperties
  <1>2. /\ q = inbox[1] /\ 1 \in DOMAIN inbox /\ q \in Request
        /\ inbox' = Tail(inbox)
        /\ \A i \in DOMAIN inbox' : i + 1 \in DOMAIN inbox /\ i + 1 # 1
                                  /\ inbox'[i] = inbox[i + 1]
    BY <1>0, <1>1, HeadTailProperties, LenProperties DEF NodeAnswer
  <1>3. PICK fs \in Answers(q) : wire' = wire \o fs
    BY <1>0 DEF NodeAnswer
  <1>5. /\ fs \in Seq(Frame) /\ Len(fs) \in Nat
        /\ \A i \in 1..Len(fs) :
             /\ fs[i].req = q.req /\ fs[i].code # "push"
             /\ fs[i].code \in Final => i = Len(fs)
        /\ q.cmd = "reboot" => Len(fs) = 0
    BY AnswerFrames
  <1>6. /\ Len(wire) \in Nat /\ DOMAIN wire = 1..Len(wire)
        /\ Len(wire') = Len(wire) + Len(fs)
        /\ \A i \in DOMAIN wire' :
             /\ i \in 1..(Len(wire) + Len(fs))
             /\ \/ i \in DOMAIN wire /\ wire'[i] = wire[i]
                \/ /\ i > Len(wire) /\ i - Len(wire) \in 1..Len(fs)
                   /\ wire'[i] = fs[i - Len(wire)]
    BY <1>1, <1>3, <1>5, ConcatElements
  <1>7. \A i \in DOMAIN wire' :
          \/ i \in DOMAIN wire /\ wire'[i] = wire[i]
          \/ /\ wire'[i].req = q.req /\ wire'[i].code # "push" /\ Len(fs) # 0
             /\ wire'[i].code \in Final => i = Len(wire')
    <2> SUFFICES ASSUME NEW i \in DOMAIN wire', i - Len(wire) \in 1..Len(fs),
                        wire'[i] = fs[i - Len(wire)]
                 PROVE  /\ wire'[i].req = q.req /\ wire'[i].code # "push"
                        /\ Len(fs) # 0
                        /\ wire'[i].code \in Final => i = Len(wire')
      BY <1>6
    <2>1. i \in Nat
      BY <1>5, <1>6
    <2>2. QED
      BY <1>5, <1>6, <2>1
  <1>8. UNCHANGED rawQueue
    BY DEF NodeAnswer
  <1>9. /\ \A i \in DOMAIN wire : wire[i].req # q.req
        /\ \A i \in DOMAIN rawQueue : rawQueue[i].req # q.req
        /\ \A i \in DOMAIN inbox' : inbox'[i].req # q.req
    BY <1>2 DEF IInv, Pipeline, Unexecuted
  <1>10. Len(fs) # 0 => Owed(q.req)'
    <2>1. Owed(q.req) \/ q.cmd = "reboot"
      BY <1>2 DEF IInv, Pipeline, OwedInbox, Silent
    <2>2. QED
      BY <1>2, <1>5, <2>1 DEF OwedKept, Request
  <1>11. OwedInbox' /\ OwedWire' /\ OwedQueue'
    BY <1>1, <1>2, <1>7, <1>8, <1>10, Elements
       DEF IInv, Pipeline, OwedKept, SilentKept, OwedInbox, OwedWire, OwedQueue
  <1>12. LastInWire'
    <2> SUFFICES ASSUME NEW i \in DOMAIN wire', NEW j \in DOMAIN wire',
                        i < j, wire'[i].code \in Final
                 PROVE  wire'[j].req # wire'[i].req
      BY DEF LastInWire
    <2>1. i # Len(wire')
      BY <1>5, <1>6
    <2>2. i \in DOMAIN wire /\ wire'[i] = wire[i]
      BY <1>7, <2>1
    <2>3. CASE j \in DOMAIN wire /\ wire'[j] = wire[j]
      BY <2>2, <2>3 DEF IInv, Pipeline, LastInWire
    <2>4. CASE wire'[j].req = q.req
      BY <1>9, <2>2, <2>4
    <2>5. QED
      BY <1>7, <2>3, <2>4
  <1>13. LastInQueue' /\ LastAcross'
    BY <1>7, <1>8, <1>9 DEF IInv, Pipeline, LastInQueue, LastAcross
  <1>14. Unexecuted'
    BY <1>2, <1>7, <1>8, <1>9 DEF IInv, Pipeline, Unexecuted
  <1>15. PushTag'
    BY <1>2, <1>7 DEF IInv, Pipeline, PushTag
  <1>16. QED
    BY <1>11, <1>12, <1>13, <1>14, <1>15 DEF Pipeline

\* A push frame is nobody's answer.
LEMMA PushPipeline ==
    ASSUME IInv, NodePush, OwedKept, SilentKept
    PROVE  Pipeline'
  <1>0. PICK f \in Frame : f = [req |-> 0, code |-> "push"]
    BY DEF Frame, Codes
  <1>1. /\ TypeOK /\ UNCHANGED <<inbox, rawQueue>> /\ wire' = Append(wire, f)
        /\ wire \in Seq(Frame) /\ f.req = 0 /\ f.code = "push"
    BY <1>0 DEF IInv, SlotInv, TypeOK, NodePush
  <1>2. /\ DOMAIN wire = 1..Len(wire) /\ DOMAIN wire' = 1..(Len(wire) + 1)
        /\ \A i \in DOMAIN wire' :
             \/ i \in DOMAIN wire /\ wire'[i] = wire[i]
             \/ i = Len(wire) + 1 /\ wire'[i] = f
    BY <1>1, AppendElements
  <1>3. /\ \A i \in DOMAIN wire : wire[i].code \in Final => wire[i].req # 0
        /\ \A i \in DOMAIN rawQueue : rawQueue[i].req # 0
        /\ \A i \in DOMAIN inbox : inbox[i].req # 0
    BY OwedNumber DEF IInv, Pipeline, OwedWire, OwedQueue, PushTag, Final
  <1>4. OwedInbox' /\ OwedWire' /\ OwedQueue'
    BY <1>1, <1>2, Elements
       DEF IInv, Pipeline, OwedKept, SilentKept, OwedInbox, OwedWire, OwedQueue
  <1>5. LastInWire'
    BY <1>1, <1>2, <1>3 DEF IInv, Pipeline, LastInWire, Final
  <1>6. LastInQueue' /\ LastAcross' /\ Unexecuted' /\ PushTag'
    BY <1>1, <1>2, <1>3
       DEF IInv, Pipeline, LastInQueue, LastAcross, Unexecuted, PushTag
  <1>7. QED
    BY <1>4, <1>5, <1>6 DEF Pipeline

\* The raw command takes the oldest frame of its queue.
LEMMA ReceivePipeline ==
    ASSUME IInv, NEW c \in Callers, RawReceive(c), SilentKept
    PROVE  Pipeline' /\ StrayOnlyAfterAbandon'
  <1>1. /\ TypeOK /\ rawQueue # <<>> /\ rawQueue \in Seq(RawFrame)
        /\ rawQueue' = Tail(rawQueue) /\ UNCHANGED <<inbox, wire, slot, abandoned>>
        /\ Phase(c) = "recv" /\ Take(c, Head(rawQueue)) /\ SlotInv
    BY DEF IInv, SlotInv, TypeOK, RawReceive, node
  <1>2. PICK f \in Frame : f = Head(rawQueue)
    BY <1>1, Values, HeadTailProperties
  <1>3. /\ f = rawQueue[1] /\ 1 \in DOMAIN rawQueue
        /\ \A i \in DOMAIN rawQueue' :
             i + 1 \in DOMAIN rawQueue /\ rawQueue'[i] = rawQueue[i + 1]
             /\ 1 < i + 1
        /\ \A i, j \in DOMAIN rawQueue' : i < j => i + 1 < j + 1
    BY <1>1, <1>2, HeadTailProperties, LenProperties
  <1>4. \A r \in Nat : Owed(r) /\ ~(f.req = r /\ f.code \in Final) => Owed(r)'
    BY <1>1, <1>2, TakeOwed
  <1>5. f.code \in Final =>
          /\ \A i \in DOMAIN rawQueue' : rawQueue'[i].req # f.req
          /\ \A i \in DOMAIN wire : wire[i].req # f.req
    BY <1>3 DEF IInv, Pipeline, LastInQueue, LastAcross
  <1>6. \A i \in DOMAIN inbox : inbox[i].req # f.req
    BY <1>3 DEF IInv, Pipeline, Unexecuted
  <1>7. OwedInbox' /\ OwedWire' /\ OwedQueue'
    BY <1>1, <1>3, <1>4, <1>5, <1>6, Elements
       DEF IInv, Pipeline, SilentKept, OwedInbox, OwedWire, OwedQueue
  <1>8. LastInWire' /\ LastInQueue' /\ LastAcross' /\ Unexecuted' /\ PushTag'
    BY <1>1, <1>3 DEF IInv, Pipeline, LastInWire, LastInQueue, LastAcross,
                      Unexecuted, PushTag
  <1>9. Owed(f.req)
    BY <1>3 DEF IInv, Pipeline, OwedQueue
  <1>10. StrayOnlyAfterAbandon'
    BY <1>1, <1>2, <1>9, TakeStray DEF IInv
  <1>11. QED
    BY <1>7, <1>8, <1>10 DEF Pipeline

\* The tap takes the oldest frame from the wire: to the raw queue, to a library
\* command that waits for it, or to nobody.
LEMMA DispatchPipeline ==
    ASSUME IInv, Dispatch, SilentKept
    PROVE  Pipeline' /\ StrayOnlyAfterAbandon'
  <1>1. /\ TypeOK /\ wire # <<>> /\ wire \in Seq(Frame) /\ rawQueue \in Seq(RawFrame)
        /\ wire' = Tail(wire) /\ UNCHANGED <<inbox, slot, abandoned>> /\ SlotInv
    BY DEF IInv, SlotInv, TypeOK, Dispatch
  <1>2. PICK f \in Frame : f = Head(wire)
    BY <1>1, HeadTailProperties
  <1>3. /\ f = wire[1] /\ 1 \in DOMAIN wire
        /\ \A i \in DOMAIN wire' :
             i + 1 \in DOMAIN wire /\ wire'[i] = wire[i + 1] /\ 1 < i + 1
        /\ \A i, j \in DOMAIN wire' : i < j => i + 1 < j + 1
    BY <1>1, <1>2, HeadTailProperties, LenProperties
  <1>4. /\ f.code \in Final => \A i \in DOMAIN wire' : wire'[i].req # f.req
        /\ \A i \in DOMAIN rawQueue :
             rawQueue[i].code \in Final => f.req # rawQueue[i].req
        /\ \A i \in DOMAIN inbox : inbox[i].req # f.req
        /\ f.code # "push" => Owed(f.req)
    BY <1>3 DEF IInv, Pipeline, LastInWire, LastAcross, Unexecuted, OwedWire
  <1>5. \/ rawQueue' = rawQueue
        \/ rawOpen /\ f.code # "push" /\ rawQueue' = Append(rawQueue, f)
    BY <1>2 DEF Dispatch, ForRaw
  <1>6. ASSUME NEW c \in LibCallers, Phase(c) = "recv",
               LibAccepts(call[c].cmd, f.code), Take(c, f)
        PROVE  Pipeline' /\ StrayOnlyAfterAbandon'
    <2>1. c \in Callers /\ slot = c /\ ~rawOpen /\ rawQueue = <<>>
      BY <1>1, <1>6, CallersAssumption
         DEF Callers, SlotInv, SlotDiscipline, Holding
    <2>2. rawQueue' = <<>>
      BY <1>5, <2>1
    <2>3. f.code # "push" /\ f.code \in Final
      BY <1>6 DEF LibAccepts, Final
    <2>4. \A r \in Nat : Owed(r) /\ ~(f.req = r) => Owed(r)'
      BY <1>1, <1>6, <2>1, TakeOwed
    <2>5. OwedInbox' /\ OwedWire' /\ OwedQueue'
      BY <1>1, <1>3, <1>4, <2>2, <2>3, <2>4, Elements
         DEF IInv, Pipeline, SilentKept, OwedInbox, OwedWire, OwedQueue
    <2>6. LastInWire' /\ LastInQueue' /\ LastAcross' /\ Unexecuted' /\ PushTag'
      BY <1>1, <1>3, <2>2 DEF IInv, Pipeline, LastInWire, LastInQueue,
                              LastAcross, Unexecuted, PushTag
    <2>7. StrayOnlyAfterAbandon'
      BY <1>1, <1>4, <1>6, <2>1, <2>3, TakeStray DEF IInv
    <2>8. QED
      BY <2>5, <2>6, <2>7 DEF Pipeline
  <1>7. CASE UNCHANGED <<call, got>>
    <2>1. \A r \in Nat : Owed(r) => Owed(r)'
      BY <1>1, <1>7 DEF Owed, Answered, Phase
    <2>2. StrayOnlyAfterAbandon'
      BY <1>1, <1>7 DEF IInv, StrayOnlyAfterAbandon
    <2>3. CASE rawQueue' = rawQueue
      <3>1. OwedInbox' /\ OwedWire' /\ OwedQueue'
        BY <1>1, <1>3, <2>1, <2>3, Elements
           DEF IInv, Pipeline, SilentKept, OwedInbox, OwedWire, OwedQueue
      <3>2. LastInWire' /\ LastInQueue' /\ LastAcross' /\ Unexecuted' /\ PushTag'
        BY <1>1, <1>3, <2>3 DEF IInv, Pipeline, LastInWire, LastInQueue,
                                LastAcross, Unexecuted, PushTag
      <3>3. QED
        BY <2>2, <3>1, <3>2 DEF Pipeline
    <2>4. CASE f.code # "push" /\ rawQueue' = Append(rawQueue, f)
      <3>1. f \in RawFrame
        BY <2>4 DEF Frame, RawFrame
      <3>2. /\ DOMAIN rawQueue = 1..Len(rawQueue) /\ Len(rawQueue) \in Nat
            /\ DOMAIN rawQueue' = 1..(Len(rawQueue) + 1)
            /\ \A i \in DOMAIN rawQueue' :
                 \/ i \in DOMAIN rawQueue /\ rawQueue'[i] = rawQueue[i]
                 \/ i = Len(rawQueue) + 1 /\ rawQueue'[i] = f
        BY <1>1, <2>4, <3>1, AppendElements
      <3>3. OwedInbox' /\ OwedWire'
        BY <1>1, <1>3, <2>1, Elements
           DEF IInv, Pipeline, SilentKept, OwedInbox, OwedWire
      <3>4. OwedQueue'
        <4>1. f.req \in Nat
          BY DEF Frame
        <4>2. QED
          BY <1>1, <1>4, <2>1, <2>4, <3>2, <4>1, Elements
             DEF IInv, Pipeline, OwedQueue
      <3>5. LastInWire' /\ PushTag'
        BY <1>1, <1>3 DEF IInv, Pipeline, LastInWire, PushTag
      <3>6. LastInQueue'
        BY <1>4, <3>2 DEF IInv, Pipeline, LastInQueue
      <3>7. LastAcross'
        BY <1>3, <1>4, <3>2 DEF IInv, Pipeline, LastAcross
      <3>8. Unexecuted'
        BY <1>1, <1>3, <1>4, <3>2 DEF IInv, Pipeline, Unexecuted
      <3>9. QED
        BY <2>2, <3>3, <3>4, <3>5, <3>6, <3>7, <3>8 DEF Pipeline
    <2>5. QED
      BY <1>5, <2>3, <2>4
  <1>8. QED
    BY <1>2, <1>6, <1>7 DEF Dispatch

TakesNone(d) ==
    \/ got'[d] = <<>>
    \/ got'[d] = got[d] /\ call'[d].req = call[d].req

\* A caller whose frames are thrown away, or who only changes phase, takes none.
LEMMA StraySame ==
    ASSUME IInv, SlotInv', abandoned \subseteq abandoned',
           \A d \in Callers : TakesNone(d)
    PROVE  StrayOnlyAfterAbandon'
  BY DEF IInv, StrayOnlyAfterAbandon, TakesNone

LEMMA LeaveTakesNone ==
    ASSUME TypeOK, NEW c \in Callers, Leave(c)
    PROVE  /\ abandoned \subseteq abandoned'
           /\ \A d \in Callers : TakesNone(d)
  <1>1. abandoned \subseteq abandoned'
    BY DEF Leave
  <1>2. got'[c] = <<>>
    BY DEF Leave, TypeOK
  <1>3. \A d \in Callers \ {c} : got'[d] = got[d] /\ call'[d] = call[d]
    BY DEF Leave, TypeOK
  <1>4. QED
    BY <1>1, <1>2, <1>3 DEF TakesNone

LEMMA AttributionInit == Init => IInv
  BY SlotInit DEF Init, IInv, Pipeline, OwedInbox, OwedWire, OwedQueue, LastInWire,
     LastInQueue, LastAcross, Unexecuted, PushTag, StrayOnlyAfterAbandon

LEMMA AttributionStep == IInv /\ [Next]_vars => IInv'
  <1> SUFFICES ASSUME IInv, [Next]_vars PROVE IInv'
    OBVIOUS
  <1>0. SlotInv /\ SlotInv' /\ TypeOK /\ TypeOK' /\ SilentKept /\ Pipeline
    BY SlotStep, SilentStep DEF IInv, SlotInv
  <1> USE <1>0 DEF link, node
  <1>1. ASSUME NEW c \in Callers, NEW cmd \in Commands, Submit(c, cmd)
        PROVE  IInv'
    <2>1. /\ UNCHANGED <<inbox, wire, got, abandoned>> /\ got[c] = <<>>
          /\ \A d \in Callers \ {c} : call'[d] = call[d]
          /\ slot # c
      BY <1>1 DEF Submit, SlotInv, PhaseData, SlotDiscipline, Holding, Enter,
                  TypeOK, Phase
    <2>2. slot' = slot \/ slot = NoOne
      BY <1>1 DEF Submit, LockFree
    <2>3. OwedKept
      BY <2>1, <2>2, CallersAssumption DEF OwedKept, Owed, Answered, Phase
    <2>4. rawQueue' = rawQueue \/ rawQueue' = <<>>
      BY <1>1 DEF Submit, Enter
    <2>5. QED
      <3>1. Pipeline'
        BY <2>1, <2>3, <2>4, PipelineSame
      <3>2. \A d \in Callers : TakesNone(d)
        BY <2>1 DEF TakesNone
      <3>3. QED
        BY <2>1, <3>1, <3>2, StraySame DEF IInv
  <1>2. ASSUME NEW c \in Callers, Acquire(c) PROVE IInv'
    <2>1. /\ slot = NoOne /\ UNCHANGED <<inbox, wire, got, abandoned>>
          /\ rawQueue' = <<>>
          /\ \A d \in Callers : call'[d].req = call[d].req
      BY <1>2 DEF Acquire, Enter, TypeOK, Call
    <2>2. OwedKept
      BY <2>1, CallersAssumption DEF OwedKept, Owed
    <2>3. QED
      <3>1. \A d \in Callers : TakesNone(d)
        BY <2>1 DEF TakesNone
      <3>2. Pipeline'
        BY <2>1, <2>2, PipelineSame
      <3>3. QED
        BY <2>1, <3>1, <3>2, StraySame DEF IInv
  <1>3. ASSUME NEW c \in Callers, Send(c) PROVE IInv'
    <2>1. Pipeline'
      BY <1>3, SendPipeline
    <2>2. /\ abandoned \subseteq abandoned'
          /\ \A d \in Callers : TakesNone(d)
      <3>1. CASE Leave(c)
        BY <3>1, LeaveTakesNone
      <3>2. CASE ~Leave(c)
        <4>1. UNCHANGED <<got, abandoned>>
          BY <1>3, <3>2 DEF Send
        <4>2. call' = [call EXCEPT ![c].phase = "recv"]
          BY <1>3, <3>2 DEF Send
        <4>3. \A d \in Callers : call'[d].req = call[d].req
          BY <4>2 DEF TypeOK, Call
        <4>4. QED
          BY <4>1, <4>3 DEF TakesNone
      <3>3. QED
        BY <3>1, <3>2
    <2>3. QED
      BY <2>1, <2>2, StraySame DEF IInv
  <1>4. ASSUME NEW c \in Callers, Phase(c) \in Holding, Leave(c),
               UNCHANGED <<inbox, wire>>
        PROVE  IInv'
    <2>1. OwedKept
      BY <1>4, LeaveOwed
    <2>2. rawQueue' = <<>> /\ abandoned \subseteq abandoned'
      BY <1>4 DEF Leave, Release
    <2>3. \A d \in Callers : TakesNone(d)
      BY <1>4, LeaveTakesNone
    <2>4. QED
      BY <1>4, <2>1, <2>2, <2>3, PipelineSame, StraySame DEF IInv
  <1>5. ASSUME NEW c \in Callers,
               SendFails(c) \/ StreamFails(c) \/ Timeout(c)
        PROVE  IInv'
    BY <1>4, <1>5 DEF SendFails, StreamFails, Timeout, MayExpire, Holding
  <1>6. ASSUME NEW c \in Callers, RawReceive(c) PROVE IInv'
    BY <1>6, ReceivePipeline DEF IInv
  <1>7. ASSUME NEW c \in Callers, Taken(c) PROVE IInv'
    <2>1. CASE Leave(c)
      BY <1>4, <1>7, <2>1 DEF Taken, Holding
    <2>2. CASE ~Leave(c)
      <3>1. /\ call' = [call EXCEPT ![c].phase = "recv"] /\ Phase(c) = "took"
            /\ UNCHANGED <<slot, rawQueue, got, abandoned, inbox, wire>>
        BY <1>7, <2>2 DEF Taken
      <3>2. \A d \in Callers :
              /\ call'[d].req = call[d].req
              /\ d # c => call'[d] = call[d]
              /\ d = c => call'[d].phase = "recv"
        BY <3>1 DEF TypeOK, Call
      <3>3. OwedKept
        BY <3>1, <3>2 DEF OwedKept, Owed, Answered, Phase
      <3>4. QED
        <4>1. \A d \in Callers : TakesNone(d)
          BY <3>1, <3>2 DEF TakesNone
        <4>2. Pipeline'
          BY <3>1, <3>3, PipelineSame
        <4>3. QED
          BY <3>1, <4>1, <4>2, StraySame DEF IInv
    <2>3. QED
      BY <2>1, <2>2
  <1>8. ASSUME NEW c \in Callers, Cancel(c) PROVE IInv'
    <2>1. CASE Phase(c) \in Holding /\ Leave(c)
      BY <1>4, <1>8, <2>1 DEF Cancel
    <2>2. CASE /\ Phase(c) = "wait" /\ call' = [call EXCEPT ![c] = Idle]
               /\ UNCHANGED <<slot, got, rawOpen, rawQueue, abandoned>>
      <3>1. /\ slot # c /\ got[c] = <<>> /\ UNCHANGED <<inbox, wire>>
            /\ \A d \in Callers \ {c} : call'[d] = call[d]
        BY <1>8, <2>2
           DEF Cancel, SlotInv, SlotDiscipline, PhaseData, Holding, TypeOK
      <3>2. OwedKept
        BY <2>2, <3>1 DEF OwedKept, Owed, Answered, Phase
      <3>3. \A d \in Callers : TakesNone(d)
        BY <2>2, <3>1 DEF TakesNone
      <3>4. Pipeline'
        BY <2>2, <3>1, <3>2, PipelineSame
      <3>5. QED
        BY <2>2, <3>3, <3>4, StraySame DEF IInv
    <2>3. QED
      BY <1>8, <2>1, <2>2 DEF Cancel
  <1>9. CASE Dispatch
    BY <1>9, DispatchPipeline DEF IInv
  <1>10. CASE \/ NodeAnswer \/ NodePush \/ LinkDrop \/ ConnLost \/ Reconnect
              \/ UNCHANGED vars
    <2>1. UNCHANGED <<slot, call, got, rawQueue, abandoned>>
      BY <1>10 DEF NodeAnswer, NodePush, LinkDrop, ConnLost, Reconnect, vars
    <2>2. OwedKept /\ StrayOnlyAfterAbandon'
      BY <2>1 DEF OwedKept, Owed, Answered, Phase, IInv, StrayOnlyAfterAbandon
    <2>3. CASE NodeAnswer
      BY <2>2, <2>3, AnswerPipeline DEF IInv
    <2>4. CASE NodePush
      BY <2>2, <2>4, PushPipeline DEF IInv
    <2>5. CASE LinkDrop \/ ConnLost \/ Reconnect \/ UNCHANGED vars
      <3>1. \/ inbox' = <<>> /\ wire' = <<>>
            \/ UNCHANGED <<inbox, wire>>
        BY <2>5 DEF LinkDrop, ConnLost, Reconnect, LoseTraffic, vars
      <3>2. QED
        BY <2>1, <2>2, <3>1, PipelineSame DEF IInv
    <2>6. QED
      BY <1>10, <2>3, <2>4, <2>5
  <1>11. QED
    BY <1>1, <1>2, <1>3, <1>5, <1>6, <1>7, <1>8, <1>9, <1>10 DEF Next, CallerStep

\* Without timeouts, cancellations, failed sends and dead clients, attribution by
\* order is exact: any frame a command takes that is not an answer to its own
\* request answers one whose caller gave up.
THEOREM Attribution == Spec => []StrayOnlyAfterAbandon
  <1>1. IInv => StrayOnlyAfterAbandon
    BY DEF IInv
  <1>2. QED
    BY AttributionInit, AttributionStep, <1>1, PTL DEF Spec

-----------------------------------------------------------------------------
(* Whole answers: how the frames of one answer, to request r, come through  *)
(* the wire w and the raw queue q to what the command has taken, g.         *)

Has(r, s)       == \E i \in DOMAIN s : s[i].req = r
FinalOnly(r, s) == \A i \in DOMAIN s : s[i].req = r => s[i].code \in Final
Opens(f)        == f.code \in {"start", "err"}

\* No frame of the answer is without the first one before it.
OpensFirst(r, s, begun) ==
    \A i \in DOMAIN s : s[i].req = r =>
        Opens(s[i]) \/ begun \/ \E j \in DOMAIN s : j < i /\ s[j].req = r
FromTheStart(r, g, q, w) ==
    /\ OpensFirst(r, g, FALSE)
    /\ OpensFirst(r, q, Has(r, g))
    /\ OpensFirst(r, w, Has(r, g) \/ Has(r, q))

\* The command of c has been sent.
Sent(c) == Phase(c) \in {"recv", "took"}

\* What is under way to c, and what it has taken.
AnswerFine(r, cmd, raw, g, q, w) ==
    /\ cmd = "set" => FinalOnly(r, g) /\ FinalOnly(r, q) /\ FinalOnly(r, w)
    /\ cmd = "contacts" /\ raw => FromTheStart(r, g, q, w)
SentFine(c) ==
    Sent(c) => AnswerFine(call[c].req, call[c].cmd, c \in RawCallers, got[c], rawQueue, wire)

\* The node is asked for what the command is.
OwnRequest ==
    \A c \in Callers : Active(c) =>
        \A i \in DOMAIN inbox : inbox[i].req = call[c].req => inbox[i].cmd = call[c].cmd

\* What a command has taken ends nothing unless it is the last; a raw command takes
\* no push, a library command the end of an answer only.
Unfinished(c) ==
    /\ \A i \in DOMAIN got[c] :
          Terminal(call[c].cmd, got[c][i].code) => i = Len(got[c]) /\ Phase(c) = "took"
    /\ c \in RawCallers => \A i \in DOMAIN got[c] : got[c][i].code # "push"
    /\ c \in LibCallers => \A i \in DOMAIN got[c] : got[c][i].code \in Final
    /\ Phase(c) = "took" => got[c] # <<>>

WholeInv ==
    /\ IInv /\ OwnRequest
    /\ \A c \in Callers : Unfinished(c) /\ SentFine(c)

\* The oldest frame of s, and the others.
LEMMA HeadElements ==
    ASSUME NEW S, NEW s \in Seq(S), s # <<>>
    PROVE  /\ 1 \in DOMAIN s /\ Head(s) = s[1] /\ Head(s) \in S /\ Tail(s) \in Seq(S)
           /\ \A i \in DOMAIN Tail(s) : i \in Nat /\ i >= 1 /\ i + 1 \in DOMAIN s /\ Tail(s)[i] = s[i + 1]
           /\ \A i \in DOMAIN s : i \in Nat /\ (i = 1 \/ (i > 1 /\ i - 1 \in DOMAIN Tail(s)))
  BY HeadTailProperties, LenProperties

LEMMA HasTail ==
    ASSUME NEW S, NEW s \in Seq(S), s # <<>>, NEW r, Has(r, s)
    PROVE  Head(s).req = r \/ Has(r, Tail(s))
  <1>1. PICK i \in DOMAIN s : s[i].req = r
    BY DEF Has
  <1>2. CASE i = 1
    BY <1>1, <1>2, HeadElements
  <1>3. CASE i # 1
    <2>1. i - 1 \in DOMAIN Tail(s) /\ Tail(s)[i - 1] = s[i]
      BY <1>3, HeadElements
    <2>2. QED
      BY <1>1, <2>1 DEF Has
  <1>4. QED
    BY <1>2, <1>3

LEMMA HasAppend ==
    ASSUME NEW S, NEW s \in Seq(S), NEW e \in S, NEW r
    PROVE  /\ Has(r, s) => Has(r, Append(s, e))
           /\ e.req = r => Has(r, Append(s, e))
  <1>1. /\ Len(s) \in Nat /\ DOMAIN s = 1..Len(s) /\ DOMAIN Append(s, e) = 1..(Len(s) + 1)
        /\ Append(s, e)[Len(s) + 1] = e
        /\ \A i \in DOMAIN s : i \in DOMAIN Append(s, e) /\ Append(s, e)[i] = s[i]
    BY AppendProperties, LenProperties
  <1>2. Len(s) + 1 \in DOMAIN Append(s, e)
    BY <1>1
  <1>3. QED
    BY <1>1, <1>2 DEF Has

\* A frame leaves the head: what is behind it has the same before it, or that frame.
LEMMA OpensTail ==
    ASSUME NEW S, NEW s \in Seq(S), s # <<>>, NEW r, NEW a \in BOOLEAN, NEW b \in BOOLEAN,
           OpensFirst(r, s, a), a \/ Head(s).req = r => b
    PROVE  OpensFirst(r, Tail(s), b)
  <1> SUFFICES ASSUME NEW i \in DOMAIN Tail(s), Tail(s)[i].req = r, ~Opens(Tail(s)[i]), ~b
               PROVE  \E j \in DOMAIN Tail(s) : j < i /\ Tail(s)[j].req = r
    BY DEF OpensFirst
  <1>1. i + 1 \in DOMAIN s /\ Tail(s)[i] = s[i + 1] /\ i \in Nat
    BY HeadElements
  <1>2. PICK j \in DOMAIN s : j < i + 1 /\ s[j].req = r
    BY <1>1 DEF OpensFirst
  <1>3. j # 1
    BY <1>2, HeadElements
  <1>4. j \in Nat /\ j > 1 /\ j - 1 \in DOMAIN Tail(s) /\ Tail(s)[j - 1] = s[j - 1 + 1]
    BY <1>3, HeadElements
  <1>5. j - 1 < i /\ Tail(s)[j - 1].req = r
    BY <1>1, <1>2, <1>4
  <1>6. QED
    BY <1>4, <1>5

LEMMA OpensAppend ==
    ASSUME NEW S, NEW s \in Seq(S), NEW e \in S, NEW r, NEW a \in BOOLEAN,
           OpensFirst(r, s, a), e.req = r => Opens(e) \/ a \/ Has(r, s)
    PROVE  OpensFirst(r, Append(s, e), a)
  <1> SUFFICES ASSUME NEW i \in DOMAIN Append(s, e), Append(s, e)[i].req = r,
                      ~Opens(Append(s, e)[i]), ~a
               PROVE  \E j \in DOMAIN Append(s, e) : j < i /\ Append(s, e)[j].req = r
    BY DEF OpensFirst
  <1>1. /\ Len(s) \in Nat /\ DOMAIN s = 1..Len(s) /\ DOMAIN Append(s, e) = 1..(Len(s) + 1)
        /\ Append(s, e)[Len(s) + 1] = e
        /\ \A k \in DOMAIN s : k \in DOMAIN Append(s, e) /\ Append(s, e)[k] = s[k]
    BY AppendProperties, LenProperties
  <1>2. \E j \in DOMAIN s : j < i /\ s[j].req = r
    <2>1. CASE i \in DOMAIN s
      BY <1>1, <2>1 DEF OpensFirst
    <2>2. CASE i = Len(s) + 1
      <3>1. PICK j \in DOMAIN s : s[j].req = r
        BY <1>1, <2>2 DEF Has
      <3>2. j < i
        BY <1>1, <2>2
      <3>3. QED
        BY <3>1, <3>2
    <2>3. QED
      BY <1>1, <2>1, <2>2
  <1>3. QED
    BY <1>1, <1>2

\* A raw command takes the oldest frame of the queue.
LEMMA FineReceived ==
    ASSUME NEW r, NEW cmd, NEW raw \in BOOLEAN, NEW g \in Seq(Frame), NEW q \in Seq(RawFrame), NEW w, q # <<>>,
           AnswerFine(r, cmd, raw, g, q, w)
    PROVE  AnswerFine(r, cmd, raw, Append(g, Head(q)), Tail(q), w)
  <1>1. /\ Head(q) \in Frame /\ Head(q) = q[1] /\ 1 \in DOMAIN q
        /\ \A i \in DOMAIN Tail(q) : i + 1 \in DOMAIN q /\ Tail(q)[i] = q[i + 1]
    BY HeadElements, Values
  <1>2. /\ Len(g) \in Nat /\ DOMAIN g = 1..Len(g)
        /\ \A i \in DOMAIN Append(g, Head(q)) :
                \/ i \in DOMAIN g /\ Append(g, Head(q))[i] = g[i]
                \/ i = Len(g) + 1 /\ Append(g, Head(q))[i] = Head(q)
    BY <1>1, AppendElements
  <1>3. ASSUME FinalOnly(r, g), FinalOnly(r, q)
        PROVE  FinalOnly(r, Append(g, Head(q))) /\ FinalOnly(r, Tail(q))
    BY <1>1, <1>2, <1>3 DEF FinalOnly
  <1>4. ASSUME FromTheStart(r, g, q, w)
        PROVE  FromTheStart(r, Append(g, Head(q)), Tail(q), w)
    <2> DEFINE h == Append(g, Head(q))
    <2>0. /\ OpensFirst(r, g, FALSE) /\ OpensFirst(r, q, Has(r, g))
          /\ OpensFirst(r, w, Has(r, g) \/ Has(r, q))
          /\ Has(r, g) \in BOOLEAN /\ Has(r, h) \in BOOLEAN
      BY <1>4 DEF FromTheStart, Has
    <2>1. /\ Has(r, g) => Has(r, h)
          /\ Head(q).req = r => Has(r, h)
      BY <1>1, HasAppend
    <2>2. OpensFirst(r, h, FALSE)
      <3>1. Head(q).req = r => Opens(Head(q)) \/ Has(r, g)
        BY <1>1, <2>0, LenProperties DEF OpensFirst
      <3>2. QED
        BY <1>1, <2>0, <3>1, OpensAppend
    <2> HIDE DEF h
    <2>3. OpensFirst(r, Tail(q), Has(r, h))
      BY <2>0, <2>1, OpensTail
    <2>4. OpensFirst(r, w, Has(r, h) \/ Has(r, Tail(q)))
      <3>1. Has(r, g) \/ Has(r, q) => Has(r, h) \/ Has(r, Tail(q))
        BY <2>1, HasTail
      <3>2. QED
        BY <2>0, <3>1 DEF OpensFirst
    <2>5. QED
      BY <2>2, <2>3, <2>4 DEF FromTheStart, h
  <1>5. QED
    BY <1>3, <1>4 DEF AnswerFine

\* The tap puts the oldest frame of the wire into the queue.
LEMMA FineQueued ==
    ASSUME NEW r, NEW cmd, NEW raw \in BOOLEAN, NEW g, NEW q \in Seq(Frame), NEW w \in Seq(Frame), w # <<>>,
           AnswerFine(r, cmd, raw, g, q, w)
    PROVE  AnswerFine(r, cmd, raw, g, Append(q, Head(w)), Tail(w))
  <1>1. /\ Head(w) \in Frame /\ Head(w) = w[1] /\ 1 \in DOMAIN w
        /\ \A i \in DOMAIN Tail(w) : i + 1 \in DOMAIN w /\ Tail(w)[i] = w[i + 1]
    BY HeadElements
  <1>2. /\ Len(q) \in Nat /\ DOMAIN q = 1..Len(q)
        /\ \A i \in DOMAIN Append(q, Head(w)) :
                \/ i \in DOMAIN q /\ Append(q, Head(w))[i] = q[i]
                \/ i = Len(q) + 1 /\ Append(q, Head(w))[i] = Head(w)
    BY <1>1, AppendElements
  <1>3. ASSUME FinalOnly(r, q), FinalOnly(r, w)
        PROVE  FinalOnly(r, Append(q, Head(w))) /\ FinalOnly(r, Tail(w))
    BY <1>1, <1>2, <1>3 DEF FinalOnly
  <1>4. ASSUME FromTheStart(r, g, q, w)
        PROVE  FromTheStart(r, g, Append(q, Head(w)), Tail(w))
    <2> DEFINE p == Append(q, Head(w))
    <2>0. /\ OpensFirst(r, g, FALSE) /\ OpensFirst(r, q, Has(r, g))
          /\ OpensFirst(r, w, Has(r, g) \/ Has(r, q))
          /\ Has(r, g) \in BOOLEAN /\ Has(r, q) \in BOOLEAN /\ Has(r, p) \in BOOLEAN
      BY <1>4 DEF FromTheStart, Has
    <2>1. /\ Has(r, q) => Has(r, p)
          /\ Head(w).req = r => Has(r, p)
      BY <1>1, HasAppend
    <2>2. OpensFirst(r, p, Has(r, g))
      <3>1. Head(w).req = r => Opens(Head(w)) \/ Has(r, g) \/ Has(r, q)
        BY <1>1, <2>0, LenProperties DEF OpensFirst
      <3>2. QED
        BY <1>1, <2>0, <3>1, OpensAppend
    <2> HIDE DEF p
    <2>3. OpensFirst(r, Tail(w), Has(r, g) \/ Has(r, p))
      BY <2>0, <2>1, OpensTail
    <2>4. QED
      BY <2>0, <2>2, <2>3 DEF FromTheStart, p
  <1>5. QED
    BY <1>3, <1>4 DEF AnswerFine

\* The tap drops a frame of something else, or a library command is done with it.
LEMMA FineDropped ==
    ASSUME NEW r, NEW cmd, NEW raw \in BOOLEAN, NEW g, NEW q, NEW w \in Seq(Frame), w # <<>>,
           AnswerFine(r, cmd, raw, g, q, w), raw => Head(w).req # r
    PROVE  AnswerFine(r, cmd, raw, g, q, Tail(w))
  <1>1. \A i \in DOMAIN Tail(w) : i + 1 \in DOMAIN w /\ Tail(w)[i] = w[i + 1]
    BY HeadElements
  <1>2. FinalOnly(r, w) => FinalOnly(r, Tail(w))
    BY <1>1 DEF FinalOnly
  <1>3. ASSUME raw, OpensFirst(r, w, Has(r, g) \/ Has(r, q))
        PROVE  OpensFirst(r, Tail(w), Has(r, g) \/ Has(r, q))
    <2>1. (Has(r, g) \/ Has(r, q)) \in BOOLEAN
      OBVIOUS
    <2>2. QED
      BY <1>3, <2>1, OpensTail
  <1>4. QED
    BY <1>2, <1>3 DEF AnswerFine, FromTheStart

\* The node's answer: the first frame opens it, a one-frame answer is final.
LEMMA AnswerOpens ==
    ASSUME NEW q \in Request, NEW a \in Answers(q)
    PROVE  /\ q.cmd = "set" => \A i \in DOMAIN a : a[i].code \in Final
           /\ q.cmd = "contacts" => Len(a) >= 1 /\ Opens(a[1])
  <1> DEFINE Resp(code) == [req |-> q.req, code |-> code]
  <1>0. q.cmd \in Commands /\ \A code \in Codes : Resp(code).code = code
    BY DEF Request
  <1>1. \/ q.cmd = "contacts" /\ a = <<Resp("start"), Resp("contact"), Resp("end")>>
        \/ q.cmd # "reboot" /\ a = <<Resp("err")>>
        \/ q.cmd = "set" /\ a = <<Resp("ok")>>
        \/ q.cmd = "reboot" /\ a = <<>>
    BY <1>0 DEF Answers, Commands
  <1> HIDE DEF Resp
  <1>2. QED
    BY <1>0, <1>1 DEF Opens, Codes, Final

LEMMA FineAnswered ==
    ASSUME NEW r, NEW cmd, NEW raw \in BOOLEAN, NEW g, NEW q, NEW w \in Seq(Frame),
           AnswerFine(r, cmd, raw, g, q, w),
           NEW x \in Request, NEW a \in Answers(x), x.req = r => x.cmd = cmd
    PROVE  AnswerFine(r, cmd, raw, g, q, w \o a)
  <1>1. /\ a \in Seq(Frame) /\ Len(a) \in Nat /\ DOMAIN a = 1..Len(a)
        /\ \A i \in DOMAIN a : a[i].req = x.req
        /\ x.cmd = "set" => \A i \in DOMAIN a : a[i].code \in Final
        /\ x.cmd = "contacts" => Len(a) >= 1 /\ Opens(a[1])
    BY AnswerFrames, AnswerOpens, LenProperties
  <1>2. /\ Len(w) \in Nat /\ DOMAIN w = 1..Len(w)
        /\ w \o a \in Seq(Frame) /\ DOMAIN (w \o a) = 1..(Len(w) + Len(a))
        /\ \A i \in 1..(Len(w) + Len(a)) :
              (w \o a)[i] = IF i <= Len(w) THEN w[i] ELSE a[i - Len(w)]
    BY <1>1, ConcatProperties, LenProperties
  <1> DEFINE v == w \o a
  <1> HIDE DEF v
  <1>3. \A i \in DOMAIN v :
          \/ i \in DOMAIN w /\ v[i] = w[i]
          \/ /\ i > Len(w) /\ i - Len(w) \in DOMAIN a
             /\ v[i] = a[i - Len(w)]
    BY <1>1, <1>2 DEF v
  <1>4. ASSUME cmd = "set", FinalOnly(r, w) PROVE FinalOnly(r, v)
    BY <1>1, <1>3, <1>4 DEF FinalOnly
  <1>5. ASSUME NEW b \in BOOLEAN, cmd = "contacts", OpensFirst(r, w, b) PROVE OpensFirst(r, v, b)
    <2> SUFFICES ASSUME NEW i \in DOMAIN v, v[i].req = r, ~Opens(v[i]), ~b
                 PROVE  \E j \in DOMAIN v : j < i /\ v[j].req = r
      BY DEF OpensFirst
    <2>0. \A j \in DOMAIN w : j \in DOMAIN v /\ v[j] = w[j]
      BY <1>1, <1>2 DEF v
    <2>1. CASE i \in DOMAIN w /\ v[i] = w[i]
      BY <1>5, <2>0, <2>1 DEF OpensFirst
    <2>2. CASE i > Len(w) /\ i - Len(w) \in DOMAIN a /\ v[i] = a[i - Len(w)]
      <3>1. x.req = r /\ x.cmd = "contacts"
        BY <1>1, <1>5, <2>2
      <3>2. Len(w) + 1 \in DOMAIN v /\ v[Len(w) + 1] = a[1] /\ 1 \in DOMAIN a
        BY <1>1, <1>2, <3>1 DEF v
      <3>3. i # Len(w) + 1
        BY <1>1, <3>1, <3>2
      <3>4. Len(w) + 1 < i /\ v[Len(w) + 1].req = r
        BY <1>1, <1>2, <2>2, <3>1, <3>2, <3>3 DEF v
      <3>5. QED
        BY <3>2, <3>4
    <2>3. QED
      BY <1>3, <2>1, <2>2
  <1>6. QED
    <2>1. (Has(r, g) \/ Has(r, q)) \in BOOLEAN
      OBVIOUS
    <2>2. QED
      BY <1>4, <1>5, <2>1 DEF AnswerFine, FromTheStart, v

\* A push is no part of any answer.
LEMMA FinePushed ==
    ASSUME NEW r, NEW cmd, NEW raw \in BOOLEAN, NEW g, NEW q, NEW w \in Seq(Frame), NEW f \in Frame,
           AnswerFine(r, cmd, raw, g, q, w), f.req # r
    PROVE  AnswerFine(r, cmd, raw, g, q, Append(w, f))
  <1>1. \A i \in DOMAIN Append(w, f) :
            \/ i \in DOMAIN w /\ Append(w, f)[i] = w[i]
            \/ Append(w, f)[i] = f
    BY AppendElements
  <1>2. FinalOnly(r, w) => FinalOnly(r, Append(w, f))
    BY <1>1 DEF FinalOnly
  <1>3. ASSUME OpensFirst(r, w, Has(r, g) \/ Has(r, q))
        PROVE  OpensFirst(r, Append(w, f), Has(r, g) \/ Has(r, q))
    <2>1. (Has(r, g) \/ Has(r, q)) \in BOOLEAN
      OBVIOUS
    <2>2. QED
      BY <1>3, <2>1, OpensAppend
  <1>4. QED
    BY <1>2, <1>3 DEF AnswerFine, FromTheStart

\* A request on its way is an old one, or that of who sends.
LEMMA InboxStep ==
    ASSUME TypeOK, [Next]_vars, NEW i \in DOMAIN inbox'
    PROVE  \/ \E j \in DOMAIN inbox : inbox'[i] = inbox[j]
           \/ \E d \in Callers : /\ Phase(d) = "send"
                                 /\ inbox'[i] = [req |-> call[d].req, cmd |-> call[d].cmd]
  <1> USE DEF link, node
  <1>1. CASE inbox' = inbox \/ inbox' = <<>>
    BY <1>1
  <1>2. CASE NodeAnswer
    <2>1. inbox' = Tail(inbox) /\ inbox # <<>> /\ inbox \in Seq(Request)
      BY <1>2 DEF NodeAnswer, TypeOK
    <2>2. QED
      BY <2>1, HeadElements
  <1>3. ASSUME NEW c \in Callers, Send(c), inbox' # inbox
        PROVE  \/ \E j \in DOMAIN inbox : inbox'[i] = inbox[j]
               \/ inbox'[i] = [req |-> call[c].req, cmd |-> call[c].cmd]
    <2>1. PICK q \in Request : q = [req |-> call[c].req, cmd |-> call[c].cmd]
      BY DEF TypeOK, Call, Request
    <2>2. inbox' = Append(inbox, q) /\ inbox \in Seq(Request)
      BY <1>3, <2>1 DEF Send, Deliver, TypeOK
    <2>3. QED
      BY <2>1, <2>2, AppendElements
  <1>4. \/ inbox' = inbox \/ inbox' = <<>> \/ NodeAnswer
        \/ \E c \in Callers : Send(c)
    BY DEF Next, CallerStep, Submit, Acquire, SendFails, RawReceive, Taken, StreamFails, Timeout,
           Cancel, Dispatch, NodePush, LinkDrop, ConnLost, LoseTraffic, Reconnect, vars
  <1>5. QED
    BY <1>1, <1>2, <1>3, <1>4 DEF Send

\* The node is asked for what the command is: numbers are never used again.
LEMMA OwnRequestStep ==
    ASSUME IInv, OwnRequest, [Next]_vars
    PROVE  OwnRequest'
  <1>0. SlotInv /\ TypeOK /\ nreq \in Nat
    BY DEF IInv, SlotInv, TypeOK
  <1> SUFFICES ASSUME NEW c \in Callers, Active(c)', NEW i \in DOMAIN inbox',
                      inbox'[i].req = call'[c].req
               PROVE  inbox'[i].cmd = call'[c].cmd
    BY DEF OwnRequest
  <1>1. \/ Active(c) /\ SameCommand(c)
        \/ call'[c].req = nreq + 1
    BY <1>0, ActiveStep
  <1>2. ASSUME NEW j \in DOMAIN inbox, inbox'[i] = inbox[j]
        PROVE  inbox'[i].cmd = call'[c].cmd
    <2>1. inbox[j].req \in 1..nreq
      BY <1>0, OwedNumber DEF IInv, Pipeline, OwedInbox, Silent
    <2>2. Active(c) /\ SameCommand(c)
      BY <1>0, <1>1, <1>2, <2>1
    <2>3. QED
      BY <1>2, <2>2 DEF OwnRequest, SameCommand
  <1>3. ASSUME NEW d \in Callers, Phase(d) = "send",
               inbox'[i] = [req |-> call[d].req, cmd |-> call[d].cmd]
        PROVE  inbox'[i].cmd = call'[c].cmd
    <2>1. Active(d) /\ call[d].req \in 1..nreq
      BY <1>0, <1>3 DEF Active, SlotInv, Numbered
    <2>2. Active(c) /\ SameCommand(c)
      BY <1>0, <1>1, <1>3, <2>1
    <2>3. c = d
      BY <1>0, <1>3, <2>1, <2>2 DEF SameCommand, SlotInv, Numbered
    <2>4. QED
      BY <1>3, <2>2, <2>3 DEF SameCommand
  <1>4. QED
    BY <1>0, <1>2, <1>3, InboxStep

\* A command that takes nothing, while nothing is put in its way.
Unmoved(d) == call'[d] = call[d] /\ got'[d] = got[d]

LEMMA UnmovedFine ==
    ASSUME NEW d \in Callers, Unfinished(d), SentFine(d),
           Unmoved(d) \/ (~Sent(d)' /\ got'[d] = <<>>),
           rawQueue' = rawQueue, wire' = wire \/ wire' = <<>>
    PROVE  Unfinished(d)' /\ SentFine(d)'
  <1>1. Unfinished(d)'
    BY DEF Unfinished, Unmoved, Phase, Sent
  <1>2. ASSUME Sent(d)' PROVE AnswerFine(call'[d].req, call'[d].cmd, d \in RawCallers, got'[d], rawQueue', wire')
    <2>1. Unmoved(d) /\ Sent(d)
      BY <1>2 DEF Sent, Unmoved, Phase
    <2>2. QED
      BY <2>1 DEF Unmoved, SentFine, AnswerFine, FinalOnly, FromTheStart, OpensFirst
  <1>3. QED
    BY <1>1, <1>2 DEF SentFine

\* The holder leaves: no command is sent any more.
LEMMA LeaveFine ==
    ASSUME SlotInv, NEW c \in Callers, Phase(c) \in Holding, Leave(c),
           NEW d \in Callers, Unfinished(d)
    PROVE  Unfinished(d)' /\ SentFine(d)'
  <1>1. slot = c /\ call'[c] = Idle /\ got'[c] = <<>>
    BY DEF SlotInv, SlotDiscipline, TypeOK, Leave
  <1>2. d # c => Unmoved(d) /\ ~Sent(d)
    BY <1>1 DEF Unmoved, SlotInv, SlotDiscipline, TypeOK, Leave, Sent, Holding
  <1>3. ~Sent(d)'
    BY <1>1, <1>2 DEF Sent, Phase, Idle, Unmoved
  <1>4. Unfinished(d)'
    BY <1>1, <1>2, <1>3 DEF Unfinished, Unmoved, Phase, Sent
  <1>5. QED
    BY <1>3, <1>4 DEF SentFine

WholeFine == \A c \in Callers : Unfinished(c) /\ SentFine(c)

\* The command is sent: nothing of its answer is under way.
LEMMA SendWhole ==
    ASSUME WholeInv, NEW c \in Callers, Send(c)
    PROVE  WholeFine'
  <1>0. SlotInv /\ TypeOK /\ Phase(c) \in Holding /\ Phase(c) = "send" /\ slot = c /\ got[c] = <<>>
    BY DEF WholeInv, IInv, SlotInv, SlotDiscipline, PhaseData, Send, Holding
  <1>1. CASE Leave(c)
    BY <1>0, <1>1, LeaveFine DEF WholeInv, WholeFine
  <1>2. CASE ~Leave(c)
    <2>1. /\ call' = [call EXCEPT ![c].phase = "recv"] /\ UNCHANGED <<got, rawQueue, wire>>
          /\ call'[c].req = call[c].req /\ call'[c].phase = "recv"
      BY <1>0, <1>2 DEF Send, TypeOK, Call
    <2>2. ~Owed(call[c].req) /\ call[c].req # 0
      BY <1>0 DEF Owed, SlotInv, Numbered, Active
    <2>3. /\ \A i \in DOMAIN wire : wire[i].req # call[c].req
          /\ \A i \in DOMAIN rawQueue : rawQueue[i].req # call[c].req
      BY <2>2 DEF WholeInv, IInv, Pipeline, OwedWire, OwedQueue, PushTag
    <2>4. Unfinished(c)' /\ SentFine(c)'
      BY <1>0, <2>1, <2>3 DEF Unfinished, SentFine, AnswerFine, FinalOnly, FromTheStart, OpensFirst, Phase
    <2>5. ASSUME NEW d \in Callers, d # c PROVE Unfinished(d)' /\ SentFine(d)'
      <3>1. Unmoved(d) /\ Unfinished(d) /\ SentFine(d)
        BY <1>0, <2>1, <2>5 DEF Unmoved, TypeOK, WholeInv
      <3>2. QED
        BY <2>1, <3>1, UnmovedFine
    <2>6. QED
      BY <2>4, <2>5 DEF WholeFine
  <1>3. QED
    BY <1>1, <1>2

\* A frame taken from the raw queue.
LEMMA ReceiveWhole ==
    ASSUME WholeInv, NEW c \in Callers, RawReceive(c)
    PROVE  WholeFine'
  <1>0. /\ SlotInv /\ TypeOK /\ Phase(c) = "recv" /\ slot = c /\ c \in RawCallers
        /\ Unfinished(c) /\ SentFine(c)
    BY DEF WholeInv, IInv, SlotInv, SlotDiscipline, RawReceive, Holding
  <1>1. /\ got[c] \in Seq(Frame) /\ rawQueue \in Seq(RawFrame) /\ rawQueue # <<>>
        /\ rawQueue' = Tail(rawQueue) /\ wire' = wire
        /\ call' = [call EXCEPT ![c].phase = "took"] /\ call \in [Callers -> Call]
        /\ got' = [got EXCEPT ![c] = Append(got[c], Head(rawQueue))]
    BY <1>0 DEF TypeOK, RawReceive, Take, node
  <1>2. /\ call'[c].req = call[c].req /\ call'[c].cmd = call[c].cmd /\ call'[c].phase = "took"
        /\ got'[c] = Append(got[c], Head(rawQueue))
        /\ \A d \in Callers \ {c} : Unmoved(d)
    BY <1>0, <1>1 DEF Call, TypeOK, Unmoved
  <1>3. /\ Head(rawQueue) \in Frame /\ Head(rawQueue).code # "push"
    <2>1. Head(rawQueue) \in RawFrame
      BY <1>1, HeadElements
    <2>2. QED
      BY <2>1, Values DEF RawFrame
  <1>4. Unfinished(c)'
    <2>1. /\ \A i \in DOMAIN got'[c] :
                \/ i \in DOMAIN got[c] /\ got'[c][i] = got[c][i]
                \/ i = Len(got'[c]) /\ got'[c][i] = Head(rawQueue)
      BY <1>1, <1>2, <1>3, AppendElements, AppendProperties
    <2>2. c \notin LibCallers
      BY <1>0, CallersAssumption
    <2>3. \A i \in DOMAIN got[c] : got[c][i].code # "push" /\ ~Terminal(call[c].cmd, got[c][i].code)
      BY <1>0 DEF Unfinished
    <2>4. \A i \in DOMAIN got'[c] : got'[c][i].code # "push"
      BY <1>3, <2>1, <2>3
    <2>5. ASSUME NEW i \in DOMAIN got'[c], Terminal(call'[c].cmd, got'[c][i].code)
          PROVE  i = Len(got'[c])
      <3>1. Terminal(call[c].cmd, got'[c][i].code)
        BY <1>2, <2>5, Zenon
      <3>2. QED
        BY <2>1, <2>3, <3>1, Zenon
    <2>6. got'[c] # <<>>
      <3>1. Head(rawQueue) \in Frame /\ got[c] \in Seq(Frame)
        BY <1>1, <1>3
      <3>2. Append(got[c], Head(rawQueue)) # <<>>
        BY <3>1, AppendProperties, Zenon
      <3>3. QED
        BY <1>2, <3>2, Zenon
    <2>7. Phase(c)' = "took"
      BY <1>2 DEF Phase
    <2>8. QED
      BY <2>2, <2>4, <2>5, <2>6, <2>7, Zenon DEF Unfinished
  <1>5. SentFine(c)'
    <2>1. AnswerFine(call[c].req, call[c].cmd, c \in RawCallers, got[c], rawQueue, wire)
      BY <1>0 DEF SentFine, Sent
    <2>2. AnswerFine(call[c].req, call[c].cmd, c \in RawCallers, Append(got[c], Head(rawQueue)),
                     Tail(rawQueue), wire)
      <3>1. (c \in RawCallers) \in BOOLEAN
        OBVIOUS
      <3>2. QED
        BY <1>1, <2>1, <3>1, FineReceived
    <2>3. QED
      BY <1>1, <1>2, <2>2 DEF SentFine
  <1>6. ASSUME NEW d \in Callers, d # c PROVE Unfinished(d)' /\ SentFine(d)'
    <2>1. Unmoved(d) /\ ~Sent(d) /\ Unfinished(d)
      BY <1>0, <1>2, <1>6 DEF WholeInv, SlotInv, SlotDiscipline, Sent, Holding
    <2>2. QED
      BY <2>1 DEF Unmoved, Unfinished, SentFine, Sent, Phase
  <1>7. QED
    BY <1>4, <1>5, <1>6 DEF WholeFine

\* A frame from the wire: to the raw queue, to a library command, or to nobody.
LEMMA DispatchWhole ==
    ASSUME WholeInv, Dispatch
    PROVE  WholeFine'
  <1>0. /\ SlotInv /\ TypeOK /\ wire # <<>> /\ wire \in Seq(Frame) /\ rawQueue \in Seq(RawFrame)
        /\ wire' = Tail(wire)
    BY DEF WholeInv, IInv, SlotInv, TypeOK, Dispatch
  <1>1. PICK f \in Frame : f = Head(wire) /\ f = wire[1] /\ 1 \in DOMAIN wire
    BY <1>0, HeadElements
  <1>2. rawQueue \in Seq(Frame)
    BY <1>0, Values, SeqDef
  <1>3. ASSUME NEW d \in Callers, Sent(d), NEW g,
               AnswerFine(call[d].req, call[d].cmd, d \in RawCallers, g, rawQueue, wire)
        PROVE  AnswerFine(call[d].req, call[d].cmd, d \in RawCallers, g, rawQueue', wire')
    <2>0. slot = d /\ call[d].req # 0 /\ (d \in RawCallers) \in BOOLEAN
      BY <1>0, <1>3 DEF SlotInv, SlotDiscipline, Sent, Holding, Numbered, Active
    <2>1. CASE rawOpen /\ ForRaw(f)
      <3>1. rawQueue' = Append(rawQueue, Head(wire))
        BY <1>1, <2>1 DEF Dispatch
      <3>2. QED
        BY <1>0, <1>2, <1>3, <2>0, <3>1, FineQueued
    <2>2. CASE ~(rawOpen /\ ForRaw(f))
      <3>1. rawQueue' = rawQueue
        BY <1>1, <2>2 DEF Dispatch
      <3>2. d \in RawCallers => f.code = "push"
        BY <1>0, <2>0, <2>2 DEF SlotInv, SlotDiscipline, ForRaw
      <3>3. d \in RawCallers => Head(wire).req # call[d].req
        BY <1>1, <2>0, <3>2 DEF WholeInv, IInv, Pipeline, PushTag
      <3>4. QED
        BY <1>0, <1>3, <2>0, <3>1, <3>3, FineDropped
    <2>3. QED
      BY <2>1, <2>2
  <1>4. ASSUME NEW c \in LibCallers, Phase(c) = "recv", LibAccepts(call[c].cmd, f.code), Take(c, f)
        PROVE  WholeFine'
    <2>0. c \in Callers /\ c \notin RawCallers /\ slot = c /\ f.code \in Final
      BY <1>0, <1>4, CallersAssumption
         DEF Callers, SlotInv, SlotDiscipline, Holding, LibAccepts, Final
    <2>1. /\ got[c] \in Seq(Frame)
          /\ call'[c].req = call[c].req /\ call'[c].cmd = call[c].cmd /\ call'[c].phase = "took"
          /\ got'[c] = Append(got[c], f)
          /\ \A d \in Callers \ {c} : Unmoved(d)
      BY <1>0, <1>4, <2>0 DEF Call, TypeOK, Unmoved, Take
    <2>2. /\ \A i \in DOMAIN got'[c] :
                \/ i \in DOMAIN got[c] /\ got'[c][i] = got[c][i]
                \/ i = Len(got'[c]) /\ got'[c][i] = f
          /\ got'[c] # <<>>
      BY <2>1, AppendElements, AppendProperties
    <2>3. Unfinished(c)'
      <3>1. Unfinished(c)
        BY <2>0 DEF WholeInv
      <3>2. \A i \in DOMAIN got[c] : ~Terminal(call[c].cmd, got[c][i].code)
        BY <1>4, <3>1 DEF Unfinished
      <3>3. QED
        BY <2>0, <2>1, <2>2, <3>1, <3>2 DEF Unfinished, Phase
    <2>4. SentFine(c)'
      <3>1. AnswerFine(call[c].req, call[c].cmd, c \in RawCallers, got[c], rawQueue, wire)
        BY <1>4, <2>0 DEF WholeInv, SentFine, Sent
      <3>2. AnswerFine(call[c].req, call[c].cmd, c \in RawCallers, got[c], rawQueue', wire')
        BY <1>3, <1>4, <2>0, <3>1 DEF Sent
      <3>3. QED
        BY <2>0, <2>1, <2>2, <3>2 DEF SentFine, AnswerFine, FinalOnly
    <2>5. ASSUME NEW d \in Callers, d # c PROVE Unfinished(d)' /\ SentFine(d)'
      <3>1. Unmoved(d) /\ ~Sent(d) /\ Unfinished(d)
        BY <1>0, <2>0, <2>1, <2>5 DEF WholeInv, SlotInv, SlotDiscipline, Sent, Holding
      <3>2. QED
        BY <3>1 DEF Unmoved, Unfinished, SentFine, Sent, Phase
    <2>6. QED
      BY <2>3, <2>4, <2>5 DEF WholeFine
  <1>5. CASE UNCHANGED <<call, got>>
    <2>1. \A d \in Callers : Unfinished(d)'
      BY <1>5 DEF WholeInv, Unfinished, Phase
    <2>2. \A d \in Callers : SentFine(d)'
      BY <1>3, <1>5 DEF WholeInv, SentFine, Sent, Phase
    <2>3. QED
      BY <2>1, <2>2 DEF WholeFine
  <1>6. QED
    BY <1>1, <1>4, <1>5 DEF Dispatch

LEMMA WholeInit == Init => WholeInv
  <1> SUFFICES ASSUME Init PROVE WholeInv
    OBVIOUS
  <1>1. IInv
    BY AttributionInit
  <1>2. OwnRequest
    BY DEF Init, OwnRequest
  <1>3. \A c \in Callers : got[c] = <<>> /\ Phase(c) = "idle"
    BY DEF Init, Phase, Idle
  <1>4. QED
    BY <1>1, <1>2, <1>3 DEF WholeInv, Unfinished, SentFine, Sent

LEMMA WholeStep == WholeInv /\ [Next]_vars => WholeInv'
  <1> SUFFICES ASSUME WholeInv, [Next]_vars PROVE WholeInv'
    OBVIOUS
  <1>0. /\ IInv /\ OwnRequest /\ SlotInv /\ TypeOK
        /\ \A d \in Callers : Unfinished(d) /\ SentFine(d)
    BY DEF WholeInv, IInv, SlotInv
  <1> USE DEF link, node
  <1>1. ASSUME NEW c \in Callers, NEW cmd \in Commands, Submit(c, cmd)
        PROVE  WholeFine'
    <2> DEFINE r == [phase |-> "wait", cmd |-> cmd, req |-> nreq + 1, epoch |-> epoch]
    <2>0. /\ got' = got /\ wire' = wire /\ got[c] = <<>> /\ call \in [Callers -> Call]
          /\ \/ call' = [call EXCEPT ![c] = r]
             \/ call' = [call EXCEPT ![c] = [r EXCEPT !.phase = "send"]]
      BY <1>0, <1>1 DEF Submit, Enter, SlotInv, PhaseData, TypeOK, Phase
    <2>1. rawQueue' = rawQueue
      BY <1>0, <1>1, CallersAssumption DEF Submit, Enter, LockFree, SlotInv, SlotDiscipline, Callers
    <2>2. call'[c].phase \in {"wait", "send"}
      BY <2>0
    <2>3. \A d \in Callers : Unmoved(d) \/ (~Sent(d)' /\ got'[d] = <<>>)
      BY <2>0, <2>2 DEF Unmoved, Sent, Phase
    <2>4. QED
      BY <1>0, <2>0, <2>1, <2>3, UnmovedFine DEF WholeFine
  <1>2. ASSUME NEW c \in Callers, Acquire(c) PROVE WholeFine'
    <2>1. /\ got' = got /\ wire' = wire /\ got[c] = <<>> /\ call \in [Callers -> Call]
          /\ call' = [call EXCEPT ![c] = [call[c] EXCEPT !.phase = "send"]]
      BY <1>0, <1>2 DEF Acquire, Enter, SlotInv, PhaseData, TypeOK
    <2>2. rawQueue' = rawQueue
      BY <1>0, <1>2, CallersAssumption DEF Acquire, Enter, SlotInv, SlotDiscipline, Callers
    <2>3. \A d \in Callers : Unmoved(d) \/ (~Sent(d)' /\ got'[d] = <<>>)
      BY <2>1 DEF Unmoved, Sent, Phase, Call
    <2>4. QED
      BY <1>0, <2>1, <2>2, <2>3, UnmovedFine DEF WholeFine
  <1>3. ASSUME NEW c \in Callers, Send(c) PROVE WholeFine'
    BY <1>3, SendWhole
  <1>4. ASSUME NEW c \in Callers, Phase(c) \in Holding, Leave(c) PROVE WholeFine'
    BY <1>0, <1>4, LeaveFine DEF WholeFine
  <1>5. ASSUME NEW c \in Callers, SendFails(c) \/ StreamFails(c) \/ Timeout(c) PROVE WholeFine'
    BY <1>4, <1>5 DEF SendFails, StreamFails, Timeout, MayExpire, Holding
  <1>6. ASSUME NEW c \in Callers, RawReceive(c) PROVE WholeFine'
    BY <1>6, ReceiveWhole
  <1>7. ASSUME NEW c \in Callers, Taken(c) PROVE WholeFine'
    <2>1. CASE Leave(c)
      BY <1>4, <1>7, <2>1 DEF Taken, Holding
    <2>2. CASE ~Leave(c)
      <3>1. /\ call' = [call EXCEPT ![c].phase = "recv"] /\ Phase(c) = "took"
            /\ ~Terminal(call[c].cmd, Last(got[c]).code)
            /\ UNCHANGED <<rawQueue, got, wire>>
        BY <1>7, <2>2 DEF Taken
      <3>2. /\ call'[c].req = call[c].req /\ call'[c].cmd = call[c].cmd
            /\ \A d \in Callers \ {c} : Unmoved(d)
        BY <1>0, <3>1 DEF TypeOK, Call, Unmoved
      <3>3. Unfinished(c)'
        <4>1. Last(got[c]) = got[c][Len(got[c])]
          BY DEF Last
        <4>2. \A i \in DOMAIN got[c] : ~Terminal(call[c].cmd, got[c][i].code)
          BY <1>0, <3>1, <4>1 DEF Unfinished
        <4>3. QED
          BY <1>0, <3>1, <3>2, <4>2 DEF Unfinished
      <3>4. SentFine(c)'
        BY <1>0, <3>1, <3>2 DEF SentFine, Sent
      <3>5. ASSUME NEW d \in Callers, d # c PROVE Unfinished(d)' /\ SentFine(d)'
        BY <1>0, <3>1, <3>2, <3>5, UnmovedFine
      <3>6. QED
        BY <3>3, <3>4, <3>5 DEF WholeFine
    <2>3. QED
      BY <2>1, <2>2
  <1>8. ASSUME NEW c \in Callers, Cancel(c) PROVE WholeFine'
    <2>1. CASE Phase(c) \in Holding /\ Leave(c)
      BY <1>4, <2>1
    <2>2. CASE /\ Phase(c) = "wait" /\ call' = [call EXCEPT ![c] = Idle]
               /\ UNCHANGED <<slot, got, rawOpen, rawQueue, abandoned>>
      <3>1. wire' = wire /\ got[c] = <<>>
        BY <1>0, <1>8, <2>2 DEF Cancel, SlotInv, PhaseData
      <3>2. \A d \in Callers : Unmoved(d) \/ (~Sent(d)' /\ got'[d] = <<>>)
        BY <1>0, <2>2, <3>1 DEF Unmoved, Sent, Phase, Idle, TypeOK
      <3>3. QED
        BY <1>0, <2>2, <3>1, <3>2, UnmovedFine DEF WholeFine
    <2>3. QED
      BY <1>8, <2>1, <2>2 DEF Cancel
  <1>9. ASSUME Dispatch PROVE WholeFine'
    BY <1>9, DispatchWhole
  <1>10. ASSUME NodeAnswer PROVE WholeFine'
    <2>1. /\ inbox # <<>> /\ inbox \in Seq(Request) /\ wire \in Seq(Frame)
          /\ UNCHANGED <<call, got, rawQueue>>
      BY <1>0, <1>10 DEF NodeAnswer, TypeOK
    <2>2. PICK x \in Request : x = Head(inbox) /\ x = inbox[1] /\ 1 \in DOMAIN inbox
      BY <2>1, HeadElements
    <2>3. PICK a \in Answers(x) : wire' = wire \o a
      BY <1>10, <2>2 DEF NodeAnswer
    <2>4. ASSUME NEW d \in Callers, Sent(d)
          PROVE  AnswerFine(call[d].req, call[d].cmd, d \in RawCallers, got[d], rawQueue, wire')
      <3>1. x.req = call[d].req => x.cmd = call[d].cmd
        BY <1>0, <2>2, <2>4 DEF OwnRequest, Active, Sent
      <3>2. AnswerFine(call[d].req, call[d].cmd, d \in RawCallers, got[d], rawQueue, wire)
        BY <1>0, <2>4 DEF SentFine
      <3>3. (d \in RawCallers) \in BOOLEAN
        OBVIOUS
      <3>4. QED
        BY <2>1, <2>3, <3>1, <3>2, <3>3, FineAnswered
    <2>5. QED
      BY <1>0, <2>1, <2>4 DEF WholeFine, Unfinished, SentFine, Sent, Phase
  <1>11. ASSUME NodePush PROVE WholeFine'
    <2>1. PICK f \in Frame : f = [req |-> 0, code |-> "push"]
      BY DEF Frame, Codes
    <2>2. /\ wire \in Seq(Frame) /\ wire' = Append(wire, f) /\ f.req = 0
          /\ UNCHANGED <<call, got, rawQueue>>
      BY <1>0, <1>11, <2>1 DEF NodePush, TypeOK
    <2>3. ASSUME NEW d \in Callers, Sent(d)
          PROVE  AnswerFine(call[d].req, call[d].cmd, d \in RawCallers, got[d], rawQueue, wire')
      <3>1. f.req # call[d].req
        BY <1>0, <2>2, <2>3 DEF SlotInv, Numbered, Active, Sent
      <3>2. AnswerFine(call[d].req, call[d].cmd, d \in RawCallers, got[d], rawQueue, wire)
        BY <1>0, <2>3 DEF SentFine
      <3>3. (d \in RawCallers) \in BOOLEAN
        OBVIOUS
      <3>4. QED
        BY <2>2, <3>1, <3>2, <3>3, FinePushed
    <2>4. QED
      BY <1>0, <2>2, <2>3 DEF WholeFine, Unfinished, SentFine, Sent, Phase
  <1>12. ASSUME LinkDrop \/ ConnLost \/ Reconnect \/ UNCHANGED vars PROVE WholeFine'
    <2>1. /\ UNCHANGED <<call, got, rawQueue>>
          /\ wire' = wire \/ wire' = <<>>
      BY <1>12 DEF LinkDrop, ConnLost, LoseTraffic, Reconnect, vars
    <2>2. QED
      BY <1>0, <2>1, UnmovedFine DEF WholeFine, Unmoved
  <1>13. WholeFine'
    BY <1>1, <1>2, <1>3, <1>5, <1>6, <1>7, <1>8, <1>9, <1>10, <1>11, <1>12
       DEF Next, CallerStep
  <1>14. IInv' /\ OwnRequest'
    BY <1>0, AttributionStep, OwnRequestStep
  <1>15. QED
    BY <1>13, <1>14 DEF WholeInv, WholeFine

\* The frame that ends a command ends an answer: its own, if nobody gave up.
LEMMA EndsAnswered ==
    ASSUME WholeInv, NEW c \in Callers, Phase(c) = "took", abandoned = {},
           Terminal(call[c].cmd, Last(got[c]).code)
    PROVE  Answered(c)
  <1>0. /\ Unfinished(c) /\ SentFine(c) /\ got[c] \in Seq(Frame) /\ call[c].cmd \in {"contacts", "set"}
        /\ got[c] # <<>>
    BY DEF WholeInv, IInv, SlotInv, TypeOK, PhaseData, Call, Commands, Unfinished
  <1>1. PICK n \in DOMAIN got[c] : Last(got[c]) = got[c][n]
    <2>1. Len(got[c]) \in DOMAIN got[c]
      BY <1>0, EmptySeq, LenProperties
    <2>2. QED
      BY <2>1 DEF Last
  <1>2. got[c][n] \in Frame /\ got[c][n].req = call[c].req
    BY <1>0, <1>1, LenProperties, ElementOfSeq DEF WholeInv, IInv, StrayOnlyAfterAbandon
  <1>3. got[c][n].code \in Final
    <2>1. CASE c \in LibCallers
      BY <1>0, <2>1 DEF Unfinished
    <2>2. CASE c \in RawCallers /\ call[c].cmd = "contacts"
      BY <1>0, <1>1, <1>2, <2>2 DEF Unfinished, Terminal, Frame, Codes, Final
    <2>3. CASE c \in RawCallers /\ call[c].cmd = "set"
      <3>1. FinalOnly(call[c].req, got[c])
        BY <1>0, <2>3 DEF SentFine, Sent, AnswerFine
      <3>2. QED
        BY <1>2, <3>1 DEF FinalOnly
    <2>4. QED
      BY <1>0, <2>1, <2>2, <2>3 DEF Callers
  <1>4. QED
    BY <1>2, <1>3 DEF Answered

\* What ends an answer ends the command: nobody has a whole answer and still waits.
LEMMA AnsweredIsOver ==
    ASSUME WholeInv, NEW c \in Callers, Answered(c)
    PROVE  Phase(c) = "took"
  <1>1. PICK i \in DOMAIN got[c] : got[c][i].code \in Final
    BY DEF Answered
  <1>2. Terminal(call[c].cmd, got[c][i].code)
    BY <1>1 DEF Terminal, Final
  <1>3. QED
    BY <1>2 DEF WholeInv, Unfinished

\* As long as no request was given up, a command that returns has taken its whole
\* answer (_is_terminal does not stop short of the end of a contact list), and at no
\* time does one that has it wait for more (nor behind the end).
THEOREM WholeAnswers == Spec => ReturnsWholeAnswer
  <1> DEFINE Step == \A c \in Callers : /\ Taken(c) /\ abandoned = {} => abandoned' = {}
                                        /\ Answered(c) => Phase(c) # "recv"
  <1>1. WholeInv => Step
    <2> SUFFICES ASSUME WholeInv, NEW c \in Callers
                 PROVE  /\ Taken(c) /\ abandoned = {} => abandoned' = {}
                        /\ Answered(c) => Phase(c) # "recv"
      OBVIOUS
    <2>1. ASSUME Taken(c), abandoned = {} PROVE abandoned' = {}
      <3>1. CASE Terminal(call[c].cmd, Last(got[c]).code)
        BY <2>1, <3>1, EndsAnswered DEF Taken, Leave
      <3>2. CASE ~Terminal(call[c].cmd, Last(got[c]).code)
        BY <2>1, <3>2 DEF Taken
      <3>3. QED
        BY <3>1, <3>2
    <2>2. Answered(c) => Phase(c) # "recv"
      BY AnsweredIsOver
    <2>3. QED
      BY <2>1, <2>2
  <1>2. WholeInv /\ [Next]_vars => [Step]_vars
    BY <1>1
  <1>3. QED
    BY WholeInit, WholeStep, <1>2, PTL DEF Spec, ReturnsWholeAnswer

-----------------------------------------------------------------------------
(* CommandSlot implements TicketLock: each step of the slot is a step of    *)
(* the lock, or leaves it alone.                                            *)

\* The ticket of the lock that the slot stands for.
TicketOf == [c \in Callers |-> IF Phase(c) = "wait" THEN call[c].req ELSE 0]

\* Who waits in the slot holds a ticket of the lock, and nobody else.
LEMMA QueuedIsWaiting ==
    ASSUME SlotInv
    PROVE  /\ Lock!Queued = Waiting
           /\ \A c \in Callers :
                TicketOf[c] = IF Phase(c) = "wait" THEN call[c].req ELSE 0
  BY DEF SlotInv, Numbered, Active, TypeOK, TicketOf, Waiting, Phase, Lock!Queued

\* A step that neither ends a wait nor begins one leaves the tickets alone.
LEMMA TicketsKept ==
    ASSUME \A c \in Callers : /\ Phase(c) = "wait" <=> Phase(c)' = "wait"
                              /\ Phase(c) = "wait" => call'[c].req = call[c].req
    PROVE  TicketOf' = TicketOf
  BY DEF TicketOf, Phase

\* The holder leaves: the lock is given back, the tickets stay.
LEMMA LeaveGivesBack ==
    ASSUME SlotInv, NEW c \in Callers, Phase(c) \in Holding, Leave(c)
    PROVE  Lock!LockNext
  <1>1. slot = c /\ slot' = NoOne
    BY DEF SlotInv, SlotDiscipline, Leave, Release
  <1>2. TicketOf' = TicketOf
    <2>1. call' = [call EXCEPT ![c] = Idle] /\ call \in [Callers -> Call]
      BY DEF Leave, SlotInv, TypeOK
    <2>2. QED
      BY <2>1, TicketsKept DEF Phase, Idle, Holding
  <1>3. Lock!GiveBack(c)
    BY <1>1, <1>2 DEF Lock!GiveBack, TicketOf
  <1>4. QED
    BY <1>3 DEF Lock!LockNext

\* Steps of the holder that keep it in the slot, and steps of others than callers.
LEMMA HolderStays ==
    ASSUME SlotInv, UNCHANGED slot,
           \/ UNCHANGED call
           \/ \E c \in Callers, p \in Holding :
                 Phase(c) \in Holding /\ call' = [call EXCEPT ![c].phase = p]
    PROVE  UNCHANGED <<TicketOf, slot>>
  <1>1. CASE UNCHANGED call
    BY <1>1, TicketsKept DEF Phase
  <1>2. ASSUME NEW c \in Callers, NEW p \in Holding, Phase(c) \in Holding,
               call' = [call EXCEPT ![c].phase = p]
        PROVE  TicketOf' = TicketOf
    <2>1. call \in [Callers -> Call]
      BY DEF SlotInv, TypeOK
    <2>2. QED
      BY <1>2, <2>1, TicketsKept DEF Phase, Holding, Call
  <1>3. QED
    BY <1>1, <1>2

LEMMA SubmitRefines ==
    ASSUME SlotInv, NEW c \in Callers, NEW cmd \in Commands, Submit(c, cmd)
    PROVE  Lock!LockNext
  <1> DEFINE r == [phase |-> "wait", cmd |-> cmd, req |-> nreq + 1, epoch |-> epoch]
  <1>1. /\ call \in [Callers -> Call] /\ nreq \in Nat /\ Phase(c) = "idle"
        /\ r.phase = "wait" /\ r.req = nreq + 1
    BY DEF Submit, SlotInv, TypeOK
  <1>2. CASE LockFree /\ Enter(c, r)
    <2>1. call' = [call EXCEPT ![c] = [r EXCEPT !.phase = "send"]] /\ slot' = c
      BY <1>2 DEF Enter
    <2>2. TicketOf' = TicketOf
      BY <1>1, <2>1, TicketsKept DEF Phase
    <2>3. Lock!EnterAtOnce(c)
      BY <1>2, <2>1, <2>2, QueuedIsWaiting DEF LockFree, Lock!EnterAtOnce, TicketOf
    <2>4. QED
      BY <2>3 DEF Lock!LockNext
  <1>3. CASE ~LockFree /\ call' = [call EXCEPT ![c] = r] /\ UNCHANGED slot
    <2>1. /\ TicketOf' = [TicketOf EXCEPT ![c] = nreq + 1]
          /\ TicketOf'[c] = nreq + 1 /\ TicketOf[c] = 0
      BY <1>1, <1>3 DEF TicketOf, Phase
    <2>2. c # slot
      BY <1>1 DEF SlotInv, SlotDiscipline, Holding
    <2>3. \A w \in Waiting : TicketOf[w] < nreq + 1
      BY <1>1, QueuedIsWaiting DEF SlotInv, Numbered, Active, Waiting
    <2>4. Lock!TakeTicket(c)
      <3>1. TicketOf'[c] \in Nat \ {0}
        BY <1>1, <2>1
      <3>2. \A w \in Lock!Queued : TicketOf[w] < TicketOf'[c]
        BY <2>1, <2>3, QueuedIsWaiting
      <3>3. TicketOf' = [TicketOf EXCEPT ![c] = TicketOf'[c]]
        BY <2>1
      <3>4. QED
        BY <1>3, <2>1, <2>2, <3>1, <3>2, <3>3 DEF Lock!TakeTicket, TicketOf
    <2>5. QED
      BY <2>4 DEF Lock!LockNext
  <1>4. QED
    BY <1>2, <1>3 DEF Submit

LEMMA AcquireRefines ==
    ASSUME SlotInv, NEW c \in Callers, Acquire(c)
    PROVE  Lock!LockNext
  <1>1. /\ call \in [Callers -> Call] /\ c \in Waiting
        /\ call' = [call EXCEPT ![c] = [call[c] EXCEPT !.phase = "send"]]
        /\ slot = NoOne /\ slot' = c
    BY DEF Acquire, Enter, SlotInv, TypeOK, Waiting
  <1>2. TicketOf' = [TicketOf EXCEPT ![c] = 0]
    BY <1>1 DEF TicketOf, Phase, Call
  <1>3. \A w \in Waiting : TicketOf[c] <= TicketOf[w]
    BY <1>1, QueuedIsWaiting DEF Acquire, First, Waiting
  <1>4. Lock!Serve(c)
    BY <1>1, <1>2, <1>3, QueuedIsWaiting DEF Lock!Serve, TicketOf
  <1>5. QED
    BY <1>4 DEF Lock!LockNext

\* A cancelled waiter withdraws its ticket.
LEMMA CancelRefines ==
    ASSUME SlotInv, NEW c \in Callers, Cancel(c)
    PROVE  Lock!LockNext
  <1>1. CASE Phase(c) \in Holding /\ Leave(c)
    BY <1>1, LeaveGivesBack
  <1>2. CASE Phase(c) = "wait" /\ call' = [call EXCEPT ![c] = Idle] /\ UNCHANGED slot
    <2>1. call \in [Callers -> Call]
      BY DEF SlotInv, TypeOK
    <2>2. TicketOf' = [TicketOf EXCEPT ![c] = 0]
      BY <1>2, <2>1 DEF TicketOf, Phase, Idle
    <2>3. c \in Lock!Queued
      BY <1>2, QueuedIsWaiting DEF Waiting
    <2>4. Lock!Withdraw(c)
      BY <1>2, <2>2, <2>3 DEF Lock!Withdraw, TicketOf
    <2>5. QED
      BY <2>4 DEF Lock!LockNext
  <1>3. QED
    BY <1>1, <1>2 DEF Cancel

LEMMA StepRefines == SlotInv /\ [Next]_vars => [Lock!LockNext]_<<TicketOf, slot>>
  <1> SUFFICES ASSUME SlotInv, [Next]_vars
               PROVE  Lock!LockNext \/ UNCHANGED <<TicketOf, slot>>
    OBVIOUS
  <1> USE DEF link, node
  <1>1. ASSUME NEW c \in Callers, NEW cmd \in Commands, Submit(c, cmd)
        PROVE  Lock!LockNext
    BY <1>1, SubmitRefines
  <1>2. ASSUME NEW c \in Callers, Acquire(c) PROVE Lock!LockNext
    BY <1>2, AcquireRefines
  <1>3. ASSUME NEW c \in Callers, Send(c)
        PROVE  Lock!LockNext \/ UNCHANGED <<TicketOf, slot>>
    <2>1. CASE Leave(c)
      BY <1>3, <2>1, LeaveGivesBack DEF Send, Holding
    <2>2. CASE call' = [call EXCEPT ![c].phase = "recv"] /\ UNCHANGED slot
      BY <1>3, <2>2, HolderStays DEF Send, Holding
    <2>3. QED
      BY <1>3, <2>1, <2>2 DEF Send
  <1>4. ASSUME NEW c \in Callers, SendFails(c) \/ StreamFails(c) \/ Timeout(c)
        PROVE  Lock!LockNext
    BY <1>4, LeaveGivesBack DEF SendFails, StreamFails, Timeout, MayExpire, Holding
  <1>5. ASSUME NEW c \in Callers, RawReceive(c)
        PROVE  UNCHANGED <<TicketOf, slot>>
    BY <1>5, HolderStays DEF RawReceive, Take, Holding
  <1>6. ASSUME NEW c \in Callers, Taken(c)
        PROVE  Lock!LockNext \/ UNCHANGED <<TicketOf, slot>>
    <2>1. CASE Leave(c)
      BY <1>6, <2>1, LeaveGivesBack DEF Taken, Holding
    <2>2. CASE call' = [call EXCEPT ![c].phase = "recv"] /\ UNCHANGED slot
      BY <1>6, <2>2, HolderStays DEF Taken, Holding
    <2>3. QED
      BY <1>6, <2>1, <2>2 DEF Taken
  <1>7. ASSUME NEW c \in Callers, Cancel(c) PROVE Lock!LockNext
    BY <1>7, CancelRefines
  <1>8. ASSUME Dispatch PROVE UNCHANGED <<TicketOf, slot>>
    <2>1. UNCHANGED slot
      BY <1>8 DEF Dispatch
    <2>2. \/ UNCHANGED call
          \/ \E c \in LibCallers : /\ Phase(c) = "recv"
                                   /\ call' = [call EXCEPT ![c].phase = "took"]
      BY <1>8 DEF Dispatch, Take
    <2>3. QED
      BY <2>1, <2>2, HolderStays DEF Holding, Callers
  <1>9. ASSUME NodeAnswer \/ NodePush \/ LinkDrop \/ ConnLost \/ Reconnect
        PROVE  UNCHANGED <<TicketOf, slot>>
    BY <1>9, HolderStays DEF NodeAnswer, NodePush, LinkDrop, ConnLost, Reconnect
  <1>10. ASSUME UNCHANGED vars PROVE UNCHANGED <<TicketOf, slot>>
    BY <1>10, HolderStays DEF vars
  <1>11. QED
    BY <1>1, <1>2, <1>3, <1>4, <1>5, <1>6, <1>7, <1>8, <1>9, <1>10
       DEF Next, CallerStep

\* The command slot is a lock that serves its callers in the order they asked,
\* for any callers, and whatever is cancelled, times out or fails.
THEOREM SlotIsTicketLock == Spec => ImplementsTicketLock
  <1>1. Init => Lock!LockInit
    BY DEF Init, Lock!LockInit, Phase, Idle
  <1>2. SlotInv /\ [Next]_vars => [Lock!LockNext]_(Lock!lockVars)
    BY StepRefines DEF Lock!lockVars, TicketOf
  <1>3. QED
    BY SlotInit, SlotStep, <1>1, <1>2, PTL DEF Spec, ImplementsTicketLock, Lock!LockSpec
=============================================================================
