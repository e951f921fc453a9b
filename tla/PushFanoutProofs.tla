-------------------------- MODULE PushFanoutProofs --------------------------
(***************************************************************************)
(* Proofs that a broadcast is complete, that broadcasts keep the order of  *)
(* the frames, and that the fan-out implements the mailboxes of PushMail,  *)
(* for any clients, frames, overlap and size of buffers.                   *)
(***************************************************************************)
EXTENDS PushFanout, FiniteSetTheorems, SequenceTheorems, TLAPS

Places == {"new", "loop", "lock", "write", "drain", "done"}
CallSet == [kind : Kinds, at : Places, todo : Seq(Clients), audience : SUBSET Clients]

\* No element occurs twice.
Once(s) == \A i, j \in DOMAIN s : s[i] = s[j] => i = j

FanTypeOK ==
  /\ clients \in Seq(Clients) /\ Once(clients) /\ IsFiniteSet(ToSet(clients))
  /\ calls \in Seq(CallSet)
  /\ got \in [Clients -> Seq(Nat)]

Given(f, c) == f \in ToSet(got[c])
Ahead(f) == ToSet(calls[f].todo)

\* What the place of a call says about the clients it still has to serve.
CallFine(f) ==
  /\ Once(calls[f].todo) /\ Ahead(f) \subseteq calls[f].audience
  /\ At(f) = "new" => calls[f].audience = {}
  /\ At(f) = "done" => calls[f].todo = <<>>
  /\ At(f) \in {"lock", "write", "drain"} => calls[f].todo # <<>>
  /\ At(f) = "drain" => Given(f, Next1(f))

\* A client of the audience has the frame, or it is still ahead of the loop; both only
\* while the loop waits for that client.
SentFine(f, c) ==
  /\ Given(f, c) => c \in calls[f].audience
  /\ Given(f, c) /\ c \in Ahead(f) => At(f) = "drain" /\ c = Next1(f)
  /\ c \in calls[f].audience \ dead => c \in Ahead(f) \/ Given(f, c)

FanInv ==
  /\ FanTypeOK
  /\ \A c \in Clients : Once(got[c]) /\ ToSet(got[c]) \subseteq DOMAIN calls
  /\ \A f \in DOMAIN calls : CallFine(f) /\ \A c \in Clients : SentFine(f, c)

-----------------------------------------------------------------------------
(* Sequences without repetitions.                                          *)

\* The head is gone from the tail, and nothing else is.
LEMMA TailOnce ==
  ASSUME NEW S, NEW s \in Seq(S), s # <<>>, Once(s)
  PROVE  /\ Tail(s) \in Seq(S) /\ Once(Tail(s))
         /\ ToSet(Tail(s)) = ToSet(s) \ {Head(s)} /\ Head(s) \in ToSet(s) /\ Head(s) \in S
  <1>1. /\ Len(s) \in Nat /\ Len(s) >= 1 /\ DOMAIN s = 1..Len(s) /\ Head(s) = s[1]
        /\ Tail(s) \in Seq(S) /\ DOMAIN Tail(s) = 1..(Len(s) - 1)
        /\ \A i \in 1..(Len(s) - 1) : Tail(s)[i] = s[i + 1]
    BY HeadTailProperties, LenProperties
  <1>2. Once(Tail(s))
    BY <1>1 DEF Once
  <1>3. ASSUME NEW x \in ToSet(Tail(s)) PROVE x \in ToSet(s) \ {Head(s)}
    BY <1>1, <1>3 DEF ToSet, Once
  <1>4. ASSUME NEW x \in ToSet(s) \ {Head(s)} PROVE x \in ToSet(Tail(s))
    <2>1. PICK i \in 1..Len(s) : s[i] = x
      BY <1>1, <1>4 DEF ToSet
    <2>2. i - 1 \in 1..(Len(s) - 1) /\ Tail(s)[i - 1] = x
      BY <1>1, <1>4, <2>1
    <2>3. QED
      BY <1>1, <2>2 DEF ToSet
  <1>5. Head(s) \in ToSet(s) /\ Head(s) \in S
    BY <1>1 DEF ToSet
  <1>6. QED
    BY <1>1, <1>2, <1>3, <1>4, <1>5

\* A new element at the end.
LEMMA AppendOnce ==
  ASSUME NEW S, NEW s \in Seq(S), NEW x \in S, Once(s), x \notin ToSet(s)
  PROVE  Append(s, x) \in Seq(S) /\ Once(Append(s, x)) /\ ToSet(Append(s, x)) = ToSet(s) \cup {x}
  <1>1. /\ Len(s) \in Nat /\ DOMAIN s = 1..Len(s)
        /\ Append(s, x) \in Seq(S) /\ DOMAIN Append(s, x) = 1..(Len(s) + 1)
        /\ \A i \in 1..Len(s) : Append(s, x)[i] = s[i]
        /\ Append(s, x)[Len(s) + 1] = x
    BY AppendProperties, LenProperties
  <1>2. \A i \in 1..Len(s) : s[i] # x
    BY <1>1 DEF ToSet
  <1>3. Once(Append(s, x))
    BY <1>1, <1>2 DEF Once
  <1>4. ASSUME NEW y \in ToSet(Append(s, x)) PROVE y \in ToSet(s) \cup {x}
    <2>1. PICK i \in 1..(Len(s) + 1) : Append(s, x)[i] = y
      BY <1>1, <1>4 DEF ToSet
    <2>2. CASE i = Len(s) + 1
      BY <1>1, <2>1, <2>2
    <2>3. CASE i # Len(s) + 1
      <3>1. i \in 1..Len(s) /\ s[i] = y
        BY <1>1, <2>1, <2>3
      <3>2. QED
        BY <1>1, <3>1 DEF ToSet
    <2>4. QED
      BY <2>2, <2>3
  <1>5. ASSUME NEW y \in ToSet(s) \cup {x} PROVE y \in ToSet(Append(s, x))
    <2>1. CASE y = x
      BY <1>1, <2>1 DEF ToSet
    <2>2. CASE y \in ToSet(s)
      <3>1. PICK i \in 1..Len(s) : s[i] = y
        BY <1>1, <2>2 DEF ToSet
      <3>2. i \in DOMAIN Append(s, x) /\ Append(s, x)[i] = y
        BY <1>1, <3>1
      <3>3. QED
        BY <3>2 DEF ToSet
    <2>3. QED
      BY <1>5, <2>1, <2>2
  <1>6. QED
    BY <1>1, <1>3, <1>4, <1>5

\* The elements of a sequence of clients are clients.
LEMMA ToSetType == ASSUME NEW S, NEW s \in Seq(S) PROVE ToSet(s) \subseteq S
  BY DEF ToSet

-----------------------------------------------------------------------------
LEMMA FanInitInv == FanoutInit => FanInv
  <1> SUFFICES ASSUME FanoutInit PROVE FanInv
    OBVIOUS
  <1>1. /\ clients = <<>> /\ calls = <<>> /\ got = [c \in Clients |-> <<>>]
        /\ DOMAIN calls = {}
    BY DEF FanoutInit
  <1>2. FanTypeOK
    <2>1. ToSet(clients) = {} /\ Once(clients)
      BY <1>1 DEF ToSet, Once
    <2>2. QED
      BY <1>1, <2>1, FS_EmptySet DEF FanTypeOK
  <1>3. \A c \in Clients : Once(got[c]) /\ ToSet(got[c]) \subseteq DOMAIN calls
    BY <1>1 DEF Once, ToSet
  <1>4. QED
    BY <1>1, <1>2, <1>3 DEF FanInv

\* The client set changes: it stays finite and without repetitions.
LEMMA ClientsStay ==
  ASSUME FanTypeOK, NEW c \in Clients, Connects(c) \/ Leaves(c)
  PROVE  clients' \in Seq(Clients) /\ Once(clients') /\ IsFiniteSet(ToSet(clients'))
  <1>1. /\ clients \in Seq(Clients) /\ Once(clients) /\ IsFiniteSet(ToSet(clients))
        /\ ToSet(clients) \subseteq Clients
    BY ToSetType DEF FanTypeOK
  <1>2. CASE Connects(c)
    <2> DEFINE all == ToSet(clients) \cup {c}
               n == Cardinality(all)
    <2>1. IsFiniteSet(all) /\ n \in Nat /\ all \subseteq Clients
      BY <1>1, FS_AddElement, FS_CardinalityType
    <2>2. clients' \in [1..n -> all] /\ \A i, j \in 1..n : i # j => clients'[i] # clients'[j]
      BY <1>2 DEF Connects, SetToSeqs
    <2> HIDE DEF all, n
    <2>3. clients' \in Seq(all) /\ clients' \in Seq(Clients) /\ Once(clients')
      BY <2>1, <2>2 DEF Once
    <2>4. ToSet(clients') \subseteq all
      BY <2>3, ToSetType
    <2>5. QED
      BY <2>1, <2>3, <2>4, FS_Subset
  <1>3. CASE Leaves(c)
    <2>1. PICK i \in DOMAIN clients : clients' = RemoveAt(clients, i)
      BY <1>3 DEF Leaves
    <2> DEFINE n == Len(clients)
               front == SubSeq(clients, 1, i - 1)
               back == SubSeq(clients, i + 1, n)
    <2>2. n \in Nat /\ i \in 1..n /\ DOMAIN clients = 1..n
      BY <1>1, LenProperties
    <2>3. /\ front \in Seq(Clients) /\ Len(front) = i - 1
          /\ \A k \in 1..(i - 1) : front[k] = clients[k]
      BY <1>1, <2>2
    <2>4. /\ back \in Seq(Clients) /\ Len(back) = n - i
          /\ \A k \in 1..(n - i) : back[k] = clients[i + k]
      BY <1>1, <2>2
    <2>5. clients' = front \o back
      BY <2>1 DEF RemoveAt
    <2> HIDE DEF n, front, back
    <2>6. /\ clients' \in Seq(Clients) /\ Len(clients') = n - 1
          /\ \A k \in 1..(n - 1) :
                clients'[k] = IF k <= i - 1 THEN front[k] ELSE back[k - (i - 1)]
      <3>1. Len(front) + Len(back) = n - 1
        BY <2>2, <2>3, <2>4
      <3>2. /\ front \o back \in Seq(Clients) /\ Len(front \o back) = Len(front) + Len(back)
            /\ \A k \in 1..(Len(front) + Len(back)) :
                  (front \o back)[k] = IF k <= Len(front) THEN front[k] ELSE back[k - Len(front)]
        BY <2>3, <2>4, ConcatProperties
      <3>3. QED
        BY <2>3, <2>5, <3>1, <3>2
    <2>7. \A k \in 1..(n - 1) : clients'[k] = IF k < i THEN clients[k] ELSE clients[k + 1]
      <3>1. TAKE k \in 1..(n - 1)
      <3>2. CASE k < i
        BY <2>2, <2>3, <2>6, <3>2
      <3>3. CASE ~(k < i)
        <4>1. k - (i - 1) \in 1..(n - i) /\ i + (k - (i - 1)) = k + 1
          BY <2>2, <3>3
        <4>2. QED
          BY <2>2, <2>4, <2>6, <3>3, <4>1
      <3>4. QED
        BY <3>2, <3>3
    <2>8. DOMAIN clients' = 1..(n - 1)
      BY <2>6, LenProperties
    <2>9. Once(clients')
      <3>1. ASSUME NEW j \in 1..(n - 1), NEW k \in 1..(n - 1), clients'[j] = clients'[k]
            PROVE  j = k
        <4> DEFINE J == IF j < i THEN j ELSE j + 1
                   K == IF k < i THEN k ELSE k + 1
        <4>1. J \in 1..n /\ K \in 1..n
          BY <2>2
        <4>2. clients[J] = clients[K]
          BY <2>7, <3>1
        <4>3. J = K
          BY <1>1, <2>2, <4>1, <4>2 DEF Once
        <4>4. QED
          BY <2>2, <4>3
      <3>2. QED
        BY <2>8, <3>1 DEF Once
    <2>10. ToSet(clients') \subseteq ToSet(clients)
      BY <2>2, <2>7, <2>8 DEF ToSet
    <2>11. QED
      BY <1>1, <2>6, <2>9, <2>10, FS_Subset
  <1>4. QED
    BY <1>2, <1>3

\* Steps of the clients: calls and what was written stay; more clients may be dead.
LEMMA ClientStep ==
  ASSUME FanInv, UNCHANGED <<calls, got>>, dead \subseteq dead',
         clients' \in Seq(Clients), Once(clients'), IsFiniteSet(ToSet(clients'))
  PROVE  FanInv'
  <1>1. FanTypeOK'
    BY DEF FanInv, FanTypeOK, Once, ToSet
  <1>2. ASSUME NEW f \in DOMAIN calls PROVE CallFine(f)'
    BY DEF FanInv, CallFine, Ahead, At, Next1, Given, Once
  <1>3. ASSUME NEW f \in DOMAIN calls, NEW c \in Clients PROVE SentFine(f, c)'
    BY DEF FanInv, SentFine, Ahead, At, Next1, Given
  <1>4. QED
    BY <1>1, <1>2, <1>3 DEF FanInv, Once

LEMMA EmitStep == ASSUME FanInv, NEW kind \in Kinds, NodeEmits(kind) PROVE FanInv'
  <1> DEFINE r == [kind |-> kind, at |-> "new", todo |-> <<>>, audience |-> {}]
  <1>1. /\ calls \in Seq(CallSet) /\ r \in CallSet /\ calls' = Append(calls, r)
        /\ UNCHANGED <<clients, dead, got>>
    BY DEF FanInv, FanTypeOK, NodeEmits, CallSet, Places, peers
  <1> PICK n \in Nat : n = Len(calls)
    BY <1>1, LenProperties
  <1>2. /\ DOMAIN calls = 1..n /\ DOMAIN calls' = 1..(n + 1)
        /\ calls' \in Seq(CallSet) /\ calls'[n + 1] = r
        /\ \A f \in 1..n : calls'[f] = calls[f]
    BY <1>1, AppendProperties, LenProperties
  <1>3. FanTypeOK'
    BY <1>1, <1>2 DEF FanInv, FanTypeOK, Once
  <1>4. ASSUME NEW f \in DOMAIN calls PROVE CallFine(f)' /\ \A c \in Clients : SentFine(f, c)'
    BY <1>1, <1>2 DEF FanInv, CallFine, SentFine, Ahead, At, Next1, Given, Once
  <1>5. CallFine(n + 1)' /\ \A c \in Clients : SentFine(n + 1, c)'
    <2>1. \A c \in Clients : n + 1 \notin ToSet(got'[c])
      BY <1>1, <1>2 DEF FanInv
    <2>2. /\ r.at = "new" /\ r.todo = <<>> /\ r.audience = {}
          /\ ToSet(r.todo) = {} /\ Once(r.todo)
      BY DEF ToSet, Once
    <2> HIDE DEF r
    <2>3. calls'[n + 1].at = "new" /\ calls'[n + 1].todo = <<>> /\ calls'[n + 1].audience = {}
      BY <1>2, <2>2
    <2>4. Ahead(n + 1)' = {} /\ Once(calls'[n + 1].todo) /\ At(n + 1)' = "new"
      BY <2>3 DEF Ahead, At, ToSet, Once
    <2>5. CallFine(n + 1)'
      BY <2>3, <2>4 DEF CallFine, Once
    <2>6. \A c \in Clients : SentFine(n + 1, c)'
      BY <2>1, <2>3, <2>4 DEF SentFine, Given
    <2>7. QED
      BY <2>5, <2>6
  <1>6. \A c \in Clients : Once(got[c])' /\ ToSet(got'[c]) \subseteq DOMAIN calls'
    BY <1>1, <1>2 DEF FanInv, Once
  <1>7. ASSUME NEW f \in DOMAIN calls' PROVE CallFine(f)' /\ \A c \in Clients : SentFine(f, c)'
    <2>1. f = n + 1 \/ f \in DOMAIN calls
      BY <1>2, <1>7
    <2>2. CASE f = n + 1
      BY <1>5, <2>2
    <2>3. CASE f \in DOMAIN calls
      BY <1>4, <2>3
    <2>4. QED
      BY <2>1, <2>2, <2>3
  <1>8. QED
    BY <1>3, <1>6, <1>7 DEF FanInv

-----------------------------------------------------------------------------
(* Steps of one call.                                                      *)

\* What is in a call.
LEMMA CallType ==
  ASSUME calls \in Seq(CallSet), NEW f \in DOMAIN calls
  PROVE  /\ calls[f] \in CallSet /\ calls[f].todo \in Seq(Clients)
         /\ calls[f].audience \in SUBSET Clients
  <1>1. calls[f] \in CallSet
    OBVIOUS
  <1>2. QED
    BY <1>1 DEF CallSet

\* The other calls are as they were.
LEMMA OneCall ==
  ASSUME FanInv, NEW f \in DOMAIN calls, UNCHANGED <<clients, dead>>,
         calls' \in Seq(CallSet), DOMAIN calls' = DOMAIN calls,
         \A g \in DOMAIN calls : g # f => calls'[g] = calls[g],
         got' \in [Clients -> Seq(Nat)],
         \A c \in Clients : Once(got'[c]) /\ ToSet(got'[c]) \subseteq ToSet(got[c]) \cup {f},
         \A c \in Clients : ToSet(got[c]) \subseteq ToSet(got'[c]),
         CallFine(f)', \A c \in Clients : SentFine(f, c)'
  PROVE  FanInv'
  <1>1. FanTypeOK'
    BY DEF FanInv, FanTypeOK, Once
  <1>2. \A c \in Clients : Once(got[c])' /\ ToSet(got'[c]) \subseteq DOMAIN calls'
    BY DEF FanInv, Once
  <1>3. ASSUME NEW g \in DOMAIN calls, g # f PROVE CallFine(g)' /\ \A c \in Clients : SentFine(g, c)'
    <2>1. calls'[g] = calls[g] /\ CallFine(g)
      BY <1>3 DEF FanInv
    <2>2. ASSUME NEW c \in Clients PROVE Given(g, c)' <=> Given(g, c)
      BY <1>3 DEF Given
    <2>3. CallFine(g)'
      <3>1. At(g) = "drain" => Next1(g) \in Clients
        <4>1. calls[g].todo \in Seq(Clients)
          BY CallType DEF FanInv, FanTypeOK
        <4>2. QED
          BY <2>1, <4>1 DEF CallFine, Next1
      <3>2. QED
        BY <2>1, <2>2, <3>1 DEF CallFine, Ahead, At, Next1, Once
    <2>4. \A c \in Clients : SentFine(g, c)'
      BY <2>1, <2>2 DEF FanInv, SentFine, Ahead, At, Next1
    <2>5. QED
      BY <2>3, <2>4
  <1>4. QED
    BY <1>1, <1>2, <1>3 DEF FanInv

\* What is known of a call.
LEMMA CallKnown ==
  ASSUME FanInv, NEW f \in DOMAIN calls
  PROVE  /\ calls \in Seq(CallSet) /\ calls[f] \in CallSet /\ CallFine(f)
         /\ calls[f].todo \in Seq(Clients) /\ Once(calls[f].todo)
         /\ calls[f].audience \subseteq Clients
         /\ Ahead(f) \subseteq calls[f].audience
         /\ f \in Nat /\ \A c \in Clients : SentFine(f, c)
         /\ got \in [Clients -> Seq(Nat)]
         /\ \A c \in Clients : Once(got[c]) /\ ToSet(got[c]) \subseteq DOMAIN calls
  <1>1. FanTypeOK /\ CallFine(f) /\ \A c \in Clients : SentFine(f, c)
    BY DEF FanInv
  <1>2. f \in Nat
    BY <1>1 DEF FanTypeOK
  <1>3. QED
    BY <1>1, <1>2, CallType DEF FanInv, FanTypeOK, CallFine

\* A call is replaced by another record.
LEMMA Replaced ==
  ASSUME calls \in Seq(CallSet), NEW f \in DOMAIN calls, NEW r \in CallSet,
         calls' = [calls EXCEPT ![f] = r]
  PROVE  /\ calls' \in Seq(CallSet) /\ DOMAIN calls' = DOMAIN calls /\ calls'[f] = r
         /\ \A g \in DOMAIN calls : g # f => calls'[g] = calls[g]
  OBVIOUS

LEMMA BeginStep == ASSUME FanInv, NEW f \in DOMAIN calls, Begins(f) PROVE FanInv'
  <1> DEFINE to == Recipients(calls[f].kind)
             r == [calls[f] EXCEPT !.at = "loop", !.todo = to, !.audience = ToSet(to)]
  <1>1. /\ calls[f] \in CallSet /\ calls \in Seq(CallSet) /\ At(f) = "new" /\ CallFine(f)
        /\ UNCHANGED <<clients, dead, got>>
    BY CallKnown DEF Begins, peers
  <1>2. to \in Seq(Clients) /\ Once(to) /\ ToSet(to) \subseteq Clients
    <2>1. clients \in Seq(Clients) /\ Once(clients) /\ <<>> \in Seq(Clients) /\ Once(<<>>)
      BY DEF FanInv, FanTypeOK, Once
    <2>2. to = clients \/ to = <<>>
      BY DEF Recipients
    <2>3. QED
      BY <2>1, <2>2, ToSetType
  <1>3. calls' = [calls EXCEPT ![f] = r]
    BY <1>1 DEF Begins, CallSet
  <1> HIDE DEF to
  <1>4. r \in CallSet /\ r.at = "loop" /\ r.todo = to /\ r.audience = ToSet(to)
    BY <1>1, <1>2 DEF CallSet, Places
  <1> HIDE DEF r
  <1>5. /\ calls' \in Seq(CallSet) /\ DOMAIN calls' = DOMAIN calls /\ calls'[f] = r
        /\ \A g \in DOMAIN calls : g # f => calls'[g] = calls[g]
    BY <1>1, <1>3, <1>4, Replaced
  <1>6. \A c \in Clients : ~Given(f, c)
    <2>1. TAKE c \in Clients
    <2>2. SentFine(f, c)
      BY CallKnown
    <2>3. QED
      BY <1>1, <2>2 DEF SentFine, CallFine
  <1>7. CallFine(f)'
    BY <1>2, <1>4, <1>5 DEF CallFine, Ahead, At, Once
  <1>8. \A c \in Clients : SentFine(f, c)'
    BY <1>1, <1>4, <1>5, <1>6 DEF SentFine, Ahead, At, Given
  <1>9. QED
    BY <1>1, <1>5, <1>7, <1>8, CallKnown, OneCall

\* The call moves on with the same clients before it, and writes nothing.
LEMMA MoveStep ==
  ASSUME FanInv, NEW f \in DOMAIN calls, NEW p \in {"lock", "write", "done"}, Moves(f, p),
         UNCHANGED <<clients, dead, got>>, At(f) \in {"loop", "lock"},
         p = "done" <=> calls[f].todo = <<>>
  PROVE  FanInv'
  <1> DEFINE r == [calls[f] EXCEPT !.at = p]
  <1>1. calls[f] \in CallSet /\ calls \in Seq(CallSet) /\ CallFine(f)
    BY CallKnown
  <1>2. calls' = [calls EXCEPT ![f] = r]
    BY <1>1 DEF Moves
  <1>3. r \in CallSet /\ r.at = p /\ r.todo = calls[f].todo /\ r.audience = calls[f].audience
    BY <1>1 DEF CallSet, Places
  <1> HIDE DEF r
  <1>4. /\ calls' \in Seq(CallSet) /\ DOMAIN calls' = DOMAIN calls /\ calls'[f] = r
        /\ \A g \in DOMAIN calls : g # f => calls'[g] = calls[g]
    BY <1>1, <1>2, <1>3, Replaced
  <1>5. CallFine(f)'
    BY <1>1, <1>3, <1>4 DEF CallFine, Ahead, At, Once
  <1>6. ASSUME NEW c \in Clients PROVE SentFine(f, c)'
    <2>1. SentFine(f, c)
      BY CallKnown
    <2>2. QED
      BY <1>3, <1>4, <2>1 DEF SentFine, Ahead, At, Given
  <1>7. QED
    BY <1>4, <1>5, <1>6, CallKnown, OneCall

\* send_frame is over for the first client of todo, who has the frame or is dead.
LEMMA LeaveStep ==
  ASSUME FanInv, NEW f \in DOMAIN calls, calls[f].todo # <<>>,
         LeavesClient(f, Tail(calls[f].todo)), UNCHANGED <<clients, dead>>,
         got' \in [Clients -> Seq(Nat)],
         \A c \in Clients : Once(got'[c]) /\ ToSet(got[c]) \subseteq ToSet(got'[c]),
         \A c \in Clients : c # Next1(f) => ToSet(got'[c]) = ToSet(got[c]),
         ToSet(got'[Next1(f)]) \subseteq ToSet(got[Next1(f)]) \cup {f},
         Next1(f) \in dead \/ f \in ToSet(got'[Next1(f)])
  PROVE  FanInv'
  <1> DEFINE rest == Tail(calls[f].todo)
             r == [calls[f] EXCEPT !.at = "loop", !.todo = rest]
             first == Next1(f)
  <1>1. /\ calls[f] \in CallSet /\ calls \in Seq(CallSet) /\ CallFine(f)
        /\ Ahead(f) \subseteq calls[f].audience
    BY CallKnown
  <1>2. /\ rest \in Seq(Clients) /\ Once(rest)
        /\ ToSet(rest) = Ahead(f) \ {first} /\ first \in Ahead(f) /\ first \in Clients
    BY CallKnown, TailOnce DEF Next1, Ahead
  <1>3. calls' = [calls EXCEPT ![f] = r]
    BY <1>1 DEF LeavesClient
  <1> HIDE DEF rest, first
  <1>4. r \in CallSet /\ r.at = "loop" /\ r.todo = rest /\ r.audience = calls[f].audience
    BY <1>1, <1>2 DEF CallSet, Places
  <1> HIDE DEF r
  <1>5. /\ calls' \in Seq(CallSet) /\ DOMAIN calls' = DOMAIN calls /\ calls'[f] = r
        /\ \A g \in DOMAIN calls : g # f => calls'[g] = calls[g]
    BY <1>1, <1>3, <1>4, Replaced
  <1>6. CallFine(f)'
    <2>1. ToSet(rest) \subseteq calls[f].audience
      BY <1>1, <1>2
    <2>2. At(f)' = "loop" /\ calls'[f].todo = rest /\ calls'[f].audience = calls[f].audience
      BY <1>4, <1>5 DEF At
    <2>3. QED
      BY <1>2, <2>1, <2>2 DEF CallFine, Ahead
  <1>7. ASSUME NEW c \in Clients PROVE SentFine(f, c)'
    <2>1. SentFine(f, c)
      BY CallKnown
    <2>2. /\ Ahead(f)' = Ahead(f) \ {first} /\ calls'[f].audience = calls[f].audience
          /\ dead' = dead
      BY <1>2, <1>4, <1>5 DEF Ahead
    <2>3. CASE c = first
      <3>1. c \in calls[f].audience /\ c \notin Ahead(f)' /\ (c \in dead \/ Given(f, c)')
        BY <1>1, <1>2, <2>2, <2>3 DEF Given, first
      <3>2. QED
        BY <2>2, <3>1 DEF SentFine
    <2>4. CASE c # first
      <3>1. Given(f, c)' <=> Given(f, c)
        BY <2>4 DEF Given, first
      <3>2. ~(Given(f, c) /\ c \in Ahead(f))
        BY <2>1, <2>4 DEF SentFine, first
      <3>3. QED
        BY <2>1, <2>2, <2>4, <3>1, <3>2 DEF SentFine
    <2>5. QED
      BY <2>3, <2>4
  <1>8. \A c \in Clients : ToSet(got'[c]) \subseteq ToSet(got[c]) \cup {f}
    OBVIOUS
  <1>9. QED
    BY <1>5, <1>6, <1>7, <1>8, OneCall

\* The frame is written to a client and the call waits for the socket to drain.
LEMMA DrainStep ==
  ASSUME FanInv, NEW f \in DOMAIN calls, At(f) = "write", calls[f].todo # <<>>,
         Moves(f, "drain"), UNCHANGED <<clients, dead>>,
         got' \in [Clients -> Seq(Nat)],
         \A c \in Clients : Once(got'[c]) /\ ToSet(got[c]) \subseteq ToSet(got'[c]),
         \A c \in Clients : c # Next1(f) => ToSet(got'[c]) = ToSet(got[c]),
         ToSet(got'[Next1(f)]) = ToSet(got[Next1(f)]) \cup {f}
  PROVE  FanInv'
  <1> DEFINE r == [calls[f] EXCEPT !.at = "drain"]
             first == Next1(f)
  <1>1. /\ calls[f] \in CallSet /\ calls \in Seq(CallSet) /\ CallFine(f)
        /\ Ahead(f) \subseteq calls[f].audience
    BY CallKnown
  <1>2. first \in Ahead(f) /\ first \in Clients
    BY CallKnown, TailOnce DEF Next1, Ahead
  <1>3. calls' = [calls EXCEPT ![f] = r]
    BY <1>1 DEF Moves
  <1>4. r \in CallSet /\ r.at = "drain" /\ r.todo = calls[f].todo /\ r.audience = calls[f].audience
    BY <1>1 DEF CallSet, Places
  <1> HIDE DEF r
  <1>5. /\ calls' \in Seq(CallSet) /\ DOMAIN calls' = DOMAIN calls /\ calls'[f] = r
        /\ \A g \in DOMAIN calls : g # f => calls'[g] = calls[g]
    BY <1>1, <1>3, <1>4, Replaced
  <1>6. /\ At(f)' = "drain" /\ Ahead(f)' = Ahead(f) /\ calls'[f].todo = calls[f].todo
        /\ calls'[f].audience = calls[f].audience /\ Next1(f)' = first /\ dead' = dead
    BY <1>4, <1>5 DEF At, Ahead, Next1
  <1>7. CallFine(f)'
    <2>1. f \in ToSet(got'[first])
      OBVIOUS
    <2> HIDE DEF first
    <2>2. QED
      BY <1>1, <1>6, <2>1 DEF CallFine, Given
  <1>8. ASSUME NEW c \in Clients PROVE SentFine(f, c)'
    <2>1. SentFine(f, c)
      BY CallKnown
    <2>2. CASE c = first
      BY <1>1, <1>2, <1>6, <2>2 DEF SentFine
    <2>3. CASE c # first
      <3>1. Given(f, c)' <=> Given(f, c)
        BY <2>3 DEF Given
      <3>2. ~(Given(f, c) /\ c \in Ahead(f))
        BY <2>1, <2>3 DEF SentFine
      <3>3. QED
        BY <1>6, <2>1, <3>1, <3>2 DEF SentFine
    <2>4. QED
      BY <2>2, <2>3
  <1>9. \A c \in Clients : ToSet(got'[c]) \subseteq ToSet(got[c]) \cup {f}
    OBVIOUS
  <1>10. QED
    BY <1>5, <1>7, <1>8, <1>9, OneCall

LEMMA WriteStep == ASSUME FanInv, NEW f \in DOMAIN calls, Writes(f) PROVE FanInv'
  <1> DEFINE first == Next1(f)
  <1>1. /\ At(f) = "write" /\ calls[f].todo # <<>> /\ UNCHANGED <<clients, dead>>
        /\ got \in [Clients -> Seq(Nat)] /\ f \in Nat
    BY CallKnown DEF Writes, peers, CallFine
  <1>2. first \in Ahead(f) /\ first \in Clients
    BY <1>1, CallKnown, TailOnce DEF Next1, Ahead
  <1>3. CASE /\ first \in dead /\ LeavesClient(f, AfterFailure(calls[f].todo))
             /\ UNCHANGED got
    <2>1. LeavesClient(f, Tail(calls[f].todo))
      BY <1>3 DEF AfterFailure
    <2>2. QED
      BY <1>1, <1>3, <2>1, CallKnown, LeaveStep
  <1>4. CASE got' = [got EXCEPT ![first] = Append(got[first], f)]
    <2>1. f \notin ToSet(got[first])
      <3>1. SentFine(f, first)
        BY <1>2, CallKnown
      <3>2. QED
        BY <1>1, <1>2, <3>1 DEF SentFine, Given
    <2>2. /\ got[first] \in Seq(Nat) /\ Once(got[first])
      BY <1>1, <1>2, CallKnown
    <2>3. /\ Append(got[first], f) \in Seq(Nat) /\ Once(Append(got[first], f))
          /\ ToSet(Append(got[first], f)) = ToSet(got[first]) \cup {f}
      BY <1>1, <2>1, <2>2, AppendOnce
    <2>4. /\ got' \in [Clients -> Seq(Nat)] /\ got'[first] = Append(got[first], f)
          /\ \A c \in Clients : c # first => got'[c] = got[c]
      BY <1>1, <1>2, <1>4, <2>3
    <2>5. /\ \A c \in Clients : Once(got'[c]) /\ ToSet(got[c]) \subseteq ToSet(got'[c])
          /\ \A c \in Clients : c # first => ToSet(got'[c]) = ToSet(got[c])
          /\ ToSet(got'[first]) = ToSet(got[first]) \cup {f}
      BY <2>3, <2>4, CallKnown
    <2>6. CASE Moves(f, "drain")
      BY <1>1, <2>4, <2>5, <2>6, DrainStep
    <2>7. CASE LeavesClient(f, Tail(calls[f].todo))
      <3>1. f \in ToSet(got'[first])
        BY <2>5
      <3>2. QED
        BY <1>1, <2>4, <2>5, <2>7, <3>1, LeaveStep
    <2>8. Moves(f, "drain") \/ LeavesClient(f, Tail(calls[f].todo))
      <3>1. ~(UNCHANGED got)
        BY <2>1, <2>5
      <3>2. QED
        BY <3>1 DEF Writes
    <2>9. QED
      BY <2>6, <2>7, <2>8
  <1>5. QED
    BY <1>3, <1>4 DEF Writes

LEMMA DrainsStep == ASSUME FanInv, NEW f \in DOMAIN calls, Drains(f) PROVE FanInv'
  <1>1. /\ At(f) = "drain" /\ LeavesClient(f, Tail(calls[f].todo))
        /\ UNCHANGED <<clients, dead, got>>
    BY DEF Drains, AfterFailure, peers
  <1>2. calls[f].todo # <<>> /\ f \in ToSet(got[Next1(f)])
    BY <1>1, CallKnown DEF CallFine, Given
  <1>3. QED
    BY <1>1, <1>2, CallKnown, LeaveStep

LEMMA HandleStep == ASSUME FanInv, NEW f \in DOMAIN calls, Handles(f) PROVE FanInv'
  <1>1. CASE Begins(f)
    BY <1>1, BeginStep
  <1>2. CASE AsksForLock(f)
    <2>1. \E p \in {"lock", "write"} : Moves(f, p)
      BY <1>2 DEF AsksForLock
    <2>2. QED
      BY <1>2, <2>1, MoveStep DEF AsksForLock, peers
  <1>3. CASE GetsLock(f)
    <2>1. calls[f].todo # <<>>
      BY <1>3, CallKnown DEF GetsLock, CallFine
    <2>2. QED
      BY <1>3, <2>1, MoveStep DEF GetsLock, peers
  <1>4. CASE Writes(f)
    BY <1>4, WriteStep
  <1>5. CASE Drains(f)
    BY <1>5, DrainsStep
  <1>6. CASE ToLibrary(f)
    BY <1>6, MoveStep DEF ToLibrary, peers
  <1>7. QED
    BY <1>1, <1>2, <1>3, <1>4, <1>5, <1>6 DEF Handles

LEMMA FanStepInv == FanInv /\ [FanoutNext]_fanVars => FanInv'
  <1> SUFFICES ASSUME FanInv, [FanoutNext]_fanVars PROVE FanInv'
    OBVIOUS
  <1>1. ASSUME NEW c \in Clients, Connects(c) \/ Leaves(c) PROVE FanInv'
    <2>1. UNCHANGED <<calls, got, dead>>
      BY <1>1 DEF Connects, Leaves
    <2>2. QED
      BY <1>1, <2>1, ClientsStay, ClientStep DEF FanInv
  <1>2. ASSUME NEW c \in Clients, Dies(c) \/ Reads(c) PROVE FanInv'
    <2>1. UNCHANGED <<calls, got, clients>> /\ dead \subseteq dead'
      BY <1>2 DEF Dies, Reads, peers
    <2>2. QED
      BY <2>1, ClientStep DEF FanInv, FanTypeOK
  <1>3. CASE UNCHANGED fanVars
    <2>1. UNCHANGED <<calls, got, clients, dead>>
      BY <1>3 DEF fanVars
    <2>2. QED
      BY <2>1, ClientStep DEF FanInv, FanTypeOK
  <1>4. QED
    BY <1>1, <1>2, <1>3, EmitStep, HandleStep DEF FanoutNext

\* Everybody who was connected when a broadcast began and still is has been sent the push
\* exactly once when it is over, whoever else stalled, died or left; nobody is sent what
\* was broadcast without him (_on_device_frame, send_frame).
THEOREM CompleteBroadcasts == FanoutSpec => []BroadcastComplete
  <1>1. FanInv => BroadcastComplete
    <2> SUFFICES ASSUME FanInv, NEW f \in DOMAIN calls, NEW c \in Clients
                 PROVE  LET times == {i \in DOMAIN got[c] : got[c][i] = f}
                        IN  /\ At(f) = "done" /\ c \in calls[f].audience \ dead
                               => Cardinality(times) = 1
                            /\ Cardinality(times) <= 1
                            /\ times # {} => c \in calls[f].audience
      BY DEF BroadcastComplete
    <2> DEFINE times == {i \in DOMAIN got[c] : got[c][i] = f}
    <2>1. /\ SentFine(f, c) /\ CallFine(f)
          /\ \A i, j \in times : i = j
          /\ times # {} <=> Given(f, c)
      BY CallKnown DEF Once, Given, ToSet
    <2> HIDE DEF times
    <2>2. CASE times = {}
      <3>1. Cardinality(times) = 0
        BY <2>2, FS_EmptySet
      <3>2. ~(At(f) = "done" /\ c \in calls[f].audience \ dead)
        <4>1. At(f) = "done" => Ahead(f) = {}
          BY <2>1 DEF CallFine, Ahead, ToSet
        <4>2. QED
          BY <2>1, <2>2, <4>1 DEF SentFine
      <3>3. QED
        BY <2>2, <3>1, <3>2 DEF times
    <2>3. CASE times # {}
      <3>1. PICK i : times = {i}
        BY <2>1, <2>3
      <3>2. Cardinality(times) = 1
        BY <3>1, FS_Singleton
      <3>3. c \in calls[f].audience
        BY <2>1, <2>3 DEF SentFine
      <3>4. QED
        BY <3>2, <3>3 DEF times
    <2>4. QED
      BY <2>2, <2>3
  <1>2. QED
    BY <1>1, FanInitInv, FanStepInv, PTL DEF FanoutSpec

-----------------------------------------------------------------------------
(* The order of broadcasts: one is never ahead of the one before it.        *)

Locking == {"lock", "write", "drain"}
Left(f) == Len(calls[f].todo)

\* The queue of a lock: those who wait in send_frame, the one who writes first.
LockFine(c) ==
  /\ lock[c] \in Seq(Nat) /\ Once(lock[c])
  /\ \A f \in ToSet(lock[c]) : f \in DOMAIN calls
  /\ \A f \in DOMAIN calls :
        /\ f \in ToSet(lock[c]) <=> At(f) \in Locking /\ Next1(f) = c
        /\ At(f) \in {"write", "drain"} /\ Next1(f) = c => Head(lock[c]) = f

\* One call runs at a time, and calls begin in the order of the frames.
TurnFine(f) ==
  /\ At(f) \in {"loop", "write"} => running = f
  /\ At(f) = "new" => f \notin disturbed
  /\ At(f) # "new" /\ calls[f].kind = "resp" => calls[f].audience = {}
  /\ \A g \in DOMAIN calls : f < g =>
        /\ At(f) = "new" => At(g) = "new"
        /\ f \in UnderWay /\ g \in UnderWay /\ g \in disturbed => f \in disturbed

\* What a call has before it are the last ones of the client set.
LastOf(todo, all) ==
  /\ Len(todo) <= Len(all)
  /\ \A i \in 1..Len(todo) : todo[i] = all[Len(all) - Len(todo) + i]
Aligned(f) == f \in UnderWay \ disturbed => LastOf(calls[f].todo, clients)

\* x stands before y in s.
Precedes(s, x, y) == \E i, j \in DOMAIN s : i < j /\ s[i] = x /\ s[j] = y

\* A push that begins later has no fewer clients before it, and comes second at a lock.
Follows(f, g) ==
  f < g /\ f \in UnderWay \ disturbed /\ At(g) # "new" /\ calls[g].kind = "push" =>
      /\ Left(f) <= Left(g)
      /\ Left(f) = Left(g) /\ Left(f) > 0 =>
            /\ At(f) \in Locking
            /\ At(g) \in Locking => Precedes(lock[Next1(g)], f, g)

OrderInv ==
  /\ FanInv /\ InOrder
  /\ lock \in [Clients -> Seq(Nat)] /\ disturbed \subseteq DOMAIN calls
  /\ \A c \in Clients : LockFine(c)
  /\ \A f \in DOMAIN calls : TurnFine(f) /\ Aligned(f)
  /\ \A f, g \in DOMAIN calls : Follows(f, g)

\* The order of two elements survives what happens to the ends of a queue.
LEMMA PrecedesAppend ==
  ASSUME NEW s \in Seq(Nat), NEW x, NEW y, NEW z \in Nat, Precedes(s, x, y)
  PROVE  Precedes(Append(s, z), x, y)
  <1>1. /\ DOMAIN s = 1..Len(s) /\ DOMAIN Append(s, z) = 1..(Len(s) + 1) /\ Len(s) \in Nat
        /\ \A i \in 1..Len(s) : Append(s, z)[i] = s[i]
    BY AppendProperties, LenProperties
  <1>2. \A i \in DOMAIN s : i \in DOMAIN Append(s, z) /\ Append(s, z)[i] = s[i]
    BY <1>1
  <1>3. QED
    BY <1>2 DEF Precedes

LEMMA PrecedesLast ==
  ASSUME NEW s \in Seq(Nat), NEW x \in ToSet(s), NEW z \in Nat
  PROVE  Precedes(Append(s, z), x, z)
  <1>1. /\ DOMAIN s = 1..Len(s) /\ DOMAIN Append(s, z) = 1..(Len(s) + 1) /\ Len(s) \in Nat
        /\ \A i \in 1..Len(s) : Append(s, z)[i] = s[i]
        /\ Append(s, z)[Len(s) + 1] = z
    BY AppendProperties, LenProperties
  <1>2. PICK i \in 1..Len(s) : s[i] = x
    BY <1>1 DEF ToSet
  <1>3. i \in DOMAIN Append(s, z) /\ Len(s) + 1 \in DOMAIN Append(s, z) /\ i < Len(s) + 1
    BY <1>1
  <1>4. QED
    BY <1>1, <1>2, <1>3 DEF Precedes

LEMMA PrecedesTail ==
  ASSUME NEW s \in Seq(Nat), s # <<>>, NEW x, NEW y, x # Head(s), Precedes(s, x, y)
  PROVE  Precedes(Tail(s), x, y)
  <1>1. /\ Len(s) \in Nat /\ DOMAIN s = 1..Len(s) /\ Head(s) = s[1]
        /\ DOMAIN Tail(s) = 1..(Len(s) - 1)
        /\ \A i \in 1..(Len(s) - 1) : Tail(s)[i] = s[i + 1]
    BY HeadTailProperties, LenProperties
  <1>2. PICK i \in DOMAIN s, j \in DOMAIN s : i < j /\ s[i] = x /\ s[j] = y
    BY DEF Precedes
  <1>3. /\ i - 1 \in DOMAIN Tail(s) /\ j - 1 \in DOMAIN Tail(s) /\ i - 1 < j - 1
        /\ Tail(s)[i - 1] = x /\ Tail(s)[j - 1] = y
    BY <1>1, <1>2
  <1>4. QED
    BY <1>3 DEF Precedes

\* Nobody stands before the head.
LEMMA HeadIsFirst ==
  ASSUME NEW s \in Seq(Nat), Once(s), s # <<>>, NEW x, Precedes(s, x, Head(s))
  PROVE  FALSE
  <1>1. /\ Len(s) \in Nat /\ DOMAIN s = 1..Len(s) /\ Head(s) = s[1]
    BY HeadTailProperties, LenProperties
  <1>2. PICK i \in DOMAIN s, j \in DOMAIN s : i < j /\ s[j] = s[1]
    BY <1>1 DEF Precedes
  <1>3. 1 \in DOMAIN s /\ j # 1
    BY <1>1, <1>2
  <1>4. QED
    BY <1>2, <1>3 DEF Once

\* Two ends of the same sequence: the shorter lies in the longer.
LEMMA LastOfTail ==
  ASSUME NEW S, NEW s \in Seq(S), NEW t \in Seq(S), t # <<>>, LastOf(t, s)
  PROVE  LastOf(Tail(t), s)
  <1>1. /\ Len(t) \in Nat /\ Len(t) >= 1 /\ Len(s) \in Nat /\ Len(Tail(t)) = Len(t) - 1
        /\ \A i \in 1..(Len(t) - 1) : Tail(t)[i] = t[i + 1]
    BY HeadTailProperties, LenProperties
  <1>2. ASSUME NEW i \in 1..(Len(t) - 1)
        PROVE  Tail(t)[i] = s[Len(s) - (Len(t) - 1) + i]
    <2>1. i + 1 \in 1..Len(t) /\ Len(s) - Len(t) + (i + 1) = Len(s) - (Len(t) - 1) + i
      BY <1>1
    <2>2. QED
      BY <1>1, <2>1 DEF LastOf
  <1>3. QED
    BY <1>1, <1>2 DEF LastOf

LEMMA LastOfHeads ==
  ASSUME NEW S, NEW s \in Seq(S), NEW t \in Seq(S), NEW u \in Seq(S), t # <<>>,
         LastOf(t, s), LastOf(u, s), Len(t) = Len(u)
  PROVE  u # <<>> /\ Head(t) = Head(u)
  <1>1. /\ Len(t) \in Nat /\ Len(t) >= 1 /\ Head(t) = t[1] /\ u # <<>> /\ Head(u) = u[1]
    BY HeadTailProperties, LenProperties
  <1>2. t[1] = s[Len(s) - Len(t) + 1] /\ u[1] = s[Len(s) - Len(t) + 1]
    BY <1>1 DEF LastOf
  <1>3. QED
    BY <1>1, <1>2

LEMMA LastOfAhead ==
  ASSUME NEW S, NEW s \in Seq(S), Once(s), NEW t \in Seq(S), NEW u \in Seq(S),
         LastOf(t, s), LastOf(u, s), Len(t) <= Len(u), NEW x \in ToSet(t)
  PROVE  /\ x \in ToSet(u)
         /\ x = Head(u) => x = Head(t) /\ Len(t) = Len(u)
  <1>1. PICK i \in 1..Len(t) : t[i] = x
    BY LenProperties DEF ToSet
  <1>2. /\ Len(t) \in Nat /\ Len(u) \in Nat /\ Len(s) \in Nat /\ DOMAIN s = 1..Len(s)
        /\ DOMAIN u = 1..Len(u)
    BY LenProperties
  <1> DEFINE m == Len(u) - Len(t) + i
  <1>0. m \in 1..Len(u)
    BY <1>1, <1>2
  <1> HIDE DEF m
  <1>3. PICK k \in 1..Len(u) : k = m
    BY <1>0
  <1>4. /\ Len(s) - Len(u) + k = Len(s) - Len(t) + i /\ Len(s) - Len(t) + i \in DOMAIN s
        /\ k = Len(u) - Len(t) + i
    BY <1>1, <1>2, <1>3 DEF LastOf, m
  <1>5. u[k] = x /\ x = s[Len(s) - Len(t) + i]
    BY <1>1, <1>3, <1>4 DEF LastOf
  <1>6. x \in ToSet(u)
    BY <1>2, <1>5 DEF ToSet
  <1>7. ASSUME x = Head(u) PROVE x = Head(t) /\ Len(t) = Len(u)
    <2>1. u # <<>> /\ t # <<>>
      BY <1>1, <1>2, <1>3, EmptySeq
    <2>2. Head(u) = u[1] /\ Head(t) = t[1] /\ 1 \in 1..Len(u)
      BY <1>1, <1>2, <1>3, <2>1, HeadTailProperties
    <2>3. u[1] = s[Len(s) - Len(u) + 1] /\ Len(s) - Len(u) + 1 \in DOMAIN s
      BY <1>2, <2>2 DEF LastOf
    <2>4. Len(s) - Len(u) + 1 = Len(s) - Len(t) + i
      BY <1>4, <1>5, <1>7, <2>2, <2>3 DEF Once
    <2>5. i = 1 /\ Len(t) = Len(u)
      BY <1>1, <1>2, <1>4, <2>4
    <2>6. QED
      BY <1>1, <2>2, <2>5
  <1>8. QED
    BY <1>6, <1>7

-----------------------------------------------------------------------------
(* What a step of handle_rx does to its call and to the locks.             *)

\* The call has a new place and new clients before it, and keeps the rest.
Goes(f, at, todo) ==
  /\ At(f)' = at /\ calls'[f].todo = todo
  /\ calls'[f].kind = calls[f].kind

Begun(f) ==
  /\ At(f) = "new" /\ running = 0 /\ \A g \in 1..(f - 1) : At(g) # "new"
  /\ Goes(f, "loop", Recipients(calls[f].kind))
  /\ calls'[f].audience = ToSet(Recipients(calls[f].kind))
  /\ lock' = lock

Asked(f) ==
  /\ At(f) = "loop" /\ calls[f].todo # <<>>
  /\ \/ Goes(f, "write", calls[f].todo) /\ lock[Next1(f)] = <<>>
     \/ Goes(f, "lock", calls[f].todo) /\ lock[Next1(f)] # <<>>
  /\ calls'[f].audience = calls[f].audience
  /\ lock' = [lock EXCEPT ![Next1(f)] = Append(lock[Next1(f)], f)]

Served(f) ==
  /\ \/ At(f) = "lock" /\ Head(lock[Next1(f)]) = f /\ Goes(f, "write", calls[f].todo)
     \/ At(f) = "write" /\ Goes(f, "drain", calls[f].todo)
  /\ calls'[f].audience = calls[f].audience
  /\ lock' = lock

PassedOn(f) ==
  /\ At(f) \in {"write", "drain"} /\ Goes(f, "loop", Tail(calls[f].todo))
  /\ calls'[f].audience = calls[f].audience
  /\ lock' = [lock EXCEPT ![Next1(f)] = Tail(lock[Next1(f)])]

Ended(f) ==
  /\ At(f) = "loop" /\ calls[f].todo = <<>> /\ Goes(f, "done", calls[f].todo)
  /\ calls'[f].audience = calls[f].audience
  /\ lock' = lock

\* Moves changes the place only.
LEMMA MovesGoes ==
  ASSUME FanInv, NEW f \in DOMAIN calls, NEW p, Moves(f, p)
  PROVE  /\ Goes(f, p, calls[f].todo) /\ calls'[f].audience = calls[f].audience
         /\ DOMAIN calls' = DOMAIN calls
         /\ \A g \in DOMAIN calls : g # f => calls'[g] = calls[g]
  <1> DEFINE r == [calls[f] EXCEPT !.at = p]
  <1>1. calls[f] \in CallSet /\ calls \in Seq(CallSet)
    BY CallKnown
  <1>2. calls' = [calls EXCEPT ![f] = r]
    BY <1>1 DEF Moves
  <1>3. /\ r.at = p /\ r.todo = calls[f].todo /\ r.audience = calls[f].audience
        /\ r.kind = calls[f].kind
    BY <1>1 DEF CallSet
  <1> HIDE DEF r
  <1>4. /\ calls'[f] = r /\ DOMAIN calls' = DOMAIN calls
        /\ \A g \in DOMAIN calls : g # f => calls'[g] = calls[g]
    BY <1>1, <1>2
  <1>5. QED
    BY <1>3, <1>4 DEF Goes, At

LEMMA LeavesGoes ==
  ASSUME FanInv, NEW f \in DOMAIN calls, LeavesClient(f, Tail(calls[f].todo))
  PROVE  /\ Goes(f, "loop", Tail(calls[f].todo)) /\ calls'[f].audience = calls[f].audience
         /\ lock' = [lock EXCEPT ![Next1(f)] = Tail(lock[Next1(f)])]
         /\ DOMAIN calls' = DOMAIN calls
         /\ \A g \in DOMAIN calls : g # f => calls'[g] = calls[g]
  <1> DEFINE rest == Tail(calls[f].todo)
             r == [calls[f] EXCEPT !.at = "loop", !.todo = rest]
  <1>1. calls[f] \in CallSet /\ calls \in Seq(CallSet)
    BY CallKnown
  <1>2. calls' = [calls EXCEPT ![f] = r]
    BY <1>1 DEF LeavesClient
  <1> HIDE DEF rest
  <1>3. /\ r.at = "loop" /\ r.todo = rest /\ r.audience = calls[f].audience
        /\ r.kind = calls[f].kind
    BY <1>1 DEF CallSet
  <1> HIDE DEF r
  <1>4. /\ calls'[f] = r /\ DOMAIN calls' = DOMAIN calls
        /\ \A g \in DOMAIN calls : g # f => calls'[g] = calls[g]
    BY <1>1, <1>2
  <1>5. QED
    BY <1>3, <1>4 DEF Goes, At, LeavesClient, rest

LEMMA BeginsGoes ==
  ASSUME FanInv, NEW f \in DOMAIN calls, Begins(f)
  PROVE  /\ Goes(f, "loop", Recipients(calls[f].kind))
         /\ calls'[f].audience = ToSet(Recipients(calls[f].kind))
         /\ DOMAIN calls' = DOMAIN calls
         /\ \A g \in DOMAIN calls : g # f => calls'[g] = calls[g]
  <1> DEFINE to == Recipients(calls[f].kind)
             r == [calls[f] EXCEPT !.at = "loop", !.todo = to, !.audience = ToSet(to)]
  <1>1. calls[f] \in CallSet /\ calls \in Seq(CallSet)
    BY CallKnown
  <1>2. calls' = [calls EXCEPT ![f] = r]
    BY <1>1 DEF Begins, CallSet
  <1> HIDE DEF to
  <1>3. /\ r.at = "loop" /\ r.todo = to /\ r.audience = ToSet(to) /\ r.kind = calls[f].kind
    BY <1>1 DEF CallSet
  <1> HIDE DEF r
  <1>4. /\ calls'[f] = r /\ DOMAIN calls' = DOMAIN calls
        /\ \A g \in DOMAIN calls : g # f => calls'[g] = calls[g]
    BY <1>1, <1>2
  <1>5. QED
    BY <1>3, <1>4 DEF Goes, At, to

\* What is common to the steps of one call.
Alone(f) ==
  /\ DOMAIN calls' = DOMAIN calls
  /\ \A g \in DOMAIN calls : g # f => calls'[g] = calls[g]
  /\ UNCHANGED <<clients, disturbed>>
  /\ running \in {0, f}
  /\ At(f)' \in {"loop", "write"} => running' = f

LEMMA Shapes ==
  ASSUME FanInv, NEW f \in DOMAIN calls, Handles(f)
  PROVE  /\ Alone(f)
         /\ Begun(f) \/ Asked(f) \/ Served(f) \/ PassedOn(f) \/ Ended(f)
  <1>1. CASE Begins(f)
    BY <1>1, BeginsGoes DEF Begins, Begun, Alone, Goes, Idle, peers
  <1>2. CASE AsksForLock(f)
    <2>1. CASE LockIsFree(Next1(f)) /\ Moves(f, "write") /\ UNCHANGED running
      BY <1>2, <2>1, MovesGoes DEF AsksForLock, Asked, Alone, Goes, LockIsFree, peers
    <2>2. CASE ~LockIsFree(Next1(f)) /\ Moves(f, "lock") /\ running' = 0
      BY <1>2, <2>2, MovesGoes DEF AsksForLock, Asked, Alone, Goes, LockIsFree, peers
    <2>3. QED
      BY <1>2, <2>1, <2>2 DEF AsksForLock
  <1>3. CASE GetsLock(f)
    BY <1>3, MovesGoes DEF GetsLock, Served, Alone, Goes, Idle, peers
  <1>4. CASE Writes(f)
    <2>1. CASE Moves(f, "drain") /\ UNCHANGED lock
      BY <1>4, <2>1, MovesGoes DEF Writes, Served, Alone, Goes, peers
    <2>2. CASE LeavesClient(f, Tail(calls[f].todo)) /\ UNCHANGED running
      BY <1>4, <2>2, LeavesGoes DEF Writes, PassedOn, Alone, Goes, peers
    <2>3. QED
      BY <1>4, <2>1, <2>2 DEF Writes, AfterFailure
  <1>5. CASE Drains(f)
    <2>1. LeavesClient(f, Tail(calls[f].todo))
      BY <1>5 DEF Drains, AfterFailure
    <2>2. QED
      BY <1>5, <2>1, LeavesGoes DEF Drains, PassedOn, Alone, Goes, Idle, peers
  <1>6. CASE ToLibrary(f)
    BY <1>6, MovesGoes DEF ToLibrary, Ended, Alone, Goes, peers
  <1>7. QED
    BY <1>1, <1>2, <1>3, <1>4, <1>5, <1>6 DEF Handles

\* The one whose turn it is to be served is the head of the queue.
LEMMA HolderIsHead ==
  ASSUME OrderInv, NEW f \in DOMAIN calls, Served(f) \/ PassedOn(f)
  PROVE  /\ calls[f].todo # <<>> /\ Next1(f) \in Clients /\ At(f) \in Locking
         /\ lock[Next1(f)] \in Seq(Nat) /\ Once(lock[Next1(f)])
         /\ lock[Next1(f)] # <<>> /\ Head(lock[Next1(f)]) = f
  <1>1. FanInv /\ At(f) \in Locking
    BY DEF OrderInv, Served, PassedOn, Locking
  <1>2. calls[f].todo # <<>> /\ calls[f].todo \in Seq(Clients)
    BY <1>1, CallKnown DEF CallFine, Locking
  <1>3. Next1(f) \in Clients
    BY <1>2 DEF Next1
  <1>4. LockFine(Next1(f))
    BY <1>3 DEF OrderInv
  <1>5. f \in ToSet(lock[Next1(f)]) /\ Head(lock[Next1(f)]) = f
    BY <1>1, <1>4 DEF LockFine, Served, PassedOn
  <1>6. lock[Next1(f)] # <<>>
    BY <1>5 DEF ToSet
  <1>7. QED
    BY <1>1, <1>2, <1>3, <1>4, <1>5, <1>6 DEF LockFine

-----------------------------------------------------------------------------
(* A step of one call keeps the order.                                     *)

\* The queues of the locks.
LEMMA LocksStay ==
  ASSUME OrderInv, NEW f \in DOMAIN calls, Handles(f)
  PROVE  lock' \in [Clients -> Seq(Nat)] /\ \A c \in Clients : LockFine(c)'
  <1>1. /\ FanInv /\ Alone(f) /\ f \in Nat /\ lock \in [Clients -> Seq(Nat)]
        /\ DOMAIN calls' = DOMAIN calls
        /\ \A g \in DOMAIN calls : g # f => calls'[g] = calls[g]
    BY Shapes, CallKnown DEF OrderInv, Alone
  <1>2. \A g \in DOMAIN calls : g # f => At(g)' = At(g) /\ Next1(g)' = Next1(g)
    BY <1>1 DEF At, Next1
  <1>3. \A c \in Clients : LockFine(c)
    BY DEF OrderInv
  <1>4. \A c \in Clients : (lock' = lock /\ calls'[f].todo = calls[f].todo
           /\ (At(f)' \in Locking <=> At(f) \in Locking)
           /\ (At(f)' \in {"write", "drain"} /\ Next1(f) = c => Head(lock[c]) = f))
             => LockFine(c)'
    BY <1>1, <1>2, <1>3 DEF LockFine, Next1, Once
  <1>5. CASE Served(f)
    <2>1. Head(lock[Next1(f)]) = f
      BY <1>5, HolderIsHead
    <2>2. /\ lock' = lock /\ calls'[f].todo = calls[f].todo
          /\ At(f)' \in Locking /\ At(f) \in Locking
      BY <1>5 DEF Served, Goes, Locking
    <2>3. QED
      BY <1>1, <1>4, <2>1, <2>2
  <1>6. CASE Ended(f)
    BY <1>1, <1>4, <1>6 DEF Ended, Goes, Locking
  <1>7. CASE Begun(f)
    <2>1. lock' = lock /\ At(f) \notin Locking /\ At(f)' = "loop"
      BY <1>7 DEF Begun, Goes, Locking
    <2>2. ASSUME NEW c \in Clients PROVE LockFine(c)'
      <3>1. f \notin ToSet(lock[c])
        BY <1>3, <2>1 DEF LockFine
      <3>2. QED
        BY <1>1, <1>2, <1>3, <2>1, <3>1 DEF LockFine, Once, Locking
    <2>3. QED
      BY <1>1, <2>1, <2>2
  <1>8. CASE Asked(f)
    <2>0. calls[f].todo # <<>> /\ Next1(f) \in Clients
      BY <1>1, <1>8, CallKnown DEF Next1, Asked
    <2> PICK first \in Clients : first = Next1(f)
      BY <2>0
    <2>1. /\ At(f) \notin Locking /\ At(f)' \in Locking /\ calls'[f].todo = calls[f].todo
          /\ calls[f].todo # <<>> /\ At(f)' # "drain"
          /\ At(f)' = "write" => lock[first] = <<>>
          /\ lock' = [lock EXCEPT ![first] = Append(lock[first], f)]
      BY <1>8 DEF Asked, Goes, Locking
    <2>2. first \in Clients /\ Next1(f)' = first
      BY <2>1 DEF Next1
    <2>3. /\ lock[first] \in Seq(Nat) /\ Once(lock[first]) /\ f \notin ToSet(lock[first])
      BY <1>1, <1>3, <2>1, <2>2 DEF LockFine
    <2>9. Append(lock[first], f) \in Seq(Nat)
      BY <1>1, <2>3
    <2> PICK q \in Seq(Nat) : q = Append(lock[first], f)
      BY <2>9
    <2>4. /\ Once(q) /\ ToSet(q) = ToSet(lock[first]) \cup {f}
          /\ lock[first] = <<>> => Head(q) = f
          /\ lock[first] # <<>> => Head(q) = Head(lock[first])
      <3>1. Once(q) /\ ToSet(q) = ToSet(lock[first]) \cup {f}
        BY <1>1, <2>3, AppendOnce
      <3>2. QED
        BY <1>1, <2>3, <3>1
    <2>5. /\ lock' \in [Clients -> Seq(Nat)] /\ lock'[first] = q
          /\ \A c \in Clients : c # first => lock'[c] = lock[c]
      BY <1>1, <2>1, <2>2
    <2>6. ASSUME NEW c \in Clients, c # first PROVE LockFine(c)'
      <3>1. LockFine(c) /\ lock'[c] = lock[c] /\ Next1(f)' # c
        BY <1>3, <2>2, <2>5, <2>6
      <3>2. f \notin ToSet(lock[c])
        BY <2>1, <3>1 DEF LockFine
      <3>3. ASSUME NEW g \in DOMAIN calls
            PROVE  /\ g \in ToSet(lock[c]) <=> At(g)' \in Locking /\ Next1(g)' = c
                   /\ At(g)' \in {"write", "drain"} /\ Next1(g)' = c => Head(lock[c]) = g
        <4>1. CASE g = f
          BY <3>1, <3>2, <4>1
        <4>2. CASE g # f
          BY <1>2, <3>1, <4>2 DEF LockFine
        <4>3. QED
          BY <4>1, <4>2
      <3>4. QED
        BY <1>1, <3>1, <3>3 DEF LockFine, Once
    <2>7. LockFine(first)'
      <3>1. LockFine(first)
        BY <1>3, <2>2
      <3>2. \A g \in DOMAIN calls : g # f =>
              /\ g \in ToSet(q) <=> g \in ToSet(lock[first])
              /\ At(g) \in {"write", "drain"} /\ Next1(g) = first =>
                     g \in ToSet(lock[first]) /\ Head(lock[first]) = g /\ lock[first] # <<>>
        <4>1. \A g : g \in ToSet(lock[first]) => lock[first] # <<>>
          BY DEF ToSet
        <4>2. QED
          BY <2>4, <3>1, <4>1 DEF LockFine, Locking
      <3>3. \A g \in DOMAIN calls : g # f /\ Head(lock[first]) = g /\ lock[first] # <<>>
                                    => Head(q) = g
        BY <2>4
      <3>4. At(f)' \in {"write", "drain"} => Head(q) = f
        BY <2>1, <2>4
      <3>5. \A g \in ToSet(q) : g \in DOMAIN calls
        BY <2>4, <3>1 DEF LockFine
      <3>6. ASSUME NEW g \in DOMAIN calls
            PROVE  /\ g \in ToSet(q) <=> At(g)' \in Locking /\ Next1(g)' = first
                   /\ At(g)' \in {"write", "drain"} /\ Next1(g)' = first => Head(q) = g
        BY <1>2, <2>1, <2>2, <2>4, <3>1, <3>2, <3>3, <3>4 DEF LockFine
      <3>7. QED
        BY <1>1, <2>4, <2>5, <3>5, <3>6 DEF LockFine, Once
    <2>10. QED
      BY <2>5, <2>6, <2>7
  <1>9. CASE PassedOn(f)
    <2> PICK first \in Clients : first = Next1(f)
      BY <1>9, HolderIsHead
    <2>1. /\ first \in Clients /\ At(f) \in Locking /\ lock[first] \in Seq(Nat)
          /\ Once(lock[first]) /\ lock[first] # <<>> /\ Head(lock[first]) = f
      BY <1>9, HolderIsHead
    <2>2. /\ At(f)' = "loop"
          /\ lock' = [lock EXCEPT ![first] = Tail(lock[first])]
      BY <1>9 DEF PassedOn, Goes
    <2>8. Tail(lock[first]) \in Seq(Nat)
      BY <2>1
    <2> PICK q \in Seq(Nat) : q = Tail(lock[first])
      BY <2>8
    <2>3. Once(q) /\ ToSet(q) = ToSet(lock[first]) \ {f}
      BY <2>1, TailOnce
    <2>4. /\ lock' \in [Clients -> Seq(Nat)] /\ lock'[first] = q
          /\ \A c \in Clients : c # first => lock'[c] = lock[c]
      BY <1>1, <2>1, <2>2
    <2>5. Next1(f) = first
      OBVIOUS
    <2>6. ASSUME NEW c \in Clients, c # first PROVE LockFine(c)'
      <3>1. f \notin ToSet(lock[c])
        BY <1>3, <2>5, <2>6 DEF LockFine
      <3>2. QED
        <4>1. LockFine(c) /\ lock'[c] = lock[c] /\ At(f)' \notin Locking
          BY <1>3, <2>2, <2>4, <2>6 DEF Locking
        <4>2. ASSUME NEW g \in DOMAIN calls
              PROVE  /\ g \in ToSet(lock[c]) <=> At(g)' \in Locking /\ Next1(g)' = c
                     /\ At(g)' \in {"write", "drain"} /\ Next1(g)' = c => Head(lock[c]) = g
          <5>1. CASE g = f
            BY <3>1, <4>1, <5>1 DEF Locking
          <5>2. CASE g # f
            BY <1>2, <4>1, <5>2 DEF LockFine
          <5>3. QED
            BY <5>1, <5>2
        <4>3. QED
          BY <1>1, <4>1, <4>2 DEF LockFine, Once
    <2>7. LockFine(first)'
      <3>1. LockFine(first)
        BY <1>3, <2>1
      <3>2. \A g \in DOMAIN calls : g # f =>
               ~(At(g) \in {"write", "drain"} /\ Next1(g) = first)
        BY <2>1, <3>1 DEF LockFine
      <3>3. \A g \in ToSet(q) : g \in DOMAIN calls
        BY <2>3, <3>1 DEF LockFine
      <3>4. ASSUME NEW g \in DOMAIN calls
            PROVE  /\ g \in ToSet(q) <=> At(g)' \in Locking /\ Next1(g)' = first
                   /\ ~(At(g)' \in {"write", "drain"} /\ Next1(g)' = first)
        BY <1>2, <2>2, <2>3, <3>1, <3>2 DEF LockFine, Locking
      <3>5. QED
        BY <1>1, <2>3, <2>4, <3>3, <3>4 DEF LockFine, Once
    <2>9. QED
      BY <2>4, <2>6, <2>7
  <1>10. QED
    BY <1>1, <1>5, <1>6, <1>7, <1>8, <1>9, Shapes

\* Who has the event loop, and in which order calls begin.
LEMMA TurnsStay ==
  ASSUME OrderInv, NEW f \in DOMAIN calls, Handles(f)
  PROVE  \A g \in DOMAIN calls : TurnFine(g)'
  <1>1. /\ FanInv /\ Alone(f) /\ DOMAIN calls = 1..Len(calls) /\ f \in Nat /\ f # 0
        /\ DOMAIN calls' = DOMAIN calls /\ disturbed' = disturbed
    BY Shapes, CallKnown, LenProperties DEF OrderInv, Alone
  <1>2. \A g \in DOMAIN calls : g # f =>
            calls'[g] = calls[g] /\ At(g)' = At(g)
    BY <1>1 DEF Alone, At
  <1>3. \A g \in DOMAIN calls : TurnFine(g)
    BY DEF OrderInv
  <1>4. /\ At(f)' # "new" /\ calls'[f].kind = calls[f].kind
        /\ At(f)' \in {"loop", "write"} => running' = f
    BY <1>1, Shapes DEF Begun, Asked, Served, PassedOn, Ended, Goes, Alone
  <1>5. calls[f].kind = "resp" => calls'[f].audience = {}
    <2>1. CASE Begun(f)
      BY <2>1 DEF Begun, Recipients, ToSet
    <2>2. CASE ~Begun(f)
      <3>1. calls'[f].audience = calls[f].audience /\ At(f) # "new"
        BY <1>1, <2>2, Shapes DEF Asked, Served, PassedOn, Ended
      <3>2. QED
        BY <1>3, <3>1 DEF TurnFine
    <2>3. QED
      BY <2>1, <2>2
  <1>6. At(f) = "new" => Begun(f)
    BY <1>1, Shapes DEF Asked, Served, PassedOn, Ended
  <1>7. ASSUME NEW g \in DOMAIN calls, NEW h \in DOMAIN calls, g < h, At(g)' = "new"
        PROVE  At(h)' = "new"
    <2>1. g # f /\ At(g) = "new"
      BY <1>2, <1>4, <1>7
    <2>2. At(h) = "new"
      BY <1>3, <1>7, <2>1 DEF TurnFine
    <2>3. h # f
      <3>1. ASSUME h = f PROVE FALSE
        <4>1. Begun(f) /\ g \in 1..(f - 1)
          BY <1>1, <1>6, <1>7, <2>2, <3>1
        <4>2. QED
          BY <2>1, <4>1 DEF Begun
      <3>2. QED
        BY <3>1
    <2>4. QED
      BY <1>2, <2>2, <2>3
  <1>8. \A g \in DOMAIN calls : g \in UnderWay' => g \in UnderWay \/ (g = f /\ At(f) = "new")
    <2>1. At(f) = "done" => FALSE
      BY <1>1, Shapes DEF Begun, Asked, Served, PassedOn, Ended
    <2>2. QED
      BY <1>1, <1>2, <2>1 DEF UnderWay
  <1>9. ASSUME NEW g \in DOMAIN calls, NEW h \in DOMAIN calls, g < h,
               g \in UnderWay', h \in UnderWay', h \in disturbed
        PROVE  g \in disturbed
    <2>1. CASE g \in UnderWay /\ h \in UnderWay
      BY <1>3, <1>9, <2>1 DEF TurnFine
    <2>2. CASE h = f /\ At(f) = "new"
      BY <1>3, <1>9, <2>2 DEF TurnFine
    <2>3. CASE g = f /\ At(f) = "new"
      <3>1. At(h) = "new" /\ h # f
        BY <1>1, <1>3, <1>9, <2>3 DEF TurnFine
      <3>2. QED
        BY <1>3, <1>9, <3>1 DEF TurnFine
    <2>4. QED
      BY <1>8, <1>9, <2>1, <2>2, <2>3
  <1>10. ASSUME NEW g \in DOMAIN calls PROVE TurnFine(g)'
    <2>1. CASE g = f
      BY <1>1, <1>4, <1>5, <1>7, <1>9, <2>1 DEF TurnFine
    <2>2. CASE g # f
      <3>1. At(g) \notin {"loop", "write"}
        BY <1>1, <1>3, <2>2 DEF TurnFine, Alone
      <3>2. QED
        BY <1>1, <1>2, <1>3, <1>7, <1>9, <2>2, <3>1 DEF TurnFine
    <2>3. QED
      BY <2>1, <2>2
  <1>11. QED
    BY <1>10

LEMMA AlignedStays ==
  ASSUME OrderInv, NEW f \in DOMAIN calls, Handles(f), NEW g \in DOMAIN calls
  PROVE  Aligned(g)'
  <1>1. /\ FanInv /\ Alone(f) /\ clients' = clients /\ disturbed' = disturbed
        /\ DOMAIN calls' = DOMAIN calls /\ Aligned(g) /\ calls[f].todo \in Seq(Clients)
        /\ clients \in Seq(Clients) /\ Len(clients) \in Nat
    BY Shapes, CallKnown, LenProperties DEF OrderInv, Alone, FanInv, FanTypeOK
  <1>2. CASE g # f
    BY <1>1, <1>2 DEF Alone, Aligned, UnderWay, At, LastOf
  <1>3. CASE g = f
    <2>1. CASE Begun(f)
      <3>1. calls'[f].todo = clients \/ calls'[f].todo = <<>>
        BY <2>1 DEF Begun, Goes, Recipients
      <3>2. LastOf(clients, clients) /\ LastOf(<<>>, clients)
        BY <1>1 DEF LastOf
      <3>3. QED
        BY <1>1, <1>3, <3>1, <3>2 DEF Aligned, LastOf
    <2>2. CASE PassedOn(f)
      <3>1. calls[f].todo # <<>> /\ calls'[f].todo = Tail(calls[f].todo) /\ f \in UnderWay
        BY <2>2, HolderIsHead DEF PassedOn, Goes, UnderWay
      <3>2. f \notin disturbed => LastOf(Tail(calls[f].todo), clients)
        BY <1>1, <1>3, <3>1, LastOfTail DEF Aligned
      <3>3. QED
        BY <1>1, <1>3, <3>1, <3>2 DEF Aligned, LastOf
    <2>3. CASE Asked(f) \/ Served(f) \/ Ended(f)
      <3>1. calls'[f].todo = calls[f].todo /\ f \in UnderWay
        BY <2>3 DEF Asked, Served, Ended, Goes, UnderWay
      <3>2. QED
        BY <1>1, <1>3, <3>1 DEF Aligned, LastOf
    <2>4. QED
      BY <1>1, <2>1, <2>2, <2>3, Shapes
  <1>4. QED
    BY <1>2, <1>3

\* Of two calls at work, the earlier is behind the later.
LEMMA FollowsStays ==
  ASSUME OrderInv, NEW f \in DOMAIN calls, Handles(f), NEW g \in DOMAIN calls,
         NEW h \in DOMAIN calls
  PROVE  Follows(g, h)'
  <1>1. /\ FanInv /\ Alone(f) /\ clients' = clients /\ disturbed' = disturbed
        /\ DOMAIN calls' = DOMAIN calls /\ Follows(g, h)
        /\ clients \in Seq(Clients) /\ Len(clients) \in Nat
        /\ f \in Nat /\ g \in Nat /\ h \in Nat
        /\ lock \in [Clients -> Seq(Nat)]
    BY Shapes, CallKnown, LenProperties DEF OrderInv, Alone, FanInv, FanTypeOK
  <1>2. /\ \A k \in DOMAIN calls : k # f =>
              /\ calls'[k] = calls[k] /\ At(k)' = At(k) /\ Next1(k)' = Next1(k)
              /\ Left(k)' = Left(k) /\ (k \in UnderWay' <=> k \in UnderWay)
    BY <1>1 DEF Alone, At, Next1, Left, UnderWay
  <1>3. \A k \in DOMAIN calls : TurnFine(k) /\ Aligned(k) /\ Left(k) \in Nat
                                  /\ calls[k].todo \in Seq(Clients)
    BY <1>1, CallKnown, LenProperties DEF OrderInv, Left
  <1>4. /\ f \in UnderWay => At(f) # "new" /\ At(f) # "done"
        /\ At(f)' # "new" /\ calls'[f].kind = calls[f].kind
    BY <1>1, Shapes DEF UnderWay, Begun, Asked, Served, PassedOn, Ended, Goes
  <1> SUFFICES ASSUME g < h, g \in UnderWay', g \notin disturbed, At(h)' # "new",
                      calls'[h].kind = "push"
               PROVE  /\ Left(g)' <= Left(h)'
                      /\ Left(g)' = Left(h)' /\ Left(g)' > 0 =>
                            /\ At(g)' \in Locking
                            /\ At(h)' \in Locking => Precedes(lock'[Next1(h)'], g, h)
    BY <1>1 DEF Follows
  <1>5. CASE g # f /\ h # f
    <2>1. /\ Left(g) <= Left(h)
          /\ Left(g) = Left(h) /\ Left(g) > 0 =>
                /\ At(g) \in Locking
                /\ At(h) \in Locking => Precedes(lock[Next1(h)], g, h)
      BY <1>1, <1>2, <1>5 DEF Follows
    <2>2. ASSUME At(h) \in Locking, Precedes(lock[Next1(h)], g, h)
          PROVE  Precedes(lock'[Next1(h)], g, h)
      <3>1. calls[h].todo # <<>> /\ Next1(h) \in Clients
        BY <1>1, <1>3, <2>2, CallKnown DEF CallFine, Next1, Locking
      <3> PICK d \in Clients : d = Next1(h)
        BY <3>1
      <3>2. lock[d] \in Seq(Nat) /\ Precedes(lock[d], g, h)
        BY <1>1, <2>2
      <3>3. CASE Asked(f)
        <4>1. lock'[d] = lock[d] \/ lock'[d] = Append(lock[d], f)
          BY <1>1, <3>3 DEF Asked
        <4>2. Precedes(Append(lock[d], f), g, h)
          BY <1>1, <3>2, PrecedesAppend
        <4>3. Precedes(lock'[d], g, h)
          BY <3>2, <4>1, <4>2
        <4>4. QED
          BY <4>3
      <3>4. CASE PassedOn(f)
        <4>1. \/ lock'[d] = lock[d]
              \/ lock'[d] = Tail(lock[d]) /\ lock[d] # <<>> /\ Head(lock[d]) = f
          <5>1. /\ lock' = [lock EXCEPT ![Next1(f)] = Tail(lock[Next1(f)])]
                /\ lock[Next1(f)] # <<>> /\ Head(lock[Next1(f)]) = f
            BY <3>4, HolderIsHead DEF PassedOn
          <5>2. CASE d = Next1(f)
            BY <1>1, <5>1, <5>2
          <5>3. CASE d # Next1(f)
            BY <1>1, <5>1, <5>3
          <5>4. QED
            BY <5>2, <5>3
        <4>2. lock[d] # <<>> /\ Head(lock[d]) = f => Precedes(Tail(lock[d]), g, h)
          BY <1>5, <3>2, PrecedesTail
        <4>3. Precedes(lock'[d], g, h)
          BY <3>2, <4>1, <4>2
        <4>4. QED
          BY <4>3
      <3>5. CASE lock' = lock
        BY <2>2, <3>5
      <3>6. QED
        BY <1>1, <3>3, <3>4, <3>5, Shapes DEF Begun, Served, Ended
    <2>3. QED
      BY <1>2, <1>5, <2>1, <2>2
  <1>6. CASE g = f
    <2>1. h # f /\ At(h) # "new" /\ calls[h].kind = "push"
      BY <1>1, <1>2, <1>6
    <2>2. ~Begun(f) /\ ~Ended(f)
      <3>1. ~Begun(f)
        BY <1>3, <1>6, <2>1 DEF Begun, TurnFine
      <3>2. ~Ended(f)
        BY <1>6 DEF Ended, Goes, UnderWay
      <3>3. QED
        BY <3>1, <3>2
    <2>3. f \in UnderWay
      BY <1>1, <2>2, Shapes DEF Asked, Served, PassedOn, UnderWay
    <2>4. /\ Left(f) <= Left(h)
          /\ Left(f) = Left(h) /\ Left(f) > 0 =>
                /\ At(f) \in Locking
                /\ At(h) \in Locking => Precedes(lock[Next1(h)], f, h)
      BY <1>1, <1>6, <2>1, <2>3 DEF Follows
    <2>5. CASE Asked(f)
      <3>1. Left(f)' = Left(f) /\ calls[f].todo # <<>> /\ At(f) \notin Locking
        BY <2>5 DEF Asked, Goes, Left, Locking
      <3>2. Left(f) > 0
        BY <1>3, <3>1, EmptySeq DEF Left
      <3>3. QED
        BY <1>2, <1>3, <1>6, <2>1, <2>4, <3>1, <3>2
    <2>6. CASE Served(f)
      <3>1. Left(f)' = Left(f) /\ At(f)' \in Locking /\ lock' = lock
        BY <2>6 DEF Served, Goes, Left, Locking
      <3>2. QED
        BY <1>2, <1>6, <2>1, <2>4, <3>1
    <2>7. CASE PassedOn(f)
      <3>1. calls[f].todo # <<>> /\ calls'[f].todo = Tail(calls[f].todo)
        BY <2>7, HolderIsHead DEF PassedOn, Goes
      <3>2. Left(f)' = Left(f) - 1
        BY <1>3, <3>1, HeadTailProperties DEF Left
      <3>3. QED
        BY <1>2, <1>3, <1>6, <2>1, <2>4, <3>2
    <2>8. QED
      BY <1>1, <2>2, <2>5, <2>6, <2>7, Shapes
  <1>7. CASE h = f
    <2>1. g # f /\ g \in UnderWay /\ At(g) \in Locking
      <3>1. g # f /\ g \in UnderWay
        BY <1>1, <1>2, <1>7
      <3>2. g # 0 /\ running # g
        <4>1. DOMAIN calls = 1..Len(calls)
          BY <1>1, CallKnown, LenProperties
        <4>2. QED
          BY <1>1, <3>1, <4>1, CallKnown, LenProperties DEF Alone
      <3>3. At(g) \notin {"loop", "write", "new", "done"} /\ At(g) \in Places
        BY <1>1, <1>3, <3>1, <3>2, CallKnown DEF TurnFine, UnderWay, CallSet, At
      <3>4. QED
        BY <3>1, <3>3 DEF Locking, Places
    <2>2. Left(g)' = Left(g) /\ At(g)' \in Locking /\ calls[f].kind = "push"
      BY <1>2, <1>4, <1>7, <2>1
    <2>3. At(f) # "new" =>
          /\ Left(g) <= Left(f)
          /\ Left(g) = Left(f) /\ Left(g) > 0 /\ At(f) \in Locking
                => Precedes(lock[Next1(f)], g, f)
      BY <1>1, <1>7, <2>1, <2>2 DEF Follows
    <2>4. CASE Begun(f)
      <3>1. calls'[f].todo = clients /\ At(f)' \notin Locking
        BY <2>2, <2>4 DEF Begun, Goes, Recipients, Locking
      <3>2. LastOf(calls[g].todo, clients)
        BY <1>3, <2>1 DEF Aligned
      <3>3. Left(g) <= Left(f)'
        BY <3>1, <3>2 DEF LastOf, Left
      <3>4. QED
        BY <1>7, <2>2, <3>1, <3>3
    <2>5. CASE Asked(f)
      <3>1. /\ Left(f)' = Left(f) /\ calls[f].todo # <<>> /\ At(f) \notin {"new", "done"}
            /\ Next1(f)' = Next1(f)
            /\ lock' = [lock EXCEPT ![Next1(f)] = Append(lock[Next1(f)], f)]
        BY <2>5 DEF Asked, Goes, Left, Next1
      <3>2. ASSUME Left(g) = Left(f), Left(g) > 0
            PROVE  Precedes(lock'[Next1(f)], g, f)
        <4>1. f \in UnderWay /\ f \notin disturbed
          <5>1. f \in UnderWay
            BY <3>1 DEF UnderWay
          <5>2. QED
            BY <1>3, <1>7, <2>1, <5>1 DEF TurnFine
        <4>2. LastOf(calls[g].todo, clients) /\ LastOf(calls[f].todo, clients)
          BY <1>3, <2>1, <4>1 DEF Aligned
        <4>3. calls[g].todo # <<>>
          BY <1>3, <3>2 DEF Left
        <4>4. Next1(g) = Next1(f) /\ Next1(f) \in Clients
          BY <1>1, <1>3, <3>1, <3>2, <4>2, <4>3, LastOfHeads DEF Left, Next1
        <4> PICK d \in Clients : d = Next1(f)
          BY <4>4
        <4>5. g \in ToSet(lock[d]) /\ lock[d] \in Seq(Nat)
          <5>1. LockFine(d)
            BY DEF OrderInv
          <5>2. QED
            BY <2>1, <4>4, <5>1 DEF LockFine
        <4>6. Precedes(Append(lock[d], f), g, f)
          BY <1>1, <4>5, PrecedesLast
        <4>7. lock'[d] = Append(lock[d], f)
          BY <1>1, <3>1
        <4>8. QED
          BY <4>6, <4>7
      <3>3. QED
        BY <1>7, <2>2, <2>3, <3>1, <3>2
    <2>6. CASE Served(f)
      <3>1. /\ Left(f)' = Left(f) /\ At(f) \in Locking /\ lock' = lock /\ At(f) # "new"
            /\ Next1(f)' = Next1(f)
        BY <2>6 DEF Served, Goes, Left, Locking, Next1
      <3>2. QED
        BY <1>7, <2>2, <2>3, <3>1
    <2>7. CASE PassedOn(f)
      <3>1. /\ calls[f].todo # <<>> /\ calls'[f].todo = Tail(calls[f].todo)
            /\ At(f) \in Locking /\ At(f) # "new" /\ At(f)' \notin Locking
            /\ lock[Next1(f)] \in Seq(Nat) /\ Once(lock[Next1(f)])
            /\ lock[Next1(f)] # <<>> /\ Head(lock[Next1(f)]) = f
        BY <2>7, HolderIsHead DEF PassedOn, Goes, Locking
      <3>2. Left(f)' = Left(f) - 1 /\ Left(f) > 0
        BY <1>3, <3>1, HeadTailProperties, EmptySeq DEF Left
      <3>3. ~Precedes(lock[Next1(f)], g, f)
        BY <3>1, HeadIsFirst
      <3>4. Left(g) # Left(f)
        BY <2>3, <3>1, <3>2, <3>3
      <3>5. Left(g) <= Left(f)'
        BY <1>3, <2>3, <3>1, <3>2, <3>4
      <3>6. QED
        BY <1>7, <2>2, <3>1, <3>5
    <2>8. CASE Ended(f)
      <3>1. Left(f)' = Left(f) /\ At(f) # "new" /\ At(f)' \notin Locking
        BY <2>8 DEF Ended, Goes, Left, Locking
      <3>2. QED
        BY <1>7, <2>2, <2>3, <3>1
    <2>9. QED
      BY <1>1, <2>4, <2>5, <2>6, <2>7, <2>8, Shapes
  <1>8. QED
    BY <1>5, <1>6, <1>7

\* A push that is written to a client has none behind it there.
LEMMA InOrderStays ==
  ASSUME OrderInv, NEW f \in DOMAIN calls, Handles(f)
  PROVE  InOrder'
  <1>1. /\ FanInv /\ Alone(f) /\ f \in Nat /\ disturbed' = disturbed /\ InOrder
        /\ got \in [Clients -> Seq(Nat)]
    BY Shapes, CallKnown DEF OrderInv, Alone
  <1>2. CASE got' = got
    BY <1>1, <1>2 DEF InOrder
  <1>3. CASE got' # got
    <2>1. /\ At(f) = "write" /\ calls[f].todo # <<>>
          /\ got' = [got EXCEPT ![Next1(f)] = Append(got[Next1(f)], f)]
      <3>1. Writes(f)
        BY <1>3 DEF Handles, Begins, AsksForLock, GetsLock, Drains, ToLibrary
      <3>2. At(f) = "write"
        BY <3>1 DEF Writes
      <3>3. QED
        BY <1>1, <1>3, <3>1, <3>2, CallKnown DEF Writes, CallFine
    <2>2. Next1(f) \in Clients /\ Next1(f) \in Ahead(f)
      BY <1>1, <2>1, CallKnown, TailOnce DEF Next1, Ahead
    <2> PICK d \in Clients : d = Next1(f)
      BY <2>2
    <2>3. ASSUME NEW g \in ToSet(got[d]), g > f, f \notin disturbed PROVE FALSE
      <3>1. g \in DOMAIN calls /\ SentFine(g, d) /\ CallFine(g) /\ Given(g, d)
            /\ Follows(f, g) /\ TurnFine(f) /\ TurnFine(g) /\ Aligned(f) /\ Aligned(g)
            /\ LockFine(d) /\ g \in Nat
        BY <1>1, CallKnown DEF OrderInv, Given
      <3>2. At(g) # "new" /\ calls[g].kind = "push"
        <4>1. d \in calls[g].audience
          BY <3>1 DEF SentFine
        <4>2. calls[g].kind \in Kinds
          BY <1>1, <3>1, CallKnown DEF CallSet
        <4>3. QED
          BY <3>1, <4>1, <4>2 DEF CallFine, TurnFine, Kinds
      <3>3. f \in UnderWay \ disturbed
        BY <2>1, <2>3 DEF UnderWay
      <3>4. /\ Left(f) <= Left(g)
            /\ Left(f) = Left(g) /\ Left(f) > 0 /\ At(g) \in Locking
                  => Precedes(lock[Next1(g)], f, g)
        BY <1>1, <2>3, <3>1, <3>2, <3>3 DEF Follows
      <3>5. /\ Left(f) \in Nat /\ Left(g) \in Nat /\ Left(f) > 0
            /\ calls[f].todo \in Seq(Clients) /\ calls[g].todo \in Seq(Clients)
            /\ clients \in Seq(Clients) /\ Once(clients)
        BY <1>1, <2>1, <3>1, CallKnown, LenProperties, EmptySeq
        DEF Left, FanInv, FanTypeOK
      <3>6. At(g) # "done" /\ calls[g].todo # <<>>
        BY <3>1, <3>4, <3>5 DEF CallFine, Left
      <3>7. g \in UnderWay \ disturbed
        <4>1. g \in UnderWay
          BY <3>1, <3>2, <3>6 DEF UnderWay
        <4>2. QED
          BY <1>1, <2>3, <3>1, <3>3, <4>1 DEF TurnFine
      <3>8. LastOf(calls[f].todo, clients) /\ LastOf(calls[g].todo, clients)
        BY <3>1, <3>3, <3>7 DEF Aligned
      <3>9. /\ d \in ToSet(calls[g].todo)
            /\ d = Head(calls[g].todo) => Left(f) = Left(g)
        BY <2>2, <3>4, <3>5, <3>8, LastOfAhead DEF Ahead, Left
      <3>10. At(g) = "drain" /\ Next1(g) = d
        BY <3>1, <3>9 DEF SentFine, Ahead
      <3>11. Left(f) = Left(g)
        BY <3>9, <3>10 DEF Next1
      <3>12. Precedes(lock[d], f, g)
        BY <3>4, <3>5, <3>10, <3>11 DEF Locking
      <3>13. lock[d] \in Seq(Nat) /\ Once(lock[d]) /\ Head(lock[d]) = g /\ lock[d] # <<>>
        <4>1. g \in ToSet(lock[d])
          BY <3>1, <3>10 DEF LockFine, Locking
        <4>2. QED
          BY <3>1, <3>10, <4>1 DEF LockFine, ToSet
      <3>14. QED
        BY <3>12, <3>13, HeadIsFirst
    <2>4. /\ got'[d] = Append(got[d], f) /\ got[d] \in Seq(Nat) /\ Len(got[d]) \in Nat
          /\ \A c \in Clients : c # d => got'[c] = got[c]
      BY <1>1, <2>1, LenProperties
    <2>5. /\ DOMAIN got[d] = 1..Len(got[d]) /\ DOMAIN got'[d] = 1..(Len(got[d]) + 1)
          /\ got'[d][Len(got[d]) + 1] = f
          /\ \A i \in 1..Len(got[d]) : got'[d][i] = got[d][i]
      BY <1>1, <2>4, AppendProperties, LenProperties
    <2>6. ASSUME NEW i \in DOMAIN got'[d], NEW j \in DOMAIN got'[d], i < j,
                 got'[d][i] > got'[d][j]
          PROVE  got'[d][j] \in disturbed
      <3>1. i \in DOMAIN got[d] /\ got'[d][i] = got[d][i]
        BY <2>4, <2>5, <2>6
      <3>2. CASE j = Len(got[d]) + 1
        <4>1. got[d][i] \in ToSet(got[d])
          BY <3>1 DEF ToSet
        <4>2. QED
          BY <2>3, <2>5, <2>6, <3>1, <3>2, <4>1
      <3>3. CASE j # Len(got[d]) + 1
        <4>1. j \in DOMAIN got[d] /\ got'[d][j] = got[d][j]
          BY <2>4, <2>5, <2>6, <3>3
        <4>2. QED
          BY <1>1, <2>6, <3>1, <4>1 DEF InOrder
      <3>4. QED
        BY <3>2, <3>3
    <2>7. ASSUME NEW c \in Clients, c # d
          PROVE  \A i, j \in DOMAIN got'[c] :
                    i < j /\ got'[c][i] > got'[c][j] => got'[c][j] \in disturbed
      BY <1>1, <2>4, <2>7 DEF InOrder
    <2>8. QED
      BY <1>1, <2>6, <2>7 DEF InOrder
  <1>4. QED
    BY <1>2, <1>3

-----------------------------------------------------------------------------
(* The whole system keeps the order.                                       *)

LEMMA OrderInit == FanoutInit => OrderInv
  <1> SUFFICES ASSUME FanoutInit PROVE OrderInv
    OBVIOUS
  <1>1. /\ FanInv /\ DOMAIN calls = {} /\ disturbed = {}
        /\ lock = [c \in Clients |-> <<>>] /\ got = [c \in Clients |-> <<>>]
    BY FanInitInv DEF FanoutInit
  <1>2. InOrder /\ \A c \in Clients : LockFine(c)
    BY <1>1 DEF InOrder, LockFine, Once, ToSet
  <1>3. QED
    BY <1>1, <1>2 DEF OrderInv

\* Clients come and go: whatever is under way counts as disturbed.
LEMMA OrderComings ==
  ASSUME OrderInv, FanInv', UNCHANGED <<lock, got, calls, running>>,
         disturbed' = disturbed \cup UnderWay \/ UNCHANGED <<disturbed, clients>>
  PROVE  OrderInv'
  <1>1. \A f \in DOMAIN calls :
            At(f)' = At(f) /\ Next1(f)' = Next1(f) /\ Left(f)' = Left(f)
    BY DEF At, Next1, Left
  <1>2. UnderWay' = UnderWay
    BY DEF UnderWay, At
  <1>3. disturbed \subseteq disturbed' /\ disturbed' \subseteq DOMAIN calls
    BY DEF OrderInv, UnderWay
  <1>4. InOrder' /\ \A c \in Clients : LockFine(c)'
    BY <1>1, <1>3 DEF OrderInv, InOrder, LockFine, Once
  <1>5. ASSUME NEW f \in DOMAIN calls PROVE TurnFine(f)' /\ Aligned(f)'
    <2>1. TurnFine(f) /\ Aligned(f) /\ (At(f) = "new" => f \notin UnderWay)
      BY DEF OrderInv, UnderWay
    <2>2. QED
      BY <1>1, <1>2, <2>1 DEF TurnFine, Aligned, LastOf
  <1>6. ASSUME NEW f \in DOMAIN calls, NEW g \in DOMAIN calls PROVE Follows(f, g)'
    <2>1. Follows(f, g)
      BY DEF OrderInv
    <2>2. QED
      BY <1>1, <1>2, <1>3, <2>1 DEF Follows
  <1>7. QED
    BY <1>3, <1>4, <1>5, <1>6 DEF OrderInv

LEMMA OrderEmits ==
  ASSUME OrderInv, FanInv', NEW kind \in Kinds, NodeEmits(kind)
  PROVE  OrderInv'
  <1> DEFINE r == [kind |-> kind, at |-> "new", todo |-> <<>>, audience |-> {}]
  <1>1. /\ calls \in Seq(CallSet) /\ calls' = Append(calls, r) /\ r.at = "new"
        /\ UNCHANGED <<clients, lock, got, running, disturbed>>
    BY DEF OrderInv, FanInv, FanTypeOK, NodeEmits, peers
  <1> HIDE DEF r
  <1> PICK n \in Nat : n = Len(calls)
    BY <1>1, LenProperties
  <1>2. /\ DOMAIN calls = 1..n /\ DOMAIN calls' = 1..(n + 1) /\ calls'[n + 1] = r
        /\ \A f \in 1..n : calls'[f] = calls[f]
    BY <1>1, AppendProperties, LenProperties
  <1>3. \A f \in 1..n :
            /\ At(f)' = At(f) /\ Next1(f)' = Next1(f) /\ Left(f)' = Left(f)
            /\ (f \in UnderWay' <=> f \in UnderWay)
    BY <1>2 DEF At, Next1, Left, UnderWay
  <1>4. At(n + 1)' = "new" /\ n + 1 \notin UnderWay' /\ n + 1 \notin disturbed
    BY <1>1, <1>2 DEF At, UnderWay, OrderInv
  <1>5. InOrder'
    BY <1>1 DEF OrderInv, InOrder
  <1>6. ASSUME NEW c \in Clients PROVE LockFine(c)'
    <2>1. LockFine(c)
      BY DEF OrderInv
    <2>2. n + 1 \notin ToSet(lock[c])
      BY <1>2, <2>1 DEF LockFine
    <2>3. ASSUME NEW f \in DOMAIN calls'
          PROVE  /\ f \in ToSet(lock[c]) <=> At(f)' \in Locking /\ Next1(f)' = c
                 /\ At(f)' \in {"write", "drain"} /\ Next1(f)' = c => Head(lock[c]) = f
      <3>1. CASE f = n + 1
        BY <1>4, <2>2, <3>1 DEF Locking
      <3>2. CASE f # n + 1
        <4>1. f \in DOMAIN calls /\ f \in 1..n
          BY <1>2, <3>2
        <4>2. QED
          BY <1>3, <2>1, <4>1 DEF LockFine
      <3>3. QED
        BY <3>1, <3>2
    <2>4. \A f \in ToSet(lock[c]) : f \in DOMAIN calls'
      BY <1>2, <2>1 DEF LockFine
    <2>5. QED
      BY <1>1, <2>1, <2>3, <2>4 DEF LockFine, Once
  <1>7. ASSUME NEW f \in 1..n PROVE TurnFine(f)' /\ Aligned(f)'
    <2>1. TurnFine(f) /\ Aligned(f)
      BY <1>2 DEF OrderInv
    <2>2. Aligned(f)'
      BY <1>1, <1>2, <1>3, <2>1 DEF Aligned, LastOf
    <2>3. ASSUME NEW g \in DOMAIN calls', f < g
          PROVE  /\ At(f)' = "new" => At(g)' = "new"
                 /\ f \in UnderWay' /\ g \in UnderWay' /\ g \in disturbed => f \in disturbed
      <3>1. CASE g = n + 1
        BY <1>4, <3>1
      <3>2. CASE g # n + 1
        <4>1. g \in 1..n /\ g \in DOMAIN calls
          BY <1>2, <3>2
        <4>2. QED
          BY <1>3, <2>1, <2>3, <4>1 DEF TurnFine
      <3>3. QED
        BY <3>1, <3>2
    <2>4. TurnFine(f)'
      BY <1>1, <1>2, <1>3, <2>1, <2>3 DEF TurnFine
    <2>5. QED
      BY <2>2, <2>4
  <1>8. TurnFine(n + 1)' /\ Aligned(n + 1)'
    <2>1. \A g \in DOMAIN calls' : ~(n + 1 < g)
      BY <1>2
    <2>2. QED
      BY <1>1, <1>4, <2>1 DEF TurnFine, Aligned
  <1>9. ASSUME NEW f \in DOMAIN calls', NEW g \in DOMAIN calls' PROVE Follows(f, g)'
    <2>1. CASE f = n + 1 \/ g = n + 1
      BY <1>4, <2>1 DEF Follows
    <2>2. CASE f # n + 1 /\ g # n + 1
      <3>1. f \in 1..n /\ g \in 1..n /\ Follows(f, g)
        BY <1>2, <2>2 DEF OrderInv
      <3>2. QED
        BY <1>1, <1>2, <1>3, <3>1 DEF Follows
    <2>3. QED
      BY <2>1, <2>2
  <1>10. ASSUME NEW f \in DOMAIN calls' PROVE TurnFine(f)' /\ Aligned(f)'
    <2>1. f = n + 1 \/ f \in 1..n
      BY <1>2
    <2>2. QED
      BY <1>7, <1>8, <2>1
  <1>11. lock' \in [Clients -> Seq(Nat)] /\ disturbed' \subseteq DOMAIN calls'
    BY <1>1, <1>2 DEF OrderInv
  <1>12. QED
    BY <1>5, <1>6, <1>9, <1>10, <1>11 DEF OrderInv

LEMMA OrderStep == OrderInv /\ [FanoutNext]_fanVars => OrderInv'
  <1> SUFFICES ASSUME OrderInv, [FanoutNext]_fanVars PROVE OrderInv'
    OBVIOUS
  <1>1. FanInv'
    BY FanStepInv DEF OrderInv
  <1>2. ASSUME NEW c \in Clients, Connects(c) \/ Leaves(c) \/ Dies(c) \/ Reads(c)
        PROVE  OrderInv'
    BY <1>1, <1>2, OrderComings DEF Connects, Leaves, Dies, Reads, peers
  <1>3. ASSUME NEW f \in DOMAIN calls, Handles(f) PROVE OrderInv'
    <2>1. /\ DOMAIN calls' = DOMAIN calls /\ disturbed' = disturbed
      BY <1>3, Shapes DEF OrderInv, Alone
    <2>2. /\ InOrder' /\ lock' \in [Clients -> Seq(Nat)] /\ \A c \in Clients : LockFine(c)'
          /\ \A g \in DOMAIN calls : TurnFine(g)'
      BY <1>3, InOrderStays, LocksStay, TurnsStay
    <2>3. \A g \in DOMAIN calls : Aligned(g)'
      BY <1>3, AlignedStays
    <2>4. \A g, h \in DOMAIN calls : Follows(g, h)'
      BY <1>3, FollowsStays
    <2>5. disturbed' \subseteq DOMAIN calls'
      BY <2>1 DEF OrderInv
    <2>6. QED
      BY <1>1, <2>1, <2>2, <2>3, <2>4, <2>5 DEF OrderInv
  <1>4. CASE UNCHANGED fanVars
    BY <1>1, <1>4, OrderComings DEF fanVars
  <1>5. QED
    BY <1>1, <1>2, <1>3, <1>4, OrderEmits DEF FanoutNext

\* Pushes reach a client in the order of the node, however many broadcasts are held up
\* at whichever clients: one overtakes another only if a client came or went during the
\* one that is overtaken (_on_device_frame iterates a copy of _clients, _write_lock).
THEOREM PushesInOrder == FanoutSpec => []InOrder
  <1>1. OrderInv => InOrder
    BY DEF OrderInv
  <1>2. QED
    BY <1>1, OrderInit, OrderStep, PTL DEF FanoutSpec

-----------------------------------------------------------------------------
(* The fan-out implements the mailboxes of PushMail.                       *)

\* Who is in the client set has connected, and the library has what is done with.
MailInv ==
  /\ OrderInv
  /\ ToSet(clients) \subseteq met /\ DOMAIN calls \subseteq Frames
  /\ lib \in Seq(Nat) /\ \A f \in ToSet(lib) : f \in DOMAIN calls /\ At(f) = "done"

Pushes == {f \in DOMAIN calls : calls[f].kind = "push"}

\* An injection of 1..n into a set of n elements leaves none out.
LEMMA ConnectsAdds ==
  ASSUME FanTypeOK, NEW c \in Clients, Connects(c)
  PROVE  ToSet(clients') = ToSet(clients) \cup {c}
  <1> DEFINE all == ToSet(clients) \cup {c}
             n == Cardinality(all)
  <1>1. IsFiniteSet(all) /\ n \in Nat
    BY FS_AddElement, FS_CardinalityType DEF FanTypeOK
  <1>2. clients' \in [1..n -> all] /\ \A i, j \in 1..n : i # j => clients'[i] # clients'[j]
    BY DEF Connects, SetToSeqs
  <1>3. IsFiniteSet(1..n) /\ Cardinality(1..n) = n
    BY <1>1, FS_Interval
  <1> HIDE DEF all
  <1>4. clients' \in Injection(1..n, all)
    BY <1>2 DEF Injection, IsInjective
  <1>5. clients' \in Surjection(1..n, all)
    BY <1>1, <1>3, <1>4, FS_Injection
  <1>6. DOMAIN clients' = 1..n /\ \A x \in all : \E i \in 1..n : clients'[i] = x
    BY <1>5 DEF Surjection
  <1>7. ToSet(clients') = all
    BY <1>2, <1>6 DEF ToSet
  <1>8. QED
    BY <1>7 DEF all

LEMMA LeavesRemoves ==
  ASSUME FanTypeOK, NEW c \in Clients, Leaves(c)
  PROVE  c \in ToSet(clients) /\ ToSet(clients') = ToSet(clients) \ {c}
  <1>1. PICK i \in DOMAIN clients : clients[i] = c /\ clients' = RemoveAt(clients, i)
    BY DEF Leaves
  <1> DEFINE n == Len(clients)
             front == SubSeq(clients, 1, i - 1)
             back == SubSeq(clients, i + 1, n)
  <1>2. /\ clients \in Seq(Clients) /\ Once(clients) /\ n \in Nat /\ i \in 1..n
        /\ DOMAIN clients = 1..n
    BY LenProperties DEF FanTypeOK
  <1>3. /\ front \in Seq(Clients) /\ Len(front) = i - 1
        /\ \A k \in 1..(i - 1) : front[k] = clients[k]
    BY <1>2
  <1>4. /\ back \in Seq(Clients) /\ Len(back) = n - i
        /\ \A k \in 1..(n - i) : back[k] = clients[i + k]
    BY <1>2
  <1>5. clients' = front \o back
    BY <1>1 DEF RemoveAt
  <1> HIDE DEF n, front, back
  <1>6. /\ clients' \in Seq(Clients) /\ Len(clients') = n - 1
        /\ \A k \in 1..(n - 1) :
              clients'[k] = IF k < i THEN clients[k] ELSE clients[k + 1]
    <2>1. /\ clients' \in Seq(Clients) /\ Len(clients') = Len(front) + Len(back)
          /\ \A k \in 1..(Len(front) + Len(back)) :
                clients'[k] = IF k <= Len(front) THEN front[k] ELSE back[k - Len(front)]
      BY <1>3, <1>4, <1>5, ConcatProperties
    <2>2. Len(front) + Len(back) = n - 1
      BY <1>2, <1>3, <1>4
    <2>3. ASSUME NEW k \in 1..(n - 1)
          PROVE  clients'[k] = IF k < i THEN clients[k] ELSE clients[k + 1]
      <3>1. CASE k < i
        BY <1>2, <1>3, <2>1, <2>2, <3>1
      <3>2. CASE ~(k < i)
        <4>1. k - (i - 1) \in 1..(n - i) /\ i + (k - (i - 1)) = k + 1
          BY <1>2, <3>2
        <4>2. clients'[k] = back[k - (i - 1)]
          BY <1>2, <1>3, <2>1, <2>2, <3>2
        <4>3. QED
          BY <1>4, <3>2, <4>1, <4>2
      <3>3. QED
        BY <3>1, <3>2
    <2>4. QED
      BY <2>1, <2>2, <2>3
  <1>7. DOMAIN clients' = 1..(n - 1)
    BY <1>2, <1>6
  <1>8. c \in ToSet(clients)
    BY <1>1 DEF ToSet
  <1>9. ASSUME NEW x \in ToSet(clients') PROVE x \in ToSet(clients) \ {c}
    <2>1. PICK k \in 1..(n - 1) : x = clients'[k]
      BY <1>7 DEF ToSet
    <2>2. \E m \in 1..n : m # i /\ x = clients[m]
      <3>1. CASE k < i
        BY <1>2, <1>6, <2>1, <3>1
      <3>2. CASE ~(k < i)
        <4>1. k + 1 \in 1..n /\ k + 1 # i /\ x = clients[k + 1]
          BY <1>2, <1>6, <2>1, <3>2
        <4>2. QED
          BY <4>1
      <3>3. QED
        BY <3>1, <3>2
    <2>3. QED
      BY <1>1, <1>2, <2>2 DEF ToSet, Once
  <1>10. ASSUME NEW x \in ToSet(clients), x # c PROVE x \in ToSet(clients')
    <2>1. PICK m \in 1..n : x = clients[m]
      BY <1>2 DEF ToSet
    <2>2. m # i
      BY <1>1, <1>10, <2>1
    <2>3. CASE m < i
      <3>1. m \in 1..(n - 1) /\ clients'[m] = x
        BY <1>2, <1>6, <2>1, <2>3
      <3>2. QED
        BY <1>7, <3>1 DEF ToSet
    <2>4. CASE ~(m < i)
      <3>1. m - 1 \in 1..(n - 1) /\ ~(m - 1 < i) /\ (m - 1) + 1 = m
        BY <1>2, <2>2, <2>4
      <3>2. clients'[m - 1] = x
        BY <1>6, <2>1, <3>1
      <3>3. QED
        BY <1>7, <3>1, <3>2 DEF ToSet
    <2>5. QED
      BY <2>3, <2>4
  <1>11. QED
    BY <1>8, <1>9, <1>10

\* What is known of a call and of what it owes.
LEMMA OwedIs ==
  ASSUME FanInv, NEW f \in DOMAIN calls, NEW c \in Clients
  PROVE  /\ f \in Owed[c] <=> c \in Ahead(f) /\ ~Given(f, c)
         /\ At(f) \in {"new", "done"} => f \notin Owed[c] /\ (At(f) = "new" => ~Given(f, c))
         /\ f \in Owed[c] => f \in UnderWay
  <1>1. f \in Owed[c] <=> c \in Ahead(f) /\ ~Given(f, c)
    BY DEF Owed, Ahead, Given
  <1>2. /\ Ahead(f) \subseteq calls[f].audience /\ (At(f) = "new" => calls[f].audience = {})
        /\ (At(f) = "done" => calls[f].todo = <<>>) /\ (Given(f, c) => c \in calls[f].audience)
    BY CallKnown DEF CallFine, SentFine
  <1>3. At(f) = "done" => Ahead(f) = {}
    BY <1>2 DEF Ahead, ToSet
  <1>4. At(f) \notin {"new", "done"} => f \in UnderWay
    BY DEF UnderWay
  <1>5. QED
    BY <1>1, <1>2, <1>3, <1>4

\* Calls that owe the same to everybody.
LEMMA OwedSame ==
  ASSUME DOMAIN calls' = DOMAIN calls,
         \A f \in DOMAIN calls : \A c \in Clients :
            (c \in Ahead(f)' /\ ~Given(f, c)') <=> (c \in Ahead(f) /\ ~Given(f, c))
  PROVE  Owed' = Owed
  BY DEF Owed, Ahead, Given

-----------------------------------------------------------------------------
(* What the steps of handle_rx are to the mailboxes.                       *)

\* The kinds of the frames stay.
LEMMA KindsStay ==
  ASSUME FanInv, NEW f \in DOMAIN calls, Handles(f)
  PROVE  Pushes' = Pushes /\ UNCHANGED <<clients, dead, met, disturbed>>
  <1>1. /\ DOMAIN calls' = DOMAIN calls /\ calls'[f].kind = calls[f].kind
        /\ \A g \in DOMAIN calls : g # f => calls'[g] = calls[g]
    BY Shapes DEF Alone, Begun, Asked, Served, PassedOn, Ended, Goes
  <1>2. UNCHANGED <<clients, dead, met, disturbed>>
    BY DEF Handles, Begins, AsksForLock, GetsLock, Writes, Drains, ToLibrary, peers
  <1>3. QED
    BY <1>1, <1>2 DEF Pushes

\* A call that stays under way.
LEMMA WayStays ==
  ASSUME FanInv, NEW f \in DOMAIN calls, Alone(f),
         At(f) \notin {"new", "done"}, At(f)' \notin {"new", "done"}
  PROVE  UnderWay' = UnderWay
  BY DEF Alone, UnderWay, At

LEMMA BeginsPosts ==
  ASSUME MailInv, NEW f \in DOMAIN calls, Begins(f)
  PROVE  Mail!Post(f)
  <1>1. /\ FanInv /\ Handles(f) /\ f \in Nat /\ calls[f] \in CallSet
        /\ \A g \in DOMAIN calls : TurnFine(g) /\ g \in Nat
    BY CallKnown DEF MailInv, OrderInv, Handles
  <1>2. /\ Alone(f) /\ At(f) = "new" /\ Goes(f, "loop", Recipients(calls[f].kind))
        /\ UNCHANGED <<got, lib>>
    BY <1>1, Shapes, BeginsGoes DEF Begins
  <1>3. ASSUME NEW g \in UnderWay \cup ToSet(lib) PROVE g < f
    <2>1. g \in DOMAIN calls /\ At(g) # "new" /\ g # f
      BY <1>2, <1>3 DEF UnderWay, MailInv
    <2>2. QED
      BY <1>1, <1>2, <2>1 DEF TurnFine
  <1>4. UnderWay' = UnderWay \cup {f}
    BY <1>2 DEF Alone, Goes, UnderWay, At
  <1>5. Ahead(f)' = IF f \in Pushes THEN ToSet(clients) ELSE {}
    BY <1>1, <1>2 DEF Goes, Ahead, Recipients, Pushes, ToSet, CallSet, Kinds
  <1>6. ASSUME NEW c \in Clients
        PROVE  Owed'[c] = IF f \in Pushes /\ c \in ToSet(clients) THEN Owed[c] \cup {f} ELSE Owed[c]
    <2>1. ASSUME NEW g \in DOMAIN calls, g # f PROVE g \in Owed'[c] <=> g \in Owed[c]
      BY <1>2, <2>1 DEF Owed, Alone
    <2>2. f \notin Owed[c] /\ ~Given(f, c)
      BY <1>1, <1>2, OwedIs
    <2>3. f \in Owed'[c] <=> f \in Pushes /\ c \in ToSet(clients)
      BY <1>2, <1>5, <2>2 DEF Owed, Ahead, Given, Alone
    <2>4. Owed[c] \subseteq DOMAIN calls /\ Owed'[c] \subseteq DOMAIN calls
      BY <1>2 DEF Owed, Alone
    <2>5. QED
      BY <2>1, <2>2, <2>3, <2>4
  <1>7. Owed' = [c \in Clients |-> IF f \in Pushes /\ c \in ToSet(clients) THEN Owed[c] \cup {f}
                                   ELSE Owed[c]]
    BY <1>6 DEF Owed
  <1>8. UNCHANGED <<clients, dead, disturbed>> /\ Pushes' = Pushes
    BY <1>1, KindsStay
  <1>9. QED
    BY <1>2, <1>3, <1>4, <1>7, <1>8 DEF Mail!Post, Pushes, ToSet, Mail!ToSet

LEMMA ToLibraryPasses ==
  ASSUME MailInv, NEW f \in DOMAIN calls, ToLibrary(f)
  PROVE  Mail!PassOn(f)
  <1>1. FanInv /\ Handles(f)
    BY DEF MailInv, OrderInv, Handles
  <1>2. /\ At(f) = "loop" /\ calls[f].todo = <<>> /\ Moves(f, "done")
        /\ lib' = Append(lib, f) /\ UNCHANGED got
    BY DEF ToLibrary
  <1>3. Alone(f) /\ Goes(f, "done", calls[f].todo)
    BY <1>1, <1>2, Shapes, MovesGoes
  <1>4. f \in UnderWay /\ UnderWay' = UnderWay \ {f}
    BY <1>2, <1>3 DEF Alone, Goes, UnderWay, At
  <1>5. \A c \in Clients : f \notin Owed[c]
    BY <1>2 DEF Owed, ToSet
  <1>6. Owed' = Owed
    BY <1>2, <1>3, OwedSame DEF Alone, Goes, Ahead, Given
  <1>7. UNCHANGED <<clients, dead, disturbed>> /\ Pushes' = Pushes
    BY <1>1, KindsStay
  <1>8. QED
    BY <1>2, <1>4, <1>5, <1>6, <1>7 DEF Mail!PassOn, Pushes

\* What the loop has behind it, or waits for, changes nothing.
LEMMA WaitsAreHidden ==
  ASSUME MailInv, NEW f \in DOMAIN calls, AsksForLock(f) \/ GetsLock(f) \/ Drains(f)
  PROVE  UNCHANGED Mail!mailVars
  <1>1. FanInv /\ Handles(f)
    BY DEF MailInv, OrderInv, Handles
  <1>2. UNCHANGED <<got, lib>>
    BY DEF AsksForLock, GetsLock, Drains
  <1>3. /\ Alone(f) /\ At(f) \in {"loop", "lock", "drain"} /\ At(f)' \notin {"new", "done"}
        /\ \/ calls'[f].todo = calls[f].todo
           \/ At(f) = "drain" /\ calls'[f].todo = Tail(calls[f].todo)
    <2>1. CASE AsksForLock(f)
      <3>1. \E p \in {"lock", "write"} : Moves(f, p)
        BY <2>1 DEF AsksForLock
      <3>2. QED
        BY <1>1, <2>1, <3>1, Shapes, MovesGoes DEF AsksForLock, Goes
    <2>2. CASE GetsLock(f)
      BY <1>1, <2>2, Shapes, MovesGoes DEF GetsLock, Goes
    <2>3. CASE Drains(f)
      BY <1>1, <2>3, Shapes, LeavesGoes DEF Drains, AfterFailure, Goes
    <2>4. QED
      BY <2>1, <2>2, <2>3
  <1>4. UnderWay' = UnderWay
    BY <1>1, <1>3, WayStays
  <1>5. \A c \in Clients : (c \in Ahead(f)' /\ ~Given(f, c)) <=> (c \in Ahead(f) /\ ~Given(f, c))
    <2>1. CASE calls'[f].todo = calls[f].todo
      BY <2>1 DEF Ahead
    <2>2. CASE At(f) = "drain" /\ calls'[f].todo = Tail(calls[f].todo)
      <3>1. calls[f].todo # <<>> /\ Given(f, Next1(f))
        BY <1>1, <2>2, CallKnown DEF CallFine
      <3>2. Ahead(f)' = Ahead(f) \ {Next1(f)}
        BY <1>1, <2>2, <3>1, CallKnown, TailOnce DEF Ahead, Next1
      <3>3. QED
        BY <3>1, <3>2
    <2>3. QED
      BY <1>3, <2>1, <2>2
  <1>6. Owed' = Owed
    <2>1. DOMAIN calls' = DOMAIN calls /\ \A g \in DOMAIN calls : g # f => calls'[g] = calls[g]
      BY <1>3 DEF Alone
    <2>2. \A g \in DOMAIN calls : \A c \in Clients : Given(g, c)' <=> Given(g, c)
      BY <1>2 DEF Given
    <2>3. \A g \in DOMAIN calls : g # f => Ahead(g)' = Ahead(g)
      BY <2>1 DEF Ahead
    <2>4. QED
      BY <1>5, <2>1, <2>2, <2>3, OwedSame
  <1>7. UNCHANGED <<clients, dead, disturbed>> /\ Pushes' = Pushes
    BY <1>1, KindsStay
  <1>8. QED
    BY <1>2, <1>4, <1>6, <1>7 DEF Mail!mailVars, Pushes

\* The one that writes to a client comes first of all he is owed in turn.
LEMMA WriterIsFirst ==
  ASSUME OrderInv, NEW f \in DOMAIN calls, At(f) = "write"
  PROVE  /\ Next1(f) \in Clients /\ f \in Owed[Next1(f)] /\ f \in UnderWay
         /\ \A g \in Owed[Next1(f)] \ disturbed : f <= g
  <1>1. /\ FanInv /\ CallFine(f) /\ calls[f].todo \in Seq(Clients) /\ calls[f].todo # <<>>
        /\ f \in Nat /\ f \in UnderWay
    BY CallKnown DEF OrderInv, CallFine, UnderWay
  <1>2. Next1(f) \in Clients /\ Next1(f) \in Ahead(f)
    BY <1>1, TailOnce DEF Next1, Ahead, CallFine
  <1> PICK d \in Clients : d = Next1(f)
    BY <1>2
  <1>3. f \in Owed[d]
    BY <1>1, <1>2, OwedIs, CallKnown DEF SentFine
  <1>4. ASSUME NEW g \in Owed[d], g \notin disturbed, g < f PROVE FALSE
    <2>1. g \in DOMAIN calls
      BY DEF Owed
    <2>2. /\ g \in UnderWay /\ d \in Ahead(g) /\ calls[g].todo \in Seq(Clients)
          /\ TurnFine(f) /\ TurnFine(g) /\ Aligned(f) /\ Aligned(g) /\ Follows(g, f)
          /\ LockFine(d)
      BY <1>1, <2>1, OwedIs, CallKnown DEF OrderInv
    <2>3. calls[f].kind = "push"
      <3>1. calls[f].audience # {} /\ calls[f].kind \in Kinds
        BY <1>1, <1>2, CallKnown DEF CallFine, CallSet
      <3>2. QED
        BY <2>2, <3>1 DEF TurnFine, Kinds
    <2>4. f \notin disturbed
      BY <1>1, <1>4, <2>2 DEF TurnFine
    <2>5. LastOf(calls[f].todo, clients) /\ LastOf(calls[g].todo, clients)
      BY <1>1, <1>4, <2>2, <2>4 DEF Aligned
    <2>6. /\ Left(g) <= Left(f)
          /\ Left(g) = Left(f) /\ Left(g) > 0 => Precedes(lock[d], g, f)
      BY <1>4, <2>2, <2>3 DEF Follows, Locking
    <2>7. Left(g) = Left(f)
      <3>1. clients \in Seq(Clients) /\ Once(clients)
        BY <1>1 DEF FanInv, FanTypeOK
      <3>2. QED
        BY <1>1, <2>2, <2>5, <2>6, <3>1, LastOfAhead DEF Ahead, Left, Next1
    <2>8. Left(f) > 0
      BY <1>1, EmptySeq, LenProperties DEF Left
    <2>9. lock[d] \in Seq(Nat) /\ Once(lock[d]) /\ Head(lock[d]) = f /\ lock[d] # <<>>
      <3>1. f \in ToSet(lock[d])
        BY <2>2 DEF LockFine, Locking
      <3>2. QED
        BY <2>2, <3>1 DEF LockFine, ToSet
    <2>10. QED
      BY <2>6, <2>7, <2>8, <2>9, HeadIsFirst
  <1>5. \A g \in Owed[d] \ disturbed : f <= g
    <2>1. \A g \in Owed[d] : g \in Nat
      BY <1>1, CallKnown DEF Owed
    <2>2. QED
      BY <1>1, <1>4, <2>1
  <1>6. QED
    BY <1>1, <1>3, <1>5

\* Nobody but the client of a write is owed less by it.
LEMMA OwedLess ==
  ASSUME FanInv, NEW f \in DOMAIN calls, NEW d \in Clients, Alone(f),
         \A c \in Clients : c # d => (c \in Ahead(f)' <=> c \in Ahead(f)),
         \A c \in Clients, g \in DOMAIN calls : c # d \/ g # f => (Given(g, c)' <=> Given(g, c)),
         d \notin Ahead(f)' \/ Given(f, d)'
  PROVE  Owed' = [Owed EXCEPT ![d] = Owed[d] \ {f}]
  <1>1. DOMAIN calls' = DOMAIN calls /\ \A g \in DOMAIN calls : g # f => Ahead(g)' = Ahead(g)
    BY DEF Alone, Ahead
  <1>2. \A c \in Clients :
            /\ Owed[c] = {g \in DOMAIN calls : c \in Ahead(g) /\ ~Given(g, c)}
            /\ Owed'[c] = {g \in DOMAIN calls' : c \in Ahead(g)' /\ ~Given(g, c)'}
    BY DEF Owed, Ahead, Given
  <1>3. \A c \in Clients : Owed'[c] = IF c = d THEN Owed[d] \ {f} ELSE Owed[c]
    <2>1. ASSUME NEW c \in Clients, c # d PROVE Owed'[c] = Owed[c]
      BY <1>1, <1>2, <2>1
    <2>2. Owed'[d] = Owed[d] \ {f}
      BY <1>1, <1>2
    <2>3. QED
      BY <2>1, <2>2
  <1>4. QED
    BY <1>3 DEF Owed

LEMMA WritesGive ==
  ASSUME MailInv, NEW f \in DOMAIN calls, Writes(f)
  PROVE  \E c \in Clients : Mail!Give(c, f) \/ Mail!Miss(c, f)
  <1>1. /\ OrderInv /\ FanInv /\ Handles(f) /\ At(f) = "write" /\ UNCHANGED lib
        /\ f \in Nat /\ got \in [Clients -> Seq(Nat)] /\ Once(calls[f].todo)
        /\ calls[f].todo \in Seq(Clients) /\ calls[f].todo # <<>>
    BY CallKnown DEF MailInv, OrderInv, Handles, Writes, CallFine
  <1> PICK d \in Clients : d = Next1(f)
    BY <1>1, WriterIsFirst
  <1>2. f \in Owed[d] /\ \A g \in Owed[d] \ disturbed : f <= g
    BY <1>1, WriterIsFirst
  <1>3. Alone(f) /\ UNCHANGED <<clients, dead, disturbed>> /\ Pushes' = Pushes
    BY <1>1, Shapes, KindsStay
  <1>4. /\ At(f)' \in {"loop", "drain"}
        /\ \/ calls'[f].todo = calls[f].todo /\ d \notin dead
           \/ calls'[f].todo = Tail(calls[f].todo)
        /\ d \in dead => UNCHANGED got
        /\ d \notin dead => got' = [got EXCEPT ![d] = Append(got[d], f)]
    <2>1. CASE d \in dead
      BY <1>1, <2>1, LeavesGoes DEF Writes, AfterFailure, Goes
    <2>2. CASE d \notin dead
      <3>1. /\ Moves(f, "drain") \/ LeavesClient(f, Tail(calls[f].todo))
            /\ got' = [got EXCEPT ![d] = Append(got[d], f)]
        BY <2>2 DEF Writes
      <3>2. QED
        BY <1>1, <2>2, <3>1, MovesGoes, LeavesGoes DEF Goes
    <2>3. QED
      BY <2>1, <2>2
  <1>5. UnderWay' = UnderWay
    BY <1>1, <1>3, <1>4, WayStays
  <1>6. /\ ToSet(Tail(calls[f].todo)) = Ahead(f) \ {d}
        /\ Ahead(f)' = Ahead(f) \/ Ahead(f)' = Ahead(f) \ {d}
        /\ d \in dead => d \notin Ahead(f)'
    <2>1. ToSet(Tail(calls[f].todo)) = Ahead(f) \ {d}
      BY <1>1, TailOnce DEF Ahead, Next1
    <2>2. QED
      BY <1>4, <2>1 DEF Ahead
  <1>7. CASE d \in dead
    <2>1. \A c \in Clients, g \in DOMAIN calls : Given(g, c)' <=> Given(g, c)
      BY <1>4, <1>7 DEF Given
    <2>2. Owed' = [Owed EXCEPT ![d] = Owed[d] \ {f}]
      BY <1>1, <1>3, <1>6, <1>7, <2>1, OwedLess
    <2>3. Mail!Miss(d, f)
      BY <1>1, <1>2, <1>3, <1>4, <1>5, <1>7, <2>2 DEF Mail!Miss, Pushes
    <2>4. QED
      BY <2>3
  <1>8. CASE d \notin dead
    <2>1. ToSet(got'[d]) = ToSet(got[d]) \cup {f} /\ \A c \in Clients : c # d => got'[c] = got[c]
      <3>1. f \notin ToSet(got[d]) /\ Once(got[d]) /\ got[d] \in Seq(Nat) /\ f \in Nat
        BY <1>1, <1>2, OwedIs, CallKnown DEF Given
      <3>2. ToSet(Append(got[d], f)) = ToSet(got[d]) \cup {f}
        BY <3>1, AppendOnce
      <3>3. QED
        BY <1>1, <1>4, <1>8, <3>2
    <2>2. /\ Given(f, d)'
          /\ \A c \in Clients, g \in DOMAIN calls : c # d \/ g # f => (Given(g, c)' <=> Given(g, c))
      BY <2>1 DEF Given
    <2>3. Owed' = [Owed EXCEPT ![d] = Owed[d] \ {f}]
      BY <1>1, <1>3, <1>6, <2>2, OwedLess
    <2>4. Mail!Give(d, f)
      BY <1>1, <1>2, <1>3, <1>4, <1>5, <1>8, <2>3 DEF Mail!Give, Pushes
    <2>5. QED
      BY <2>4
  <1>9. QED
    BY <1>7, <1>8

-----------------------------------------------------------------------------
(* What the clients and the node are to the mailboxes.                     *)

\* Whatever comes and goes, the calls owe what they owed.
LEMMA CallsKeepOwing ==
  ASSUME UNCHANGED <<calls, got, lib>>
  PROVE  UnderWay' = UnderWay /\ Owed' = Owed /\ Pushes' = Pushes /\ UNCHANGED <<got, lib>>
  BY DEF UnderWay, At, Owed, Pushes

LEMMA ClientsMail ==
  ASSUME MailInv, NEW c \in Clients, Connects(c) \/ Leaves(c) \/ Dies(c) \/ Reads(c)
  PROVE  Mail!Join(c) \/ Mail!Part(c) \/ Mail!Break(c) \/ UNCHANGED Mail!mailVars
  <1>1. /\ FanTypeOK /\ UnderWay' = UnderWay /\ Owed' = Owed /\ Pushes' = Pushes
        /\ UNCHANGED <<got, lib>>
    BY CallsKeepOwing DEF MailInv, OrderInv, FanInv, Connects, Leaves, Dies, Reads
  <1>2. CASE Connects(c)
    <2>1. c \notin ToSet(clients) /\ ToSet(clients') = ToSet(clients) \cup {c}
      BY <1>1, <1>2, ConnectsAdds DEF Connects, MailInv
    <2>2. Mail!Join(c)
      BY <1>1, <1>2, <2>1 DEF Connects, Mail!Join, Pushes
    <2>3. QED
      BY <2>2
  <1>3. CASE Leaves(c)
    <2>1. c \in ToSet(clients) /\ ToSet(clients') = ToSet(clients) \ {c}
      BY <1>1, <1>3, LeavesRemoves
    <2>2. Mail!Part(c)
      BY <1>1, <1>3, <2>1 DEF Leaves, Mail!Part, Pushes
    <2>3. QED
      BY <2>2
  <1>4. CASE Dies(c)
    <2>1. Mail!Break(c)
      BY <1>1, <1>4 DEF Dies, Mail!Break, Pushes
    <2>2. QED
      BY <2>1
  <1>5. CASE Reads(c)
    BY <1>1, <1>5 DEF Reads, peers, Mail!mailVars, Pushes
  <1>6. QED
    BY <1>2, <1>3, <1>4, <1>5

\* The frame that comes is one more call.
LEMMA EmitsOne ==
  ASSUME FanInv, DOMAIN calls \subseteq Frames, NEW kind \in Kinds, NodeEmits(kind)
  PROVE  \E f \in Frames :
            /\ f \notin DOMAIN calls /\ DOMAIN calls' = DOMAIN calls \cup {f}
            /\ calls'[f].kind = kind /\ calls'[f].at = "new" /\ calls'[f].todo = <<>>
            /\ \A g \in DOMAIN calls : calls'[g] = calls[g]
  <1> DEFINE r == [kind |-> kind, at |-> "new", todo |-> <<>>, audience |-> {}]
  <1>1. /\ calls \in Seq(CallSet) /\ calls' = Append(calls, r) /\ Len(calls) < MaxFrames
        /\ r.kind = kind /\ r.at = "new" /\ r.todo = <<>>
    BY DEF FanInv, FanTypeOK, NodeEmits
  <1> HIDE DEF r
  <1> PICK n \in Nat : n = Len(calls)
    BY <1>1, LenProperties
  <1>2. /\ DOMAIN calls = 1..n /\ DOMAIN calls' = 1..(n + 1) /\ calls'[n + 1] = r
        /\ \A f \in 1..n : calls'[f] = calls[f]
    BY <1>1, AppendProperties, LenProperties
  <1>3. n + 1 \in Frames /\ n + 1 \notin 1..n /\ 1..(n + 1) = (1..n) \cup {n + 1}
    BY <1>1, FanoutAssumption DEF Frames
  <1>4. QED
    BY <1>1, <1>2, <1>3

LEMMA NodeMail ==
  ASSUME MailInv, NEW kind \in Kinds, NodeEmits(kind)
  PROVE  (\E f \in Frames : Mail!Announce(f)) \/ UNCHANGED Mail!mailVars
  <1>1. /\ FanInv /\ DOMAIN calls \subseteq Frames
        /\ UNCHANGED <<clients, dead, disturbed, got, lib>>
    BY DEF MailInv, OrderInv, NodeEmits, peers
  <1>2. PICK f \in Frames :
            /\ f \notin DOMAIN calls /\ DOMAIN calls' = DOMAIN calls \cup {f}
            /\ calls'[f].kind = kind /\ calls'[f].at = "new" /\ calls'[f].todo = <<>>
            /\ \A g \in DOMAIN calls : calls'[g] = calls[g]
    BY <1>1, EmitsOne
  <1>3. UnderWay' = UnderWay /\ Owed' = Owed
    <2>1. UnderWay' = UnderWay
      BY <1>2 DEF UnderWay, At
    <2>2. ToSet(calls'[f].todo) = {}
      BY <1>2 DEF ToSet
    <2>3. Owed' = Owed
      BY <1>1, <1>2, <2>2 DEF Owed
    <2>4. QED
      BY <2>1, <2>3
  <1>4. Pushes' = IF kind = "push" THEN Pushes \cup {f} ELSE Pushes
    BY <1>2 DEF Pushes
  <1>5. f \notin UnderWay \cup ToSet(lib)
    BY <1>2 DEF UnderWay, MailInv
  <1>6. CASE kind = "push"
    <2>1. Mail!Announce(f)
      BY <1>1, <1>3, <1>4, <1>5, <1>6 DEF Mail!Announce, Pushes, ToSet, Mail!ToSet
    <2>2. QED
      BY <2>1
  <1>7. CASE kind # "push"
    BY <1>1, <1>3, <1>4, <1>7 DEF Mail!mailVars, Pushes
  <1>8. QED
    BY <1>6, <1>7

-----------------------------------------------------------------------------
LEMMA MailInvInit == FanoutInit => MailInv
  <1> SUFFICES ASSUME FanoutInit PROVE MailInv
    OBVIOUS
  <1>1. OrderInv
    BY OrderInit
  <1>2. ToSet(clients) = {} /\ ToSet(lib) = {} /\ DOMAIN calls = {} /\ lib \in Seq(Nat)
    BY DEF FanoutInit, ToSet
  <1>3. QED
    BY <1>1, <1>2 DEF MailInv

\* What is done with stays done with, and is in the library.
LEMMA LibStays ==
  ASSUME MailInv, NEW f \in DOMAIN calls, Handles(f)
  PROVE  lib' \in Seq(Nat) /\ \A g \in ToSet(lib') : g \in DOMAIN calls' /\ At(g)' = "done"
  <1>1. /\ FanInv /\ f \in Nat /\ Alone(f) /\ lib \in Seq(Nat)
        /\ \A g \in ToSet(lib) : g \in DOMAIN calls /\ At(g) = "done"
    BY CallKnown, Shapes DEF MailInv, OrderInv
  <1>2. At(f) # "done"
    BY DEF Handles, Begins, AsksForLock, GetsLock, Writes, Drains, ToLibrary
  <1>3. \A g \in ToSet(lib) : g \in DOMAIN calls' /\ At(g)' = "done"
    BY <1>1, <1>2 DEF Alone, At
  <1>4. CASE ToLibrary(f)
    <2>1. lib' = Append(lib, f) /\ At(f)' = "done" /\ f \in DOMAIN calls'
      BY <1>1, <1>4, MovesGoes DEF ToLibrary, Goes, Alone
    <2>2. /\ lib' \in Seq(Nat) /\ DOMAIN lib' = 1..(Len(lib) + 1) /\ Len(lib) \in Nat
          /\ lib'[Len(lib) + 1] = f /\ DOMAIN lib = 1..Len(lib)
          /\ \A i \in 1..Len(lib) : lib'[i] = lib[i]
      BY <1>1, <2>1, AppendProperties, LenProperties
    <2>3. ASSUME NEW g \in ToSet(lib') PROVE g \in ToSet(lib) \/ g = f
      <3>1. PICK i \in 1..(Len(lib) + 1) : lib'[i] = g
        BY <2>2 DEF ToSet
      <3>2. i = Len(lib) + 1 \/ i \in 1..Len(lib)
        BY <2>2
      <3>3. QED
        BY <2>2, <3>1, <3>2 DEF ToSet
    <2>4. QED
      BY <1>3, <2>1, <2>2, <2>3
  <1>5. CASE ~ToLibrary(f)
    <2>1. lib' = lib
      BY <1>5 DEF Handles, Begins, AsksForLock, GetsLock, Writes, Drains
    <2>2. QED
      BY <1>1, <1>3, <2>1
  <1>6. QED
    BY <1>4, <1>5

LEMMA MailInvStep == MailInv /\ [FanoutNext]_fanVars => MailInv'
  <1> SUFFICES ASSUME MailInv, [FanoutNext]_fanVars PROVE MailInv'
    OBVIOUS
  <1>1. OrderInv' /\ OrderInv /\ FanInv
    BY OrderStep DEF MailInv, OrderInv
  <1>2. ASSUME NEW c \in Clients, Connects(c) \/ Leaves(c) \/ Dies(c) \/ Reads(c) PROVE MailInv'
    <2>1. UNCHANGED <<calls, lib>>
      BY <1>2 DEF Connects, Leaves, Dies, Reads
    <2>2. ToSet(clients') \subseteq met'
      <3>1. FanTypeOK /\ ToSet(clients) \subseteq met
        BY <1>1 DEF MailInv, FanInv
      <3>2. CASE Connects(c)
        BY <3>1, <3>2, ConnectsAdds DEF Connects
      <3>3. CASE Leaves(c)
        BY <3>1, <3>3, LeavesRemoves DEF Leaves
      <3>4. CASE Dies(c) \/ Reads(c)
        BY <3>1, <3>4 DEF Dies, Reads, peers
      <3>5. QED
        BY <1>2, <3>2, <3>3, <3>4
    <2>3. QED
      BY <1>1, <2>1, <2>2 DEF MailInv, At
  <1>3. ASSUME NEW kind \in Kinds, NodeEmits(kind) PROVE MailInv'
    <2>1. UNCHANGED <<clients, met, lib>>
      BY <1>3 DEF NodeEmits, peers
    <2>2. PICK f \in Frames : /\ DOMAIN calls' = DOMAIN calls \cup {f}
                              /\ \A g \in DOMAIN calls : calls'[g] = calls[g]
      BY <1>1, <1>3, EmitsOne DEF MailInv
    <2>3. QED
      BY <1>1, <2>1, <2>2 DEF MailInv, At
  <1>4. ASSUME NEW f \in DOMAIN calls, Handles(f) PROVE MailInv'
    <2>1. UNCHANGED <<clients, met>> /\ DOMAIN calls' = DOMAIN calls
      BY <1>1, <1>4, KindsStay, Shapes DEF Alone
    <2>2. QED
      BY <1>1, <1>4, <2>1, LibStays DEF MailInv
  <1>5. CASE UNCHANGED fanVars
    BY <1>1, <1>5 DEF MailInv, At, fanVars
  <1>6. QED
    BY <1>2, <1>3, <1>4, <1>5 DEF FanoutNext

LEMMA MailStep == MailInv /\ [FanoutNext]_fanVars => [Mail!MailNext]_(Mail!mailVars)
  <1> SUFFICES ASSUME MailInv, [FanoutNext]_fanVars
               PROVE  Mail!MailNext \/ UNCHANGED Mail!mailVars
    OBVIOUS
  <1>1. ASSUME NEW c \in Clients, Connects(c) \/ Leaves(c) \/ Dies(c) \/ Reads(c)
        PROVE  Mail!MailNext \/ UNCHANGED Mail!mailVars
    BY <1>1, ClientsMail DEF Mail!MailNext
  <1>2. ASSUME NEW kind \in Kinds, NodeEmits(kind)
        PROVE  Mail!MailNext \/ UNCHANGED Mail!mailVars
    BY <1>2, NodeMail DEF Mail!MailNext
  <1>3. ASSUME NEW f \in DOMAIN calls, Handles(f)
        PROVE  Mail!MailNext \/ UNCHANGED Mail!mailVars
    <2>1. f \in Frames
      BY DEF MailInv
    <2>2. CASE Begins(f)
      BY <2>1, <2>2, BeginsPosts DEF Mail!MailNext
    <2>3. CASE Writes(f)
      BY <2>1, <2>3, WritesGive DEF Mail!MailNext
    <2>4. CASE ToLibrary(f)
      BY <2>1, <2>4, ToLibraryPasses DEF Mail!MailNext
    <2>5. CASE AsksForLock(f) \/ GetsLock(f) \/ Drains(f)
      BY <2>5, WaitsAreHidden
    <2>6. QED
      BY <1>3, <2>2, <2>3, <2>4, <2>5 DEF Handles
  <1>4. CASE UNCHANGED fanVars
    <2>1. UNCHANGED <<clients, dead, disturbed, calls, got, lib>>
      BY <1>4 DEF fanVars
    <2>2. QED
      BY <2>1, CallsKeepOwing DEF Mail!mailVars, Pushes
  <1>5. QED
    BY <1>1, <1>2, <1>3, <1>4 DEF FanoutNext

\* The broadcast loop with its locks, waits and failures is a mailbox per client, for any
\* clients, frames, overlap and size of buffers: a push is owed to those connected when its
\* broadcast begins, each is given it once and in order unless his connection breaks, a
\* failure costs nobody else his, and the library comes last (_ReaderTap.handle_rx,
\* _on_device_frame, send_frame).
THEOREM FanoutIsPushMail == FanoutSpec => ImplementsPushMail
  <1>1. FanoutInit => Mail!MailInit
    <2> SUFFICES ASSUME FanoutInit PROVE Mail!MailInit
      OBVIOUS
    <2>1. /\ DOMAIN calls = {} /\ ToSet(clients) = {} /\ dead = {} /\ disturbed = {}
          /\ got = [c \in Clients |-> <<>>] /\ lib = <<>>
      BY DEF FanoutInit, ToSet
    <2>2. UnderWay = {} /\ Pushes = {} /\ Owed = [c \in Clients |-> {}]
      BY <2>1 DEF UnderWay, Pushes, Owed
    <2>3. QED
      BY <2>1, <2>2 DEF Mail!MailInit, Pushes
  <1>2. QED
    BY MailInvInit, MailInvStep, MailStep, <1>1, PTL
       DEF FanoutSpec, ImplementsPushMail, Mail!MailSpec
=============================================================================
