----------------------------- MODULE FrameParser -----------------------------
(***************************************************************************)
(* FrameParser (proxy.py): frames are taken from a byte stream that comes  *)
(* in arbitrary pieces.  A frame is a start byte, its length in two bytes, *)
(* low byte first, and that many bytes; after junk or an impossible length *)
(* the parser looks for the next start byte, which may be inside what it   *)
(* took for a header.                                                      *)
(***************************************************************************)
EXTENDS Naturals, Sequences, FiniteSetsExt

CONSTANTS Start,      \* FRAME_TO_NODE
          Radix,      \* values of a byte
          MaxFrame,   \* MAX_FRAME_SIZE
          MaxChunk,   \* bound: bytes that one read returns
          MaxStream   \* bound: bytes in all

ASSUME ParserAssumption ==
  /\ Radix \in Nat \ {0} /\ Start \in 0..Radix - 1 /\ MaxFrame \in Nat
  /\ MaxChunk \in Nat /\ MaxStream \in Nat

VARIABLES
  stream,   \* history: every byte fed so far
  buf,      \* _buf
  frames    \* the frames returned so far

parserVars == <<stream, buf, frames>>

Byte == 0..Radix - 1
Chunk == UNION {[1..n -> Byte] : n \in 1..MaxChunk}
Size(low, high) == low + Radix * high

ParserInit == stream = <<>> /\ buf = <<>> /\ frames = <<>>

\* Mutated form: the whole impossible header is skipped.
SkipHeader(k) == k + 3

\* Only its start byte is: the next one may be right behind it.
Resync(k) == k + 1

\* A turn of the loop of feed, when the bytes of b before i are gone: what is left in the
\* buffer in the end and the frames found, given what the later turns do.
Turn(b, later, i) ==
  LET starts == {k \in i..Len(b) : b[k] = Start}
      k == Min(starts)
      size == Size(b[k + 1], b[k + 2])
      last == k + 2 + size
      headed == k + 2 <= Len(b)
      possible == size \in 1..MaxFrame
  IN  CASE starts = {} -> [left |-> <<>>, found |-> <<>>]
        [] starts # {} /\ headed /\ ~possible -> later[Resync(k)]
        [] starts # {} /\ headed /\ possible /\ last <= Len(b) ->
             [left |-> later[last + 1].left,
              found |-> <<SubSeq(b, k + 3, last)>> \o later[last + 1].found]
        [] OTHER -> [left |-> SubSeq(b, k, Len(b)), found |-> <<>>]

\* The loop of feed on the buffer b.
Drain(b) == LET from[i \in 1..Len(b) + 1] == Turn(b, from, i) IN from[1]

Feed(chunk) ==
  LET drained == Drain(buf \o chunk) IN
  /\ Len(stream) + Len(chunk) <= MaxStream
  /\ stream' = stream \o chunk
  /\ buf' = drained.left
  /\ frames' = frames \o drained.found

ParserNext == \E chunk \in Chunk : Feed(chunk)

ParserSpec == ParserInit /\ [][ParserNext]_parserVars

-----------------------------------------------------------------------------
(* The reference: the whole stream read from left to right.                *)

\* A possible header at position i of s, and the end of its frame.
Header(s, i) ==
  /\ s[i] = Start /\ i + 2 <= Len(s)
  /\ Size(s[i + 1], s[i + 2]) \in 1..MaxFrame
EndAt(s, i) == i + 2 + Size(s[i + 1], s[i + 2])

\* The reading goes on behind the frame, or behind the byte that begins none.
Follow(s, i) == IF Header(s, i) THEN EndAt(s, i) + 1 ELSE i + 1

\* Where it stands: at the beginning and wherever it goes on, and nowhere else.
Readings(s) ==
  {R \in SUBSET (DOMAIN s) :
     (DOMAIN s # {} => 1 \in R) /\ \A i \in R : Follow(s, i) <= Len(s) => Follow(s, i) \in R}
Standing(s) == LET readings == Readings(s) IN {i \in DOMAIN s : \A R \in readings : i \in R}

FrameStarts(s) == {i \in Standing(s) : Header(s, i) /\ EndAt(s, i) <= Len(s)}
FrameAt(s, i) == SubSeq(s, i + 3, EndAt(s, i))

-----------------------------------------------------------------------------
(* Property.                                                               *)

\* However the stream is cut into pieces, the parser returns exactly the frames that a
\* reading of the whole stream finds, in order: no start byte in a payload begins a
\* frame, none in an impossible header is missed, and none is lost at a cut (feed).
ParsedAsWhole ==
  LET starts == FrameStarts(stream)
  IN  \E at \in [DOMAIN frames -> starts] :
        /\ \A i \in starts : \E n \in DOMAIN at : at[n] = i
        /\ \A n \in DOMAIN at : frames[n] = FrameAt(stream, at[n])
        /\ \A m, n \in DOMAIN at : m < n => at[m] < at[n]
=============================================================================
