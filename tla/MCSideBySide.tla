---------------------------- MODULE MCSideBySide ----------------------------
(***************************************************************************)
(* One instance of each component that keeps or reads records, and one of  *)
(* the frame parser.  They share no state, so a behaviour moves one of     *)
(* them, chosen at the start, and leaves the others in an initial state:   *)
(* the state space is the sum of theirs, not the product.                  *)
(***************************************************************************)
EXTENDS ContactSync, ContactRows, PacketStats, FrameParser, Paging

VARIABLE chosen

Components == {"contacts", "rows", "packets", "parser", "paging"}

SideBySideInit ==
  /\ chosen \in Components
  /\ ContactInit /\ (chosen # "contacts" => node = [c \in Contacts |-> Absent])
  /\ ContactRowsInit /\ (chosen # "rows" => disk.version = 1 /\ disk.rows = [p \in Peers |-> NoRow])
  /\ PacketStatsInit /\ ParserInit /\ PagingInit

SideBySideNext ==
  \/ /\ chosen = "contacts" /\ ContactNext
     /\ UNCHANGED <<chosen, rowVars, statsVars, parserVars, pagingVars>>
  \/ /\ chosen = "rows" /\ ContactRowsNext
     /\ UNCHANGED <<chosen, contactVars, statsVars, parserVars, pagingVars>>
  \/ /\ chosen = "packets" /\ PacketStatsNext
     /\ UNCHANGED <<chosen, contactVars, rowVars, parserVars, pagingVars>>
  \/ /\ chosen = "parser" /\ ParserNext
     /\ UNCHANGED <<chosen, contactVars, rowVars, statsVars, pagingVars>>
  \/ /\ chosen = "paging" /\ PagingNext
     /\ UNCHANGED <<chosen, contactVars, rowVars, statsVars, parserVars>>

sideBySideVars == <<chosen, contactVars, rowVars, statsVars, parserVars, pagingVars>>

SideBySideSpec == SideBySideInit /\ [][SideBySideNext]_sideBySideVars
=============================================================================
