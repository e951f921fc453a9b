-------------------------------- MODULE Paging --------------------------------
(***************************************************************************)
(* The listings of storage/repositories.py behind QueryPackets,            *)
(* ListMessages and ListContacts (grpc_api/service.py): a client reads a   *)
(* table page by page with LIMIT and OFFSET, each page a query of its own, *)
(* while the recorder inserts rows, adverts move contacts to the top and   *)
(* the retention deletes what is old.                                      *)
(*                                                                         *)
(* One table stands for all three: packets and messages are ordered by     *)
(* ts DESC, id DESC and are never moved, contacts by last_seen DESC and    *)
(* are never deleted, but leave a listing of those on the device.  Ties of *)
(* last_seen, whose order the query leaves open, are ordered like the      *)
(* others.                                                                 *)
(***************************************************************************)
EXTENDS Naturals, FiniteSets, FiniteSetsExt

CONSTANTS MaxRows,   \* bound: rows ever inserted
          MaxStamp,  \* bound: the clock
          MaxLimit,  \* the cap on the rows of a page
          AskedFor   \* the limits that clients ask for; 0 is the default of proto3

ASSUME PagingAssumption ==
  MaxRows \in Nat /\ MaxStamp \in Nat /\ MaxLimit \in Nat \ {0} /\ AskedFor \subseteq Nat

VARIABLES
  time,     \* the clock
  table,    \* the rows that match the client's filter: their ids
  stamp,    \* ts or last_seen of every row
  nrows,    \* rows inserted so far
  reader,   \* "idle", "reading" or "done"
  offset,   \* rows read so far: the offset of the next page
  asked,    \* the limit of its requests
  seenIds,  \* history: the ids of the rows it was given
  steady    \* history: the rows there all along, not moved, not due to be deleted, and
            \* below none that left the listing

pagingVars == <<time, table, stamp, nrows, reader, offset, asked, seenIds, steady>>

RowIds == 1..MaxRows

PagingInit ==
  /\ time = 0 /\ table = {} /\ stamp = [i \in RowIds |-> 0] /\ nrows = 0
  /\ reader = "idle" /\ offset = 0 /\ asked = 0 /\ seenIds = {} /\ steady = {}

-----------------------------------------------------------------------------
(* The table.                                                              *)

\* Mutated form: the oldest row comes first.
OldestFirst(i, j) == stamp[i] < stamp[j] \/ (stamp[i] = stamp[j] /\ i < j)

\* ORDER BY ts DESC, id DESC: i comes before j.
Before(i, j) == stamp[i] > stamp[j] \/ (stamp[i] = stamp[j] /\ i > j)

\* A row gets an id above all others; a contact that a list brings may have been
\* heard long ago, and a packet may be a little older than the insertion.
InsertRow(t) ==
  /\ nrows < MaxRows
  /\ nrows' = nrows + 1
  /\ table' = table \union {nrows + 1}
  /\ stamp' = [stamp EXCEPT ![nrows + 1] = t]
  /\ UNCHANGED <<time, reader, offset, asked, seenIds, steady>>

\* A contact is heard, or a list says that it was: last_seen only grows.
MovesUp(i, t) ==
  /\ i \in table /\ stamp[i] < t
  /\ stamp' = [stamp EXCEPT ![i] = t]
  /\ steady' = steady \ {i}
  /\ UNCHANGED <<time, table, nrows, reader, offset, asked, seenIds>>

\* One batch of the rows before a cutoff is deleted, or all of them.
DeletesOld(cutoffTime) ==
  LET due == {i \in table : stamp[i] < cutoffTime} IN
  /\ \E gone \in SUBSET due \ {{}} : table' = table \ gone
  /\ steady' = steady \ due
  /\ UNCHANGED <<time, stamp, nrows, reader, offset, asked, seenIds>>

\* A row ceases to match the filter: those below it come one place forward.
LeavesListing(i) ==
  /\ i \in table
  /\ table' = table \ {i}
  /\ steady' = steady \ {j \in table : j = i \/ Before(i, j)}
  /\ UNCHANGED <<time, stamp, nrows, reader, offset, asked, seenIds>>

TickPaging ==
  /\ time < MaxStamp
  /\ time' = time + 1
  /\ UNCHANGED <<table, stamp, nrows, reader, offset, asked, seenIds, steady>>

-----------------------------------------------------------------------------
(* A client that reads the whole table.                                    *)

\* request.limit or 100, then min(max(limit, 1), 1000); the default is the cap here.
PageSize(limit) == IF limit = 0 THEN MaxLimit ELSE Min({Max({limit, 1}), MaxLimit})

Position(i) == Cardinality({j \in table : Before(j, i)})

\* LIMIT size OFFSET from
Page(from, size) == {i \in table : from <= Position(i) /\ Position(i) < from + size}

StartsReading(limit) ==
  /\ reader = "idle"
  /\ reader' = "reading" /\ asked' = limit /\ offset' = 0
  /\ seenIds' = {} /\ steady' = table
  /\ UNCHANGED <<time, table, stamp, nrows>>

\* The next page; one below the page size is the last (the total that comes with a
\* page is counted by a query before, and may be off by what happens in between).
ReadsPage ==
  LET page == Page(offset, PageSize(asked)) IN
  /\ reader = "reading"
  /\ seenIds' = seenIds \union page
  /\ offset' = offset + Cardinality(page)
  /\ reader' = IF Cardinality(page) < PageSize(asked) THEN "done" ELSE "reading"
  /\ UNCHANGED <<time, table, stamp, nrows, asked, steady>>

StopsReading ==
  /\ reader = "done"
  /\ reader' = "idle" /\ seenIds' = {} /\ steady' = {}
  /\ UNCHANGED <<time, table, stamp, nrows, offset, asked>>

PagingNext ==
  \/ \E t \in 0..time : InsertRow(t) \/ DeletesOld(t) \/ \E i \in RowIds : MovesUp(i, t)
  \/ TickPaging \/ \E i \in RowIds : LeavesListing(i)
  \/ \E limit \in AskedFor : StartsReading(limit)
  \/ ReadsPage \/ StopsReading

PagingSpec == PagingInit /\ [][PagingNext]_pagingVars

-----------------------------------------------------------------------------
(* Properties.                                                             *)

\* A client that reads a listing until a page is shorter than the page size (which it
\* must know to be capped) has been given every row that was there all the while, was
\* not moved and is not due to be deleted, whatever is inserted, moved or deleted
\* between two pages: the order of the listings, newest first, lets these changes
\* repeat a row, never hide one.  Only a row that ceases to match the filter can: it
\* hides one that comes after it.
PagesSkipNothing == reader = "done" => steady \subseteq seenIds
=============================================================================
