----------------------------- MODULE ContactRows -----------------------------
(***************************************************************************)
(* The database file and the contacts table in it: Database.open with its  *)
(* migrations (storage/database.py), each a script of statements between   *)
(* BEGIN and COMMIT that a crash may cut anywhere, and the statements of   *)
(* ContactStore (storage/repositories.py), which keep last_seen honest     *)
(* although a synced list says nothing about when a node was heard.        *)
(*                                                                         *)
(* The ghosts live and told say what last_seen should be; no action reads  *)
(* them to decide anything.                                                *)
(***************************************************************************)
EXTENDS Naturals, Sequences

CONSTANTS Peers,      \* public keys
          MaxNow,     \* bound: the host's clock
          MaxCrashes  \* bound: crashes and restarts

ASSUME RowsAssumption == MaxNow \in Nat /\ MaxCrashes \in Nat

VARIABLES
  now,      \* the host's clock, in seconds
  disk,     \* what is committed
  work,     \* what the connection sees: ahead of disk inside a transaction
  daemon,   \* "down", "opening", "up", or "stuck": open raised
  step,     \* while opening: the next statement of the script of a migration
  crashes,
  live,     \* history: when the peer was last heard live, since the v3 rebuild
  told      \* history: the newest credible time the node reported for it

rowVars == <<now, disk, work, daemon, step, crashes, live, told>>

Latest == 3
NoRow == [exists |-> FALSE, seen |-> 0, advert |-> 0, mod |-> 0]
Row == [exists : BOOLEAN, seen : Nat, advert : Nat, mod : Nat]

\* version: meta.schema_version, 1 if it is missing; channels: whether the table
\* channels exists.  SCHEMA itself is IF NOT EXISTS throughout.
Content == [version : 1..Latest, channels : BOOLEAN, rows : [Peers -> Row]]

Larger(a, b) == IF a >= b THEN a ELSE b

\* reported_last_heard: the latest time that is not in the future, 0 without one.
Credible(t) == IF t <= now THEN t ELSE 0
ReportedLastHeard(advert, mod) == Larger(Credible(advert), Credible(mod))

\* A database of this version, one of an older daemon, which left any last_seen,
\* or no file yet.  The clocks of the node and of the sender may run ahead.
OldRows == {NoRow} \union
  {[exists |-> TRUE, seen |-> s, advert |-> a, mod |-> m] :
     s \in {0, now}, a \in {0, now + 1}, m \in {0, now}}

ContactRowsInit ==
  /\ now = 1
  /\ \E v \in 1..Latest - 1, r \in [Peers -> OldRows] :
       disk = [version |-> v, channels |-> v > 1, rows |-> r]
  /\ work = disk /\ daemon = "down" /\ step = 1 /\ crashes = 0
  /\ live = [p \in Peers |-> 0] /\ told = [p \in Peers |-> 0]

-----------------------------------------------------------------------------
(* open and _migrate.                                                      *)

\* Mutated form: the script is executed without a transaction.
BareScript(target) ==
  IF target = 2 THEN <<"create", "stamp">> ELSE <<"rebuild", "stamp">>

\* The statements that take the database to version target.
Script(target) ==
  IF target = 2 THEN <<"begin", "create", "stamp", "commit">>
                ELSE <<"begin", "rebuild", "stamp", "commit">>

OpenDatabase ==
  /\ daemon = "down"
  /\ daemon' = IF disk.version = Latest THEN "up" ELSE "opening"
  /\ step' = 1
  /\ UNCHANGED <<now, disk, work, crashes, live, told>>

Target == disk.version + 1
Statement == Script(Target)[step]
InTransaction == \E i \in 1..step - 1 : Script(Target)[i] = "begin"

\* A statement outside a transaction commits by itself.
Execute(content) ==
  /\ work' = content
  /\ disk' = IF InTransaction THEN disk ELSE content
  /\ step' = step + 1
  /\ UNCHANGED <<now, daemon, crashes>>

Begin ==
  /\ daemon = "opening" /\ Statement = "begin"
  /\ step' = step + 1
  /\ UNCHANGED <<now, disk, work, daemon, crashes, live, told>>

\* CREATE TABLE channels, and the columns of messages that refer to it.
CreateChannels ==
  /\ daemon = "opening" /\ Statement = "create"
  /\ \/ /\ ~work.channels
        /\ Execute([work EXCEPT !.channels = TRUE])
     \/ /\ work.channels
        /\ daemon' = "stuck"
        /\ UNCHANGED <<now, disk, work, step, crashes>>
  /\ UNCHANGED <<live, told>>

\* v3: the CASE expressions of the script, the twins of reported_last_heard.
Rebuilt(r) == Larger(IF r.advert <= now THEN r.advert ELSE 0,
                     IF r.mod <= now THEN r.mod ELSE 0)

\* v3: last_seen of every row from the times the device reported.
RebuildLastSeen ==
  /\ daemon = "opening" /\ Statement = "rebuild"
  /\ Execute([work EXCEPT !.rows = [p \in Peers |->
        IF work.rows[p].exists THEN [work.rows[p] EXCEPT !.seen = Rebuilt(work.rows[p])]
        ELSE NoRow]])
  /\ live' = [p \in Peers |-> 0]
  /\ told' = [p \in Peers |-> ReportedLastHeard(work.rows[p].advert, work.rows[p].mod)]

\* The statement that records the version.  It comes last, so that the next
\* script is not looked at before this one is through.
StampVersion ==
  /\ daemon = "opening" /\ Statement = "stamp"
  /\ work' = [work EXCEPT !.version = Target]
  /\ IF InTransaction
     THEN step' = step + 1 /\ UNCHANGED <<disk, daemon>>
     ELSE disk' = work' /\ step' = 1 /\ daemon' = IF Target = Latest THEN "up" ELSE "opening"
  /\ UNCHANGED <<now, crashes, live, told>>

CommitScript ==
  /\ daemon = "opening" /\ Statement = "commit"
  /\ disk' = work /\ step' = 1
  /\ daemon' = IF Target = Latest THEN "up" ELSE "opening"
  /\ UNCHANGED <<now, work, crashes, live, told>>

-----------------------------------------------------------------------------
(* ContactStore, every statement committed by itself.                      *)

Store(p, r) ==
  /\ work' = [work EXCEPT !.rows[p] = r]
  /\ disk' = work'
  /\ UNCHANGED <<now, daemon, step, crashes>>

\* Mutated form: a sync writes what it computed over what was known.
OverwriteSeen(old, computed) == computed

\* last_seen = MAX(contacts.last_seen, excluded.last_seen) on a conflict.
SeenAfter(old, computed) == IF old.exists THEN Larger(old.seen, computed) ELSE computed

UpsertContact(p, advert, mod, heard) ==
  LET computed == IF heard THEN now ELSE ReportedLastHeard(advert, mod) IN
  /\ daemon = "up"
  /\ Store(p, [exists |-> TRUE, seen |-> SeenAfter(work.rows[p], computed),
               advert |-> advert, mod |-> mod])
  /\ IF heard
     THEN live' = [live EXCEPT ![p] = now] /\ UNCHANGED told
     ELSE /\ told' = [told EXCEPT ![p] = Larger(told[p], ReportedLastHeard(advert, mod))]
          /\ UNCHANGED live

\* touch updates a row if there is one: what is heard of a stranger is lost.
Touch(p) ==
  /\ daemon = "up"
  /\ IF work.rows[p].exists
     THEN Store(p, [work.rows[p] EXCEPT !.seen = now]) /\ live' = [live EXCEPT ![p] = now]
     ELSE UNCHANGED <<now, disk, work, daemon, step, crashes, live>>
  /\ UNCHANGED told

-----------------------------------------------------------------------------

\* Also a migration that raises: the exception ends the process.
CrashDatabase ==
  /\ daemon # "down" /\ crashes < MaxCrashes
  /\ daemon' = "down" /\ work' = disk /\ step' = 1
  /\ crashes' = crashes + 1
  /\ UNCHANGED <<now, disk, live, told>>

TickHost ==
  /\ now < MaxNow
  /\ now' = now + 1
  /\ UNCHANGED <<disk, work, daemon, step, crashes, live, told>>

ContactRowsNext ==
  \/ OpenDatabase \/ Begin \/ CreateChannels \/ RebuildLastSeen \/ StampVersion
  \/ CommitScript
  \/ \E p \in Peers : Touch(p)
  \/ \E p \in Peers, a, m \in 0..MaxNow + 1, heard \in BOOLEAN : UpsertContact(p, a, m, heard)
  \/ CrashDatabase \/ TickHost

ContactRowsSpec == ContactRowsInit /\ [][ContactRowsNext]_rowVars

-----------------------------------------------------------------------------
(* Properties.                                                             *)

\* From version 3 on, last_seen is exactly the newest credible evidence, whichever
\* of touch, upsert and the v3 migration wrote it: the peer was heard live since that
\* migration rebuilt the rows, or the node reported that time when it was not in the
\* future.  No sync rewinds it, no clock ahead of the host's pushes it into the future.
\* The rebuild itself may rewind it: it forgets when peers were heard before.
SeenHonest ==
  work.version = Latest =>
    \A p \in Peers : work.rows[p].exists =>
      /\ work.rows[p].seen = Larger(live[p], told[p])
      /\ work.rows[p].seen <= now

\* Wherever a crash cuts the migrations, the next open resumes them: it never
\* creates a table a second time, and the tables of a database in use are those of
\* its version (_migrate: BEGIN, the script, the version, COMMIT).
MigrationsResume ==
  /\ daemon # "stuck"
  /\ disk.channels <=> disk.version >= 2
  /\ daemon = "up" => disk = work /\ disk.version = Latest
=============================================================================
