---------------------------- MODULE ProxyCache ----------------------------
(***************************************************************************)
(* The proxy's response cache (proxy.py) on top of the command slot.       *)
(*                                                                         *)
(* A proxy client's cacheable command (here: its contact list request) is  *)
(* answered from the cache if an entry is there, without touching the      *)
(* slot; otherwise it goes through raw_command, and what raw_command       *)
(* returned is stored.  A mutating command (here: "set" and "reboot")      *)
(* clears the whole cache once raw_command has returned.  Nothing happens  *)
(* to the cache when raw_command raises, or for commands that do not come  *)
(* through the proxy.                                                      *)
(*                                                                         *)
(* The node's contact list is abstracted to a version that every accepted  *)
(* mutation increments; an answer shows the version it was given at.       *)
(***************************************************************************)
EXTENDS CommandSlot, FiniteSetsExt

VARIABLES
    cache,      \* the frames stored for the contact list, <<>> if there are none
    nodeVer,    \* the version of the contact list in the node
    ver,        \* history: per request, the version when the node answered it
    completed,  \* history: newest version a proxied mutation returned with
    shown       \* history: version of the last contact list a client was given

cacheVars == <<cache, nodeVer, ver, completed, shown>>
allVars   == <<vars, cacheVars>>

-----------------------------------------------------------------------------
Mutating(cmd)  == cmd \in {"set", "reboot"}
Cacheable(cmd) == cmd = "contacts"

\* All frames answer one request, and end where its answer ends.
OneAnswer(frames) ==
    /\ frames # <<>>
    /\ \A i \in DOMAIN frames : frames[i].req = frames[1].req
    /\ \A i \in DOMAIN frames : frames[i].code \in Final <=> i = Len(frames)
    /\ frames[1].code \in {"start", "err"}

\* The version a client was shown by these frames, if they say so.
Shows(frames) ==
    IF OneAnswer(frames) THEN ver[frames[1].req] ELSE shown

\* Mutated forms: clearing is forgotten; the first of two answers is kept.
KeepEntries == UNCHANGED cache
StoreFirst(frames) == cache' = IF cache = <<>> THEN frames ELSE cache

\* ResponseCache.clear and ResponseCache.set
Clear         == cache' = <<>>
Store(frames) == cache' = frames

CacheInit ==
    /\ Init
    /\ cache = <<>>
    /\ nodeVer = 0
    /\ ver = [r \in 1..MaxRequests |-> 0]
    /\ completed = 0
    /\ shown = 0

-----------------------------------------------------------------------------
\* A cached answer is replayed to the client, connected or not.
CacheHit(c) ==
    /\ c \in ProxyClients
    /\ Phase(c) = "idle"
    /\ cache # <<>>
    /\ shown' = Shows(cache)
    /\ UNCHANGED <<vars, cache, nodeVer, ver, completed>>

\* Every other command goes to the slot, a cacheable one of the proxy on a miss.
Miss(c, cmd) ==
    /\ c \in ProxyClients /\ Cacheable(cmd) => cache = <<>>
    /\ Submit(c, cmd)
    /\ UNCHANGED cacheVars

\* raw_command returns to _handle_command: no await lies between the release
\* of the slot and the cache update.
Returned(c) ==
    IF Mutating(call[c].cmd)
    THEN /\ Clear
         /\ completed' = IF got[c] # <<>> /\ got[c][1].req = call[c].req
                         THEN Max({completed, ver[call[c].req]})
                         ELSE completed
         /\ UNCHANGED shown
    ELSE /\ Store(got[c])
         /\ shown' = Shows(got[c])
         /\ UNCHANGED completed

ReturnsToProxy(c) ==
    /\ c \in ProxyClients
    /\ \/ Taken(c) /\ Terminal(call[c].cmd, Last(got[c]).code)
       \/ Send(c) /\ call[c].cmd = "reboot"
    /\ Returned(c)
    /\ UNCHANGED <<nodeVer, ver>>

\* The other steps of a caller leave the cache alone, the failing ones included.
CallerProceeds(c) ==
    /\ \/ Acquire(c) \/ RawReceive(c) \/ SendFails(c) \/ StreamFails(c)
       \/ Timeout(c) \/ Cancel(c)
       \/ /\ c \notin ProxyClients
          /\ Taken(c) \/ Send(c)
       \/ /\ c \in ProxyClients
          /\ \/ Taken(c) /\ ~Terminal(call[c].cmd, Last(got[c]).code)
             \/ Send(c) /\ call[c].cmd # "reboot"
    /\ UNCHANGED cacheVars

\* The node executes a request; a mutation it accepts changes its contact list.
Execute ==
    /\ NodeAnswer
    /\ nodeVer' = IF Head(inbox).cmd = "set" /\ Last(wire').code = "ok"
                  THEN nodeVer + 1 ELSE nodeVer
    /\ ver' = [ver EXCEPT ![Head(inbox).req] = nodeVer']
    /\ UNCHANGED <<cache, completed, shown>>

\* The time to live has passed when the entry is looked up.
Expire ==
    /\ cache # <<>>
    /\ cache' = <<>>
    /\ UNCHANGED <<vars, nodeVer, ver, completed, shown>>

CacheNext ==
    \/ \E c \in Callers :
          \/ CacheHit(c)
          \/ \E cmd \in Commands : Miss(c, cmd)
          \/ ReturnsToProxy(c)
          \/ CallerProceeds(c)
    \/ Execute
    \/ Expire
    \/ /\ NodePush \/ Dispatch \/ LinkDrop \/ ConnLost \/ Reconnect
       /\ UNCHANGED cacheVars

CacheSpec == CacheInit /\ [][CacheNext]_allVars

-----------------------------------------------------------------------------
\* What is stored is whole: if no stray frame got into the answer of a cacheable
\* command, its frames are one answer from the first to the last, never a prefix
\* of a contact list, and never with the head or the tail of another.
CacheWhole ==
    [][\A c \in ProxyClients :
          /\ ReturnsToProxy(c)
          /\ cache' # <<>>
          /\ \A i \in DOMAIN got[c] : got[c][i].req = call[c].req
          => OneAnswer(cache')]_allVars

\* An entry that is what it claims to be reflects every mutation that a client
\* has been told about: "Any mutating command flushes the cache", for the
\* proxied commands that return.
CacheFresh == OneAnswer(cache) => ver[cache[1].req] >= completed

\* Clients never see the contact list go back in time, whichever of them asks
\* and whether the answer comes from the node or the cache, although commands
\* of the gRPC API change the node behind the cache's back.
ReadsNeverGoBack == [][shown' >= shown]_allVars

\* "Any mutating command flushes the cache" (module docstring of proxy.py):
\* when no command is in flight, a cached contact list is the node's.
MutationFlushes ==
    OneAnswer(cache) /\ (\A c \in Callers : Phase(c) = "idle")
    => ver[cache[1].req] = nodeVer
=============================================================================
