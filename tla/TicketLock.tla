------------------------------ MODULE TicketLock ------------------------------
(***************************************************************************)
(* What the command slot promises, and all that its users may rely on: a   *)
(* lock handed to whoever asked first.  A ticket is higher than those      *)
(* still out; one may be withdrawn at any time; the lowest is served next, *)
(* and nobody enters past a ticket.  CommandSlot implements it.            *)
(***************************************************************************)
EXTENDS Naturals

CONSTANTS Users, NoUser

VARIABLES ticket,  \* per user: its ticket, 0 without one
          holder   \* who has the lock, or NoUser

lockVars == <<ticket, holder>>

Queued == {u \in Users : ticket[u] # 0}

LockInit == ticket = [u \in Users |-> 0] /\ holder = NoUser

\* u takes a ticket.
TakeTicket(u) ==
  /\ u # holder /\ ticket[u] = 0
  /\ ticket'[u] \in Nat \ {0}
  /\ \A w \in Queued : ticket[w] < ticket'[u]
  /\ ticket' = [ticket EXCEPT ![u] = ticket'[u]]
  /\ UNCHANGED holder

\* Nobody has the lock or waits for it: u enters without a ticket.
EnterAtOnce(u) ==
  /\ holder = NoUser /\ Queued = {}
  /\ holder' = u
  /\ UNCHANGED ticket

Serve(u) ==
  /\ holder = NoUser
  /\ u \in Queued /\ \A w \in Queued : ticket[u] <= ticket[w]
  /\ holder' = u
  /\ ticket' = [ticket EXCEPT ![u] = 0]

GiveBack(u) ==
  /\ holder = u
  /\ holder' = NoUser
  /\ UNCHANGED ticket

Withdraw(u) ==
  /\ u \in Queued
  /\ ticket' = [ticket EXCEPT ![u] = 0]
  /\ UNCHANGED holder

LockNext ==
  \E u \in Users :
    TakeTicket(u) \/ EnterAtOnce(u) \/ Serve(u) \/ GiveBack(u) \/ Withdraw(u)

LockSpec == LockInit /\ [][LockNext]_lockVars
=============================================================================
