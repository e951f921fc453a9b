------------------------------- MODULE PushMail -------------------------------
(***************************************************************************)
(* What the fan-out of pushes promises, and all that its clients and the   *)
(* library may rely on: a mailbox per client.  What is posted is owed to   *)
(* everybody connected at that moment; each is given what he is owed once  *)
(* and in order, unless his connection breaks, and when nobody is owed it  *)
(* any more it goes on to the library.  The order is not kept between a    *)
(* push that was open when somebody came or went and those after it.       *)
(* PushFanout implements it.                                               *)
(***************************************************************************)
EXTENDS Naturals, Sequences, SequencesExt

CONSTANTS Clients,
          Frames   \* numbers

VARIABLES
  members,  \* who is connected
  broken,   \* whose connection is broken
  pushes,   \* the frames that are pushes; the others are responses
  box,      \* per client: what he has been given
  owed,     \* per client: what he has yet to be given
  open,     \* posted and not gone on to the library
  late,     \* open when somebody came or went
  lib       \* what the library has been given

mailVars == <<members, broken, pushes, box, owed, open, late, lib>>

MailInit ==
  /\ members = {} /\ broken = {} /\ pushes = {}
  /\ box = [c \in Clients |-> <<>>] /\ owed = [c \in Clients |-> {}]
  /\ open = {} /\ late = {} /\ lib = <<>>

-----------------------------------------------------------------------------
Join(c) ==
  /\ c \notin members
  /\ members' = members \cup {c} /\ late' = late \cup open
  /\ UNCHANGED <<broken, pushes, box, owed, open, lib>>

Part(c) ==
  /\ c \in members
  /\ members' = members \ {c} /\ late' = late \cup open
  /\ UNCHANGED <<broken, pushes, box, owed, open, lib>>

Break(c) ==
  /\ broken' = broken \cup {c}
  /\ UNCHANGED <<members, pushes, box, owed, open, late, lib>>

\* A push is coming.
Announce(f) ==
  /\ f \notin open \cup ToSet(lib)
  /\ pushes' = pushes \cup {f}
  /\ UNCHANGED <<members, broken, box, owed, open, late, lib>>

\* The next frame: a push is owed to everybody, a response to nobody.
Post(f) ==
  /\ \A g \in open \cup ToSet(lib) : g < f
  /\ open' = open \cup {f}
  /\ owed' = [c \in Clients |-> IF f \in pushes /\ c \in members THEN owed[c] \cup {f}
                               ELSE owed[c]]
  /\ UNCHANGED <<members, broken, pushes, box, late, lib>>

\* c is given the first of what he is owed, or what overtakes a late one.
Give(c, f) ==
  /\ c \notin broken
  /\ f \in owed[c] /\ \A g \in owed[c] \ late : f <= g
  /\ box' = [box EXCEPT ![c] = Append(box[c], f)]
  /\ owed' = [owed EXCEPT ![c] = owed[c] \ {f}]
  /\ UNCHANGED <<members, broken, pushes, open, late, lib>>

Miss(c, f) ==
  /\ c \in broken
  /\ f \in owed[c]
  /\ owed' = [owed EXCEPT ![c] = owed[c] \ {f}]
  /\ UNCHANGED <<members, broken, pushes, box, open, late, lib>>

PassOn(f) ==
  /\ f \in open /\ \A c \in Clients : f \notin owed[c]
  /\ open' = open \ {f} /\ lib' = Append(lib, f)
  /\ UNCHANGED <<members, broken, pushes, box, owed, late>>

MailNext ==
  \/ \E c \in Clients : Join(c) \/ Part(c) \/ Break(c)
  \/ \E f \in Frames : \/ Announce(f) \/ Post(f) \/ PassOn(f)
                        \/ \E c \in Clients : Give(c, f) \/ Miss(c, f)

MailSpec == MailInit /\ [][MailNext]_mailVars
=============================================================================
