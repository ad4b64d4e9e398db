------------------------------ MODULE Mailbox ------------------------------
(***************************************************************************)
(* What the master state machine relies on: a bounded mailbox. Any task    *)
(* puts an event in, the state machine takes the oldest one out. Posting   *)
(* into a full mailbox breaks it, and a broken mailbox promises nothing.   *)
(***************************************************************************)
EXTENDS Naturals, Sequences

CONSTANTS Capacity, Events, Quiet

VARIABLES box, out, broken

mailVars == <<box, out, broken>>

Init ==
  /\ box = <<Quiet>>
  /\ out = Quiet
  /\ broken = FALSE

Put(e) ==
  /\ ~broken
  /\ Len(box) < Capacity
  /\ box' = Append(box, e)
  /\ UNCHANGED <<out, broken>>

Take ==
  /\ ~broken
  /\ box # <<>>
  /\ out' = Head(box)
  /\ box' = Tail(box)
  /\ UNCHANGED broken

\* The lock of the mailbox could not be taken: the reader gets the quiet event
\* and the mail stays where it is.
Missed ==
  /\ box # <<>>
  /\ out' = Quiet
  /\ UNCHANGED <<box, broken>>

Overflow ==
  /\ ~broken
  /\ Len(box) = Capacity
  /\ broken' = TRUE
  /\ box' = <<>>
  /\ UNCHANGED out

Ruined ==
  /\ broken
  /\ out' \in Events
  /\ UNCHANGED <<box, broken>>

Next == (\E e \in Events : Put(e)) \/ Take \/ Missed \/ Overflow \/ Ruined

Spec == Init /\ [][Next]_mailVars

=============================================================================
