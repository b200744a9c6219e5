---------------------------- MODULE DisplayLease ----------------------------
(***************************************************************************)
(* What the handoff process promises to the compositors on either side of  *)
(* it, wherever it fails or is killed: it takes one card, and only a free  *)
(* one; a picture it has shown stays until a client ends it; and the card  *)
(* is given back with nothing left on it.                                  *)
(***************************************************************************)
CONSTANT Card

VARIABLES
  stage,   \* of the lease
  master,  \* who has set master on each card
  picture, \* what of the surface exists: nothing, a part of it, or all, shown
  asked    \* a client has ended the surface

lease == <<stage, master, picture, asked>>

Init ==
  /\ stage = "away"
  /\ master \in [Card -> {"none", "other"}]
  /\ picture = "nothing"
  /\ asked = FALSE

\* Every card the process has goes back to nobody.
Returned == [c \in Card |-> IF master[c] = "self" THEN "none" ELSE master[c]]

Launch ==
  /\ stage = "away" /\ stage' = "waiting"
  /\ UNCHANGED <<master, picture, asked>>

Resign ==
  /\ stage = "waiting" /\ stage' = "away"
  /\ UNCHANGED <<master, picture, asked>>

Take ==
  /\ stage = "waiting" /\ stage' = "settling"
  /\ \E c \in Card : /\ master[c] = "none"
                     /\ master' = [master EXCEPT ![c] = "self"]
  /\ UNCHANGED <<picture, asked>>

Build ==
  /\ stage = "settling" /\ picture = "nothing" /\ picture' = "partial"
  /\ UNCHANGED <<stage, master, asked>>

Fail ==
  /\ stage = "settling" /\ stage' = "clearing"
  /\ picture' \in {picture, "nothing"}
  /\ UNCHANGED <<master, asked>>

Show ==
  /\ stage = "settling" /\ stage' = "showing"
  /\ picture = "partial" /\ picture' = "shown"
  /\ UNCHANGED <<master, asked>>

Ask ==
  /\ stage = "showing" /\ ~asked /\ asked'
  /\ UNCHANGED <<stage, master, picture>>

Stop ==
  /\ stage = "showing" /\ asked
  /\ stage' = "clearing" /\ ~asked'
  /\ UNCHANGED <<master, picture>>

Clear ==
  /\ stage = "clearing" /\ picture' = "nothing"
  /\ UNCHANGED <<stage, master, asked>>

Give ==
  /\ stage = "clearing" /\ picture = "nothing"
  /\ stage' = "away" /\ master' = Returned
  /\ UNCHANGED <<picture, asked>>

Die ==
  /\ stage' = "away" /\ master' = Returned
  /\ picture' = "nothing" /\ ~asked'

\* Compositors come and go on the cards the process does not have.
Others ==
  /\ \E c \in Card :
       \/ master[c] = "none" /\ master' = [master EXCEPT ![c] = "other"]
       \/ master[c] = "other" /\ master' = [master EXCEPT ![c] = "none"]
  /\ UNCHANGED <<stage, picture, asked>>

Next == \/ Launch \/ Resign \/ Take \/ Build \/ Fail \/ Show \/ Ask \/ Stop
        \/ Clear \/ Give \/ Die \/ Others

Spec == Init /\ [][Next]_lease
=============================================================================
