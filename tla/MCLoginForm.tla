---------------------------- MODULE MCLoginForm ----------------------------
(***************************************************************************)
(* The form on its own, in front of a worker that may send any event at    *)
(* any time and takes commands when it likes.                              *)
(***************************************************************************)
EXTENDS LoginForm

CONSTANT MaxQueue  \* bound: events waiting in the channel

vars == <<channels, formVars>>

Worker ==
  /\ \/ /\ Len(events) < MaxQueue
        /\ \E e \in Event : SendEvent(e)
        /\ UNCHANGED commands
     \/ /\ commands # <<>>
        /\ commands' = Tail(commands)
        /\ UNCHANGED events
  /\ UNCHANGED formVars

Init == ChannelsInit /\ FormInit

Next == Worker \/ FormNext

Spec == Init /\ [][Next]_vars
=============================================================================
