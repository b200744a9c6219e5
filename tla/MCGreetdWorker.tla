--------------------------- MODULE MCGreetdWorker ---------------------------
(***************************************************************************)
(* The worker with the splash it starts, in front of a user interface that *)
(* may send any command at any time and reads events when it likes.        *)
(*                                                                         *)
(* A step of the worker outside `pc = "splash"` is GreetdWorker's; what it *)
(* does to its WaylandSplash value is Drop or Detach of SplashHandshake.   *)
(* In between, the call of start is as long as the handshake, and its      *)
(* result decides between SplashReady and SplashFails.                     *)
(***************************************************************************)
EXTENDS GreetdWorker, SplashHandshake

CONSTANT MaxQueue  \* bound: messages waiting in either channel

vars == <<channels, workerVars, splashVars>>

Sends ==
  /\ Len(commands) < MaxQueue
  /\ \/ \E u \in User, s \in Session :
          SendCommand(Begin([user |-> u, session |-> s, theme |-> u]))
     \/ \E u \in User : SendCommand(AuthResponse(u))
  /\ UNCHANGED <<events, workerVars, splashVars>>

Reads ==
  /\ events # <<>>
  /\ events' = Tail(events)
  /\ UNCHANGED <<commands, workerVars, splashVars>>

\* WaylandSplash::start, called in the Success arm.
Handshake ==
  /\ pc = "splash"
  /\ \/ Call /\ UNCHANGED <<channels, workerVars>>
     \/ StartReady /\ SplashReady
     \/ StartError /\ SplashFails

\* Every other step; the handle goes where the worker's code puts it.
Elsewhere ==
  /\ pc # "splash"
  /\ WorkerNext
  /\ \/ splash' = splash /\ UNCHANGED splashVars
     \/ splash' # splash /\ splash' = "none" /\ Drop
     \/ splash' # splash /\ splash' = "detached" /\ Detach

Worker == Len(events) < MaxQueue /\ (Handshake \/ Elsewhere)

Signal ==
  /\ pc = "splash"
  /\ Len(events) < MaxQueue
  /\ Interrupted /\ SplashFails

Environment == (Splash \/ Elapse) /\ UNCHANGED <<channels, workerVars>>

Init == ChannelsInit /\ WorkerInit /\ SplashInit

Next == Worker \/ Signal \/ Sends \/ Reads \/ Environment

Spec == Init /\ [][Next]_vars

\* A splash that has begun its marker goes on, or goes away.
Finishes == Calling /\ wrote # <<>> /\ Splash /\ UNCHANGED <<channels, workerVars>>

FairSpec ==
  /\ Spec
  /\ WF_vars(Worker)
  /\ WF_vars(Reads)
  /\ WF_vars(Environment /\ Elapse)
  /\ WF_vars(Finishes)

-----------------------------------------------------------------------------

\* A splash that nobody owns covers a session greetd was told to start: on
\* every other way out of an exchange the process is gone, too.
\* (handle_response's error arms, `?`, Drop and detach)
StraysCoverASession == stray => launched # NoRequest

\* The call returns: a splash that dies is noticed, one that says nothing is
\* given up at the deadline.  One that stops in the middle of its marker would
\* hold the worker for ever: READY_TIMEOUT covers only the first byte, and
\* FairSpec has to assume that the splash goes on.
StartReturns == pc = "splash" ~> pc # "splash"

\* A slot left taken, by an earlier greeter or a failed splash, does not lock
\* the user out: if logins go on being refused because of it, either it is
\* freed again and again, or the cancellation goes on being lost.
\* (greetd.rs Response::Error: cancel before reporting the failure)
RefusedForSlot == pc = "reply" /\ request = "create" /\ slot # "free"

\* The socket breaks, or CancelSession is rejected or lost.
Disturbed ==
  /\ pc' = "idle" /\ slot' # "free"
  /\ pc = "cancel" \/ events' = Append(events, "GreeterUnavailable")

RefusalsEnd ==
  []<>RefusedForSlot => []<>(slot = "free") \/ []<><<Disturbed>>_vars
=============================================================================
