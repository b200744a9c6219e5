----------------------- MODULE SplashHandshakeProofs -----------------------
(***************************************************************************)
(* Theorems about the worker with its splash, for a marker of any length,  *)
(* under any faults of greetd and of the splash, in front of a user        *)
(* interface that may send anything.                                       *)
(***************************************************************************)
EXTENDS MCGreetdWorker, GreetdWorkerProofs

-----------------------------------------------------------------------------
(* The handshake by itself                                                 *)

\* While a call waits it has a child and the reading end; outside of a call
\* the pipe is gone; a right byte was written by a splash that had drawn.
HandshakeInv ==
  /\ SplashTypeOK
  /\ Calling => child # "none" /\ readEnd
  /\ ~Calling => ~readEnd /\ writers = {} /\ wrote = <<>> /\ taken = 0
  /\ start = "idle" => child = "none"
  /\ start = "held" => child # "none" /\ drawn
  /\ "greeter" \notin writers
  /\ leaked => "spawn" \in SplashFaults
  /\ \A i \in 1 .. Len(wrote) : wrote[i] = "right" => drawn

\* An empty pipe satisfies everything the invariant says of its contents.
LEMMA NothingWritten ==
  /\ <<>> \in Seq({"right", "wrong"})
  /\ Len(<<>>) = 0 /\ Len(<<>>) <= MarkerLength
  /\ 0 \in 0 .. Len(<<>>)
  /\ \A i \in 1 .. Len(<<>>) : FALSE
<1>1. <<>> \in Seq({"right", "wrong"}) /\ Len(<<>>) = 0
  OBVIOUS
<1> QED
  BY <1>1, MarkerAssumption

LEMMA InitEstablishes == SplashInit => HandshakeInv
<1> SUFFICES ASSUME SplashInit PROVE HandshakeInv
  OBVIOUS
<1>1. SplashTypeOK
  BY NothingWritten DEF SplashInit, SplashTypeOK
<1>2. \A i \in 1 .. Len(wrote) : wrote[i] = "right" => drawn
  BY NothingWritten DEF SplashInit
<1> QED
  BY <1>1, <1>2 DEF SplashInit, HandshakeInv, Calling

\* Ending a call empties the pipe.
LEMMA ClosedPipeIsEmpty ==
  ASSUME ClosePipe
  PROVE  /\ wrote' \in Seq({"right", "wrong"}) /\ Len(wrote') <= MarkerLength
         /\ taken' \in 0 .. Len(wrote')
         /\ \A i \in 1 .. Len(wrote') : wrote'[i] = "right" => drawn'
  BY NothingWritten DEF ClosePipe

\* Ending it with an error leaves the variables as they were before the call.
LEMMA FailureRestores == HandshakeInv /\ StartFails => HandshakeInv'
<1> SUFFICES ASSUME HandshakeInv, StartFails PROVE HandshakeInv'
  OBVIOUS
<1>1. ClosePipe
  BY DEF StartFails
<1>2. SplashTypeOK'
  BY <1>1, ClosedPipeIsEmpty
  DEF StartFails, ClosePipe, Reap, Disown, HandshakeInv, SplashTypeOK
<1> QED
  BY <1>1, <1>2, ClosedPipeIsEmpty
  DEF HandshakeInv, StartFails, ClosePipe, Reap, Disown, SplashTypeOK, Calling

LEMMA WriteKeeps == HandshakeInv /\ Write => HandshakeInv'
<1> SUFFICES ASSUME HandshakeInv, Write PROVE HandshakeInv'
  OBVIOUS
<1> USE DEF HandshakeInv, SplashTypeOK, Calling
<1>1. PICK byte \in {"right", "wrong"} :
        wrote' = Append(wrote, byte) /\ (byte = "right" => drawn)
  BY DEF Write
<1>2. /\ wrote' \in Seq({"right", "wrong"})
      /\ Len(wrote') = Len(wrote) + 1
      /\ \A i \in 1 .. Len(wrote') :
           wrote'[i] = IF i = Len(wrote) + 1 THEN byte ELSE wrote[i]
  BY <1>1
<1>3. Len(wrote') <= MarkerLength
  BY <1>2, MarkerAssumption DEF Write
<1>4. \A i \in 1 .. Len(wrote') : wrote'[i] = "right" => drawn'
  <2> SUFFICES ASSUME NEW i \in 1 .. Len(wrote'), wrote'[i] = "right" PROVE drawn
    BY DEF Write
  <2>1. CASE i = Len(wrote) + 1
    BY <2>1, <1>1, <1>2
  <2>2. CASE i # Len(wrote) + 1
    <3>1. i \in 1 .. Len(wrote)
      BY <2>2, <1>2
    <3>2. wrote[i] = "right"
      BY <2>2, <1>2
    <3> QED
      BY <3>1, <3>2
  <2> QED
    BY <2>1, <2>2
<1> QED
  BY <1>2, <1>3, <1>4 DEF Write

LEMMA StepKeeps == HandshakeInv /\ [SplashNext]_splashVars => HandshakeInv'
<1> SUFFICES ASSUME HandshakeInv, [SplashNext]_splashVars PROVE HandshakeInv'
  OBVIOUS
<1>1. CASE UNCHANGED splashVars
  BY <1>1 DEF splashVars, HandshakeInv, SplashTypeOK, Calling
<1>2. CASE StartUnavailable
  BY <1>2 DEF StartUnavailable, splashVars, HandshakeInv, SplashTypeOK, Calling
<1>3. CASE SpawnFails
  BY <1>3 DEF SpawnFails, HandshakeInv, SplashTypeOK, Calling
<1>4. CASE Spawn
  BY <1>4 DEF Spawn, HandshakeInv, SplashTypeOK, Calling
<1>5. CASE PollReady
  BY <1>5 DEF PollReady, HandshakeInv, SplashTypeOK, Calling
<1>6. CASE ReadByte
  BY <1>6 DEF ReadByte, Waiting, HandshakeInv, SplashTypeOK, Calling
<1>7. CASE PollFails \/ InvalidMarker \/ Interrupted
  BY <1>7, FailureRestores DEF PollFails, InvalidMarker, Interrupted
<1>8. CASE StartReady
  <2>1. drawn
    BY <1>8, MarkerAssumption DEF StartReady, MarkerRead, HandshakeInv,
       SplashTypeOK
  <2>2. ClosePipe
    BY <1>8 DEF StartReady
  <2>3. SplashTypeOK'
    BY <1>8, <2>2, ClosedPipeIsEmpty
    DEF StartReady, ClosePipe, HandshakeInv, SplashTypeOK
  <2> QED
    BY <1>8, <2>1, <2>2, <2>3, ClosedPipeIsEmpty
    DEF StartReady, ReadEnds, ClosePipe, HandshakeInv, SplashTypeOK, Calling
<1>9. CASE Drop \/ Detach
  <2>1. SplashTypeOK'
    BY <1>9 DEF Drop, Detach, Reap, Disown, HandshakeInv, SplashTypeOK
  <2>2. ~Calling /\ start' = "idle" /\ child' = "none" /\ writers' = {}
    BY <1>9 DEF Drop, Detach, Reap, Disown, HandshakeInv, Calling
  <2>3. UNCHANGED <<wrote, taken, readEnd, leaked>>
    BY <1>9 DEF Drop, Detach
  <2>4. wrote = <<>> /\ taken = 0 /\ ~readEnd
    BY <2>2 DEF HandshakeInv
  <2>5. \A i \in 1 .. Len(wrote') : wrote'[i] = "right" => drawn'
    BY <2>3, <2>4, NothingWritten
  <2> QED
    BY <2>1, <2>2, <2>3, <2>4, <2>5 DEF HandshakeInv, Calling
<1>11. CASE DrawFirstFrame
  BY <1>11 DEF DrawFirstFrame, HandshakeInv, SplashTypeOK, Calling
<1>12. CASE Write
  BY <1>12, WriteKeeps
<1>13. CASE CloseReadyFd
  BY <1>13 DEF CloseReadyFd, HandshakeInv, SplashTypeOK, Calling
<1>14. CASE Die
  BY <1>14 DEF Die, HandshakeInv, SplashTypeOK, Calling
<1>15. CASE Elapse
  BY <1>15 DEF Elapse, HandshakeInv, SplashTypeOK, Calling
<1> QED
  BY <1>1, <1>2, <1>3, <1>4, <1>5, <1>6, <1>7, <1>8, <1>9, <1>11,
     <1>12, <1>13, <1>14, <1>15
  DEF SplashNext, Call, Return, StartError, Handle, Splash

LEMMA HandshakeInvHolds == SplashSpec => []HandshakeInv
  BY InitEstablishes, StepKeeps, PTL DEF SplashSpec

-----------------------------------------------------------------------------
(* The worker and the handshake                                            *)

\* The worker's step at the end of a call of start, and elsewhere.
LEMMA WorkerStepCases ==
  ASSUME Next
  PROVE  \/ WorkerNext
         \/ Call /\ UNCHANGED <<channels, workerVars>>
         \/ Sends
         \/ Reads
         \/ Environment
BY DEF Next, Worker, Signal, Handshake, Elsewhere, WorkerNext

\* What the worker, its signals and the splash do to the handshake are steps of
\* the handshake: its theorems hold of every start the worker makes.
THEOREM WorkerServesHandshake == Spec => SplashSpec
<1>1. Init => SplashInit
  BY DEF Init
<1>2. [Next]_vars => [SplashNext]_splashVars
  BY DEF Next, vars, Worker, Handshake, Elsewhere, Signal, Sends, Reads,
     Environment, SplashNext, Return, Handle
<1> QED
  BY <1>1, <1>2, PTL DEF Spec, SplashSpec

\* Between the call of start and its return nothing of the worker changes: the
\* models that take the call as one step leave out no behaviour of the worker.
\* (handle_response is blocked in WaylandSplash::start)
THEOREM StartIsOneStep == Spec => WorkerInit /\ [][WorkerNext]_workerVars
<1>1. Init => WorkerInit
  BY DEF Init
<1>2. [Next]_vars => [WorkerNext]_workerVars
  BY WorkerStepCases DEF vars, Sends, Reads, Environment
<1> QED
  BY <1>1, <1>2, PTL DEF Spec

\* The handle exists while the worker has a splash, and a call of start is
\* under way only in the Success arm.
HandleFollowsWorker ==
  /\ splash = "shown" <=> start = "held"
  /\ Calling => pc = "splash"

CoverInv ==
  /\ WorkerTypeOK
  /\ Conversing
  /\ SplashIsOwned
  /\ HandleFollowsWorker
  /\ StraysCoverASession

LEMMA InitCovers == Init => CoverInv
<1> SUFFICES ASSUME Init PROVE CoverInv
  OBVIOUS
<1> USE CountAssumption, RoundsAssumption
    DEF Init, ChannelsInit, WorkerInit, SplashInit
<1>1. ChannelsTypeOK
  BY DEF ChannelsTypeOK
<1>2. WorkerTypeOK
  BY <1>1 DEF WorkerTypeOK, Location, Slot
<1> QED
  BY <1>2 DEF CoverInv, Conversing, SplashIsOwned, HandleFollowsWorker,
     StraysCoverASession, Calling

\* Whatever the user interface sends or reads, the channels stay well typed.
LEMMA OtherEndKeepsTypes ==
  ASSUME ChannelsTypeOK, Sends \/ Reads
  PROVE  ChannelsTypeOK'
<1>1. CASE Sends
  <2>1. PICK c \in Command : SendCommand(c)
    <3>1. ASSUME NEW u \in User, NEW s \in Session
          PROVE  /\ Begin([user |-> u, session |-> s, theme |-> u]) \in Command
                 /\ AuthResponse(u) \in Command
      BY CountAssumption DEF Begin, AuthResponse, Command, Request, User
    <3>2. CASE \E u \in User, s \in Session :
                 SendCommand(Begin([user |-> u, session |-> s, theme |-> u]))
      BY <3>1, <3>2
    <3>3. CASE \E u \in User : SendCommand(AuthResponse(u))
      <4>1. \A u \in User : AuthResponse(u) \in Command
        BY CountAssumption DEF AuthResponse, Command, User
      <4> QED
        BY <3>3, <4>1
    <3> QED
      BY <1>1, <3>2, <3>3 DEF Sends
  <2> QED
    BY <1>1, <2>1, SendCommandType DEF Sends
<1>2. CASE Reads
  BY <1>2 DEF Reads, ChannelsTypeOK
<1> QED
  BY <1>1, <1>2

LEMMA StepCovers == CoverInv /\ [Next]_vars => CoverInv'
<1> SUFFICES ASSUME CoverInv, [Next]_vars PROVE CoverInv'
  OBVIOUS
<1> USE DEF CoverInv
<1>1. WorkerTypeOK' /\ Conversing' /\ SplashIsOwned'
  <2>1. CASE WorkerNext
    BY <2>1, WorkerKeepsTypes, WorkerKeepsSplash DEF WorkerTypeOK
  <2>2. ASSUME ChannelsTypeOK', UNCHANGED workerVars
        PROVE  WorkerTypeOK' /\ Conversing' /\ SplashIsOwned'
    BY <2>2 DEF workerVars, greetdVars, WorkerTypeOK, Conversing, SplashIsOwned
  <2>3. CASE Sends \/ Reads
    BY <2>2, <2>3, OtherEndKeepsTypes DEF Sends, Reads, WorkerTypeOK
  <2>4. CASE UNCHANGED <<channels, workerVars>>
    BY <2>2, <2>4 DEF channels, WorkerTypeOK, ChannelsTypeOK
  <2> QED
    BY <2>1, <2>3, <2>4, WorkerStepCases DEF Environment, vars
<1>2. ASSUME UNCHANGED <<pc, splash, start, stray, launched>>
      PROVE  HandleFollowsWorker' /\ StraysCoverASession'
  BY <1>2 DEF HandleFollowsWorker, StraysCoverASession, Calling
<1>3. WorkerNext /\ launched # NoRequest => launched' # NoRequest
  BY LaunchesStay
<1>4. CASE Handshake \/ Signal
  <2>1. CASE Call /\ UNCHANGED <<channels, workerVars>>
    <3>1. start # "held" /\ start' \in {"poll", "read"} /\ stray' = stray
      BY <2>1 DEF Call, Spawn, PollReady, ReadByte
    <3>2. pc = "splash" /\ UNCHANGED <<pc, splash, launched>>
      BY <1>4, <2>1 DEF Handshake, Signal, Interrupted, SplashFails, Disconnect,
         workerVars, greetdVars
    <3> QED
      BY <1>1, <3>1, <3>2
      DEF HandleFollowsWorker, StraysCoverASession, Calling
  <2>2. CASE StartReady /\ SplashReady
    BY <1>1, <2>2 DEF StartReady, SplashReady, greetdVars, HandleFollowsWorker,
       StraysCoverASession, Calling
  <2>3. CASE (StartError \/ Interrupted) /\ SplashFails
    <3>1. start # "held" /\ start' = "idle" /\ stray' = stray
      BY <2>3 DEF StartError, StartUnavailable, SpawnFails, PollFails,
         InvalidMarker, ReadEnds, Interrupted, StartFails, Reap, splashVars
    <3> QED
      BY <1>1, <2>3, <3>1 DEF SplashFails, greetdVars, HandleFollowsWorker,
         StraysCoverASession, Calling
  <2> QED
    BY <1>4, <2>1, <2>2, <2>3 DEF Handshake, Signal
<1>5. CASE Elsewhere
  <2>1. ~Calling /\ (launched # NoRequest => launched' # NoRequest)
    BY <1>3, <1>5 DEF Elsewhere, HandleFollowsWorker
  <2>2. CASE splash' = splash /\ UNCHANGED splashVars
    BY <1>1, <2>1, <2>2
    DEF splashVars, HandleFollowsWorker, StraysCoverASession, Calling
  <2>3. CASE splash' = "none" /\ Drop
    BY <1>1, <2>1, <2>3
    DEF Drop, Reap, HandleFollowsWorker, StraysCoverASession, Calling
  <2>4. CASE splash' = "detached" /\ Detach
    <3>1. launched' # NoRequest
      BY <1>1, <2>4 DEF SplashIsOwned
    <3> QED
      BY <1>1, <2>4, <3>1
      DEF Detach, HandleFollowsWorker, StraysCoverASession, Calling
  <2> QED
    BY <1>5, <2>2, <2>3, <2>4 DEF Elsewhere
<1>6. CASE Sends \/ Reads \/ UNCHANGED vars
  BY <1>1, <1>2, <1>6 DEF Sends, Reads, vars, workerVars, greetdVars, splashVars
<1>7. CASE Environment
  <2>1. UNCHANGED <<start, stray>>
    BY <1>7 DEF Environment, Splash, DrawFirstFrame, Write, CloseReadyFd, Die,
       Elapse
  <2> QED
    BY <1>1, <1>2, <1>7, <2>1 DEF Environment, workerVars, greetdVars
<1> QED
  BY <1>1, <1>4, <1>5, <1>6, <1>7 DEF Next, Worker

LEMMA CoverInvHolds == Spec => []CoverInv
BY InitCovers, StepCovers, PTL DEF Spec

\* A splash that nobody owns covers a session greetd was told to start,
\* whatever the form sends, greetd answers and the splash does.
\* (handle_response, Drop and detach)
THEOREM StraysAlwaysCover == Spec => []StraysCoverASession
BY CoverInvHolds, PTL DEF CoverInv

\* Between two attempts no splash is up unless it was detached for a session,
\* and while StartSession is outstanding it is up.
THEOREM WorkerOwnsItsSplash == Spec => []SplashIsOwned
BY CoverInvHolds, PTL DEF CoverInv

\* The worker alone pairs a session with the account greetd authenticated for
\* it, whatever commands arrive in whatever order.
THEOREM WorkerLaunchesAuthenticated == Spec => []LaunchesAuthenticatedAccount
<1>1. CoverInv => LaunchesAuthenticatedAccount
  BY DEF CoverInv, Conversing, LaunchesAuthenticatedAccount
<1> QED
  BY <1>1, CoverInvHolds, PTL

\* The pipe never holds more than a marker, and no more is read of it than was
\* written.
THEOREM SplashTypeCorrect == Spec => []SplashTypeOK
<1>1. HandshakeInv => SplashTypeOK
  BY DEF HandshakeInv
<1> QED
  BY <1>1, HandshakeInvHolds, WorkerServesHandshake, PTL

\* A call of WaylandSplash::start that has returned leaves no descriptor open
\* and no process behind, at whatever point it failed, and a dropped handle
\* leaves no process; only a failed spawn keeps the pipe.
THEOREM NothingIsLeft == Spec => []StartLeavesNothing
<1>1. HandshakeInv => StartLeavesNothing
  BY DEF HandshakeInv, StartLeavesNothing, SplashTypeOK, Calling
<1> QED
  BY <1>1, HandshakeInvHolds, WorkerServesHandshake, PTL

\* A handle is returned only for a splash whose first frame is on the screen,
\* for a marker of any length cut into any pieces.
THEOREM HandlesMeanFrames == Spec => []HandleMeansFrame
<1>1. HandshakeInv => HandleMeansFrame
  BY DEF HandshakeInv, HandleMeansFrame
<1> QED
  BY <1>1, HandshakeInvHolds, WorkerServesHandshake, PTL

\* greetd is told to start a session only behind a splash that has drawn its
\* first frame and has not been waited for, although the worker knows it only
\* by the handle.  (handle_response: WaylandSplash::start before StartSession)
THEOREM SessionsStartBehindFrames ==
  Spec => [](pc = "start" => drawn /\ child # "none")
<1>1. CoverInv /\ HandshakeInv => (pc = "start" => drawn /\ child # "none")
  BY DEF CoverInv, SplashIsOwned, HandleFollowsWorker, HandshakeInv
<1> QED
  BY <1>1, CoverInvHolds, HandshakeInvHolds, WorkerServesHandshake, PTL
=============================================================================
