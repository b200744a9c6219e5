--------------------------- MODULE HandoffProofs ---------------------------
(***************************************************************************)
(* Proofs about the greeter from GreeterProofs' invariants: the handoff to *)
(* the session, and the refinement of LoginExchange.                       *)
(***************************************************************************)
EXTENDS GreeterProofs

\* With a lost reply to StartSession besides, the worker does not know of the
\* session it started, and the theorems of the handoff are false.
CalmFaults == OrderlyFaults /\ "startLost" \notin Faults

\* The worker has no step between two attempts.
LEMMA IdleWorkerRests ==
  ASSUME pc = "idle", commands = <<>>
  PROVE  ~WorkerNext
  BY DEF WorkerNext, Boot, BeginSession, BeginUnreachable, IgnoreBegin,
     PostAnswer, RejectAnswer, ReadPrompt, CloneStream, CloneFails, ReadNote,
     Acknowledge, ReadFailure, ReadSuccess, SplashReady, SplashFails,
     StartAccepted, StartRefused, Cancel, IpcFails, StartReplyLost, Read,
     NextIs

-----------------------------------------------------------------------------
(* The splash                                                              *)

\* The splash belongs to the attempt it was started for, or to the session.
THEOREM SplashAlwaysOwned == Spec => []SplashIsOwned
  <1>1. Init => SplashIsOwned
    BY DEF Init, WorkerInit, SplashIsOwned
  <1>2. TypeInv /\ SplashIsOwned /\ [Next]_vars => SplashIsOwned'
    <2> SUFFICES ASSUME TypeInv, SplashIsOwned, [Next]_vars
                 PROVE  SplashIsOwned'
      OBVIOUS
    <2> USE DEF SplashIsOwned
    <2>1. CASE UNCHANGED workerVars
      BY <2>1 DEF workerVars, greetdVars
    <2>2. CASE WorkerNext
      BY <2>2, WorkerKeepsSplash DEF TypeInv, TypeOK
    <2> QED BY <2>1, <2>2 DEF Next, Worker, Form, Terminate, vars
  <1> QED BY <1>1, <1>2, TypeInvHolds, PTL DEF Spec

-----------------------------------------------------------------------------
(* The handoff                                                             *)

\* Once greetd has the session the worker rests behind the splash, and the
\* form is told of it, or knows and takes no key.
LaunchInv ==
  launched # NoRequest =>
    /\ pc = "idle" /\ commands = <<>> /\ splash = "detached"
    /\ \/ LastIs({"SessionStarted"})
       \/ handoff_active /\ events = <<>>

LEMMA LaunchNext ==
  ASSUME CalmFaults, TypeInv, AttemptInv, LaunchInv, [Next]_vars
  PROVE  LaunchInv' /\ (launched # NoRequest => launched' = launched)
  <1>1. CASE launched = NoRequest
    <2>1. CASE UNCHANGED launched
      BY <1>1, <2>1 DEF LaunchInv
    <2>2. CASE StartAccepted
      <3>1. commands = <<>> /\ events \in Seq(Event)
        BY <2>2 DEF AttemptInv, OneHolder, AtWorker, StartAccepted, TypeInv,
           TypeOK, WorkerTypeOK, ChannelsTypeOK
      <3>2. events' = Append(events, "SessionStarted")
        BY <2>2 DEF StartAccepted, SendEvent
      <3>3. events' # <<>> /\ events'[Len(events')] = "SessionStarted"
        BY <3>1, <3>2
      <3> QED BY <1>1, <2>2, <3>1, <3>3
              DEF StartAccepted, Disconnect, LaunchInv, LastIs
    <2>3. UNCHANGED launched \/ StartAccepted
      <3>1. ~StartReplyLost
        BY DEF StartReplyLost, CalmFaults
      <3>2. CASE WorkerNext
        BY <3>1, <3>2
        DEF WorkerNext, Boot, BeginSession, BeginUnreachable, IgnoreBegin,
            PostAnswer, RejectAnswer, ReadPrompt, CloneStream, CloneFails,
            ReadNote, Acknowledge, ReadFailure, ReadSuccess, SplashReady,
            SplashFails, StartRefused, Cancel, IpcFails, workerVars,
            greetdVars
      <3>3. CASE UNCHANGED workerVars
        BY <3>3 DEF workerVars, greetdVars
      <3> QED BY <3>2, <3>3 DEF Next, Worker, Form, Terminate, vars
    <2> QED BY <1>1, <2>1, <2>2, <2>3
  <1>2. CASE launched # NoRequest
    <2>1. /\ pc = "idle" /\ commands = <<>> /\ splash = "detached"
          /\ LastIs({"SessionStarted"}) \/ (handoff_active /\ events = <<>>)
      BY <1>2 DEF LaunchInv
    <2>2. UNCHANGED workerVars
      BY <2>1, IdleWorkerRests DEF Next, Worker, Form, Terminate, vars
    <2>3. UNCHANGED <<pc, splash, launched>>
      BY <2>2 DEF workerVars, greetdVars
    <2>4. CASE UNCHANGED <<commands, events, handoff_active>>
      BY <2>1, <2>3, <2>4 DEF LaunchInv, LastIs
    <2>5. LastIs({"SessionStarted"}) => /\ HandedBack /\ HandsLast
                                        /\ ~waiting_for_prompt
                                        /\ authentication_in_progress
      BY DEF LastIs, HandedBack, Hands, AttemptInv, OneHolder
    <2>6. ASSUME NEW key \in Key, Press(key)
          PROVE  UNCHANGED <<commands, events, handoff_active>>
      <3>1. ~SubmitAnswer(key) /\ ~SubmitBegin(key)
        BY <2>1, <2>5 DEF SubmitAnswer, SubmitBegin, Submits, FormTakes,
           NoAttempt
      <3> QED BY <2>6, <3>1
              DEF Press, MoveFocus, MoveVertical, MoveSession, EditPassword,
                  CancelInput, ActivateSelector, PowerMove, PowerRequest,
                  EndKey, channels
    <2>7. ASSUME NEW kinds, Handle(kinds)
          PROVE  /\ LastIs({"SessionStarted"}) /\ Head(events) \in kinds
                 /\ Head(events) \in Hands =>
                      Head(events) = "SessionStarted" /\ events' = <<>>
                 /\ Head(events) \notin Hands => LastIs({"SessionStarted"})'
      <3>1. LastIs({"SessionStarted"}) /\ HandsLast
        BY <2>1, <2>5, <2>7 DEF Handle
      <3>2. /\ events \in Seq(Event) /\ events # <<>>
            /\ events' = Tail(events) /\ Head(events) \in kinds
            /\ events[Len(events)] = "SessionStarted"
        BY <2>7, <3>1 DEF Handle, TypeInv, TypeOK, WorkerTypeOK,
           ChannelsTypeOK, LastIs
      <3>3. /\ Len(events) \in Nat \ {0}
            /\ Head(events) = events[1]
            /\ Len(events') = Len(events) - 1
            /\ \A i \in 1 .. Len(events') : events'[i] = events[i + 1]
        BY <3>2
      <3>4. CASE Len(events) = 1
        BY <3>1, <3>2, <3>3, <3>4 DEF Hands
      <3>5. CASE Len(events) # 1
        <4>1. Head(events) \notin Hands
          BY <3>1, <3>3, <3>5 DEF HandsLast
        <4>2. events' # <<>> /\ events'[Len(events')] = events[Len(events)]
          BY <3>3, <3>5
        <4> QED BY <3>1, <3>2, <4>1, <4>2 DEF LastIs
      <3> QED BY <3>4, <3>5
    <2>8. CASE HandleEvent
      <3>1. {"Ready", "Info", "SessionStarting"} \cap Hands = {}
        BY DEF Hands, Prompts, Failures
      <3>2. CASE OnNotice \/ OnSessionStarting
        <4>1. LastIs({"SessionStarted"})' /\ UNCHANGED commands
          BY <2>7, <3>1, <3>2 DEF OnNotice, OnSessionStarting
        <4> QED BY <2>1, <2>3, <4>1 DEF LaunchInv
      <3>3. CASE OnSessionStarted
        <4>1. "SessionStarted" \in Hands
          BY DEF Hands
        <4>2. events' = <<>> /\ handoff_active' /\ UNCHANGED commands
          BY <2>7, <3>3, <4>1 DEF OnSessionStarted
        <4> QED BY <2>1, <2>3, <4>2 DEF LaunchInv
      <3>4. ~OnPromptAnswered /\ ~OnFailure /\ ~OnUnavailable
        BY <2>7 DEF OnPromptAnswered, OnFailure, OnUnavailable, Hands,
           Prompts, Failures
      <3>5. \A kind \in Prompts : ~OnPromptShown(kind)
        BY <2>7 DEF OnPromptShown, Hands, Prompts
      <3> QED BY <2>8, <3>2, <3>3, <3>4, <3>5 DEF HandleEvent
    <2>9. CASE NoInput \/ NextTurn \/ PowerReturns \/ RequestTermination
      BY <2>4, <2>9
      DEF NoInput, NextTurn, PowerReturns, RequestTermination, channels
    <2> QED
      <3>1. CASE UNCHANGED vars
        BY <2>4, <2>3, <3>1 DEF vars, channels, formVars
      <3> QED BY <2>3, <2>4, <2>6, <2>8, <2>9, <3>1, IdleWorkerRests, <2>1
              DEF Next, Worker, Form, Terminate, FormNext, Loop
  <1> QED BY <1>1, <1>2

THEOREM LaunchInvHolds ==
  ASSUME CalmFaults
  PROVE  Spec => []LaunchInv
  <1>1. Init => LaunchInv
    BY DEF Init, WorkerInit, LaunchInv
  <1>2. TypeInv /\ AttemptInv /\ LaunchInv /\ [Next]_vars => LaunchInv'
    BY LaunchNext
  <1> QED BY <1>1, <1>2, TypeInvHolds, AttemptInvHolds, PTL
          DEF Spec, CalmFaults

\* The splash never leaves the screen after greetd was told to start.
THEOREM HandoffAlwaysCovered ==
  ASSUME CalmFaults
  PROVE  Spec => []HandoffIsCovered
  <1>1. LaunchInv => HandoffIsCovered
    BY DEF LaunchInv, HandoffIsCovered
  <1> QED BY <1>1, LaunchInvHolds, PTL

\* Behind the splash no second session can be started.
THEOREM OneLaunch ==
  ASSUME CalmFaults
  PROVE  Spec => LaunchedOnce
  <1>1. /\ TypeInv /\ AttemptInv /\ LaunchInv /\ [Next]_vars
        => [launched # NoRequest => launched' = launched]_vars
    BY LaunchNext
  <1> QED BY <1>1, LaunchInvHolds, TypeInvHolds, AttemptInvHolds, PTL
          DEF Spec, LaunchedOnce, CalmFaults

-----------------------------------------------------------------------------
(* The form and the worker                                                 *)

\* The prompt on the screen is always one the worker waits for.
THEOREM PromptsAreLive ==
  ASSUME OrderlyFaults
  PROVE  Spec => []FormAsksForWorker
  <1>1. AttemptInv => FormAsksForWorker
    BY DEF AttemptInv, HolderAgrees, FormAsksForWorker
  <1> QED BY <1>1, AttemptInvHolds, PTL

\* The projection in use is always the selected account's.
THEOREM ThemesFollow == Spec => []ThemeFollowsSelection
  <1>1. TypeInv => ThemeFollowsSelection
    BY DEF TypeInv
  <1> QED BY <1>1, TypeInvHolds, PTL

-----------------------------------------------------------------------------
(* The form is never stuck                                                 *)

Announced == \E i \in 1 .. Len(events) : events[i] = "SessionStarting"

\* While the form refuses Enter the attempt is somewhere; and while it has yet
\* to learn that the session is starting, that is with the worker or behind
\* the announcement in the channel, so that no prompt is taken down by it.
Somewhere ==
  /\ authentication_in_progress =>
       waiting_for_prompt \/ commands # <<>> \/ HandedBack \/ AtWorker
  /\ Announced => HandedBack \/ AtWorker

LEMMA AnnouncementsComeFirst ==
  ASSUME ChannelsTypeOK, HandsLast, NEW kinds, Handle(kinds)
  PROVE  /\ Announced' => Announced /\ Head(events) \notin Hands
         /\ Head(events) = "SessionStarting" => Announced
  <1>1. /\ events \in Seq(Event) /\ events # <<>>
        /\ events' = Tail(events)
    BY DEF ChannelsTypeOK, Handle
  <1>2. /\ Len(events) \in Nat \ {0}
        /\ Len(events') = Len(events) - 1
        /\ Head(events) = events[1]
        /\ \A i \in 1 .. Len(events') : events'[i] = events[i + 1]
    BY <1>1
  <1>3. Announced' => Announced /\ Len(events) # 1
    BY <1>2 DEF Announced
  <1>4. Len(events) # 1 => Head(events) \notin Hands
    BY <1>2 DEF HandsLast
  <1>5. Head(events) = "SessionStarting" => Announced
    BY <1>2 DEF Announced
  <1> QED BY <1>3, <1>4, <1>5

LEMMA SomewhereNext ==
  ASSUME OrderlyFaults, TypeInv, AttemptInv, Somewhere, [Next]_vars
  PROVE  Somewhere'
  <1>1. /\ ChannelsTypeOK /\ OneHolder /\ HolderAgrees /\ HandsLast
        /\ HandedBack <=> Prompted \/ Ended
        /\ pc = "cancel" => verdict \in {"Error", "AuthFailed"}
    BY HandedBackCases
    DEF AttemptInv, OneHolder, TypeInv, TypeOK, WorkerTypeOK, Conversing
  <1>2. CASE Worker
    <2>1. UNCHANGED <<waiting_for_prompt, authentication_in_progress>>
      BY <1>2 DEF Worker, formVars, attempt
    <2>2. ASSUME NEW e \in Event, SendEvent(e), ~HandedBack, e \in Hands
          PROVE  Somewhere'
      BY <1>1, <2>2, SendEventFacts DEF Somewhere
    <2>3. CASE AtWorker'
      BY <2>3 DEF Somewhere
    <2>4. CASE Boot
      <3>1. ~HandedBack /\ ~AtWorker /\ ~waiting_for_prompt /\ ~Announced
        BY <1>1, <2>4 DEF Boot, HolderAgrees, AtWorker, Somewhere
      <3>2. events \in Seq(Event) /\ events' = Append(events, "Ready")
        BY <1>1, <2>4 DEF Boot, SendEvent, ChannelsTypeOK
      <3>3. ~Announced'
        BY <3>1, <3>2 DEF Announced
      <3> QED BY <2>1, <2>4, <3>1, <3>3 DEF Boot, Somewhere
    <2>5. CASE BeginUnreachable \/ RejectAnswer
      <3>1. ~HandedBack
        BY <1>1, <2>5 DEF BeginUnreachable, RejectAnswer, NextIs, OneHolder
      <3>2. {"GreeterUnavailable", "AuthPromptUnavailable"}
              \subseteq Hands \cap Event
        BY DEF Hands, Event, Failures
      <3> QED BY <2>2, <2>5, <3>1, <3>2 DEF BeginUnreachable, RejectAnswer
    <2>6. ASSUME NEW kind \in {"Secret", "Visible"}, ReadPrompt(kind)
          PROVE  Somewhere'
      <3>1. ~HandedBack
        BY <1>1, <2>6 DEF ReadPrompt, Read, OneHolder, AtWorker
      <3>2. {"SecretPrompt", "VisiblePrompt"} \subseteq Hands \cap Event
        BY DEF Hands, Event, Prompts
      <3> QED BY <2>2, <2>6, <3>1, <3>2 DEF ReadPrompt
    <2>7. CASE CloneStream
      BY <1>1, <2>1, <2>7
      DEF CloneStream, Somewhere, AtWorker, channels, HandedBack, LastIs,
          Announced
    <2>8. CASE SplashFails \/ Cancel \/ IpcFails \/ StartReplyLost
                 \/ StartAccepted
      <3>1. ~HandedBack
        BY <1>1, <2>8 DEF SplashFails, Cancel, IpcFails, StartReplyLost,
           StartAccepted, Read, OneHolder, AtWorker
      <3>2. {"Error", "AuthFailed", "GreeterUnavailable", "SessionStarted"}
              \subseteq Hands \cap Event
        BY DEF Hands, Event, Failures
      <3>3. \E e \in {"Error", "AuthFailed", "GreeterUnavailable",
                      "SessionStarted"} : SendEvent(e)
        BY <1>1, <2>8 DEF SplashFails, Cancel, IpcFails, StartReplyLost,
           StartAccepted, Break
      <3> QED BY <2>2, <3>1, <3>2, <3>3
    <2>9. ~CloneFails /\ ~IgnoreBegin
      BY <1>1 DEF CloneFails, OrderlyFaults, IgnoreBegin, HolderAgrees
    <2>10. CASE \/ BeginSession \/ PostAnswer \/ Acknowledge \/ ReadSuccess
                \/ SplashReady \/ StartRefused
                \/ \E kind \in {"Info", "pamError"} : ReadNote(kind)
                \/ \E kind \in {"AuthError", "OtherError"} :
                     ReadFailure(kind)
      BY <2>3, <2>10 DEF BeginSession, PostAnswer, Acknowledge, ReadSuccess,
         SplashReady, StartRefused, ReadNote, ReadFailure, AtWorker
    <2> QED BY <1>2, <2>4, <2>5, <2>6, <2>7, <2>8, <2>9, <2>10
            DEF Worker, WorkerNext
  <1>3. CASE UNCHANGED workerVars
    <2>1. AtWorker' <=> AtWorker
      BY <1>3 DEF workerVars, AtWorker
    <2>2. ASSUME UNCHANGED <<commands, events, waiting_for_prompt,
                             authentication_in_progress>>
          PROVE  Somewhere'
      BY <2>1, <2>2 DEF Somewhere, HandedBack, LastIs, Announced
    <2>3. ASSUME NEW c, SendCommand(c), Announced' => HandedBack' \/ AtWorker'
          PROVE  Somewhere'
      <3>1. Len(commands') = Len(commands) + 1 /\ Len(commands) \in Nat
        BY <1>1, <2>3 DEF ChannelsTypeOK, SendCommand
      <3>2. commands' # <<>>
        BY <3>1
      <3> QED BY <2>3, <3>2 DEF Somewhere
    <2>4. ASSUME NEW key \in Key, Press(key)
          PROVE  Somewhere'
      <3>1. events' = events
        BY <2>4
        DEF Press, MoveFocus, MoveVertical, MoveSession, EditPassword,
            CancelInput, ActivateSelector, SubmitAnswer, SubmitBegin,
            PowerMove, PowerRequest, EndKey, channels
      <3>2. Announced' => HandedBack' \/ AtWorker'
        BY <2>1, <3>1 DEF Somewhere, Announced, HandedBack, LastIs
      <3> QED
        BY <2>2, <2>3, <2>4, <3>1, <3>2
        DEF Press, MoveFocus, MoveVertical, MoveSession, EditPassword,
            CancelInput, ActivateSelector, SubmitAnswer, SubmitBegin,
            PowerMove, PowerRequest, EndKey, channels, attempt
    <2>5. ASSUME NEW kinds, Handle(kinds)
          PROVE  /\ Announced' => HandedBack' \/ AtWorker'
                 /\ Head(events) \in kinds
                 /\ Head(events) \notin Hands => (HandedBack' <=> HandedBack)
                 /\ Head(events) = "SessionStarting" => ~waiting_for_prompt
      <3>1. /\ Announced' => Announced /\ Head(events) \notin Hands
            /\ Head(events) = "SessionStarting" => Announced
        BY <1>1, <2>5, AnnouncementsComeFirst
      <3>2. /\ Head(events) \in kinds
            /\ Head(events) \notin Hands => (HandedBack' <=> HandedBack)
        BY <1>1, <2>5, HandleFacts
      <3> QED BY <1>1, <2>1, <3>1, <3>2 DEF Somewhere, OneHolder
    <2>6. CASE HandleEvent
      <3>1. {"Ready", "Info", "SessionStarting"} \cap Hands = {}
        BY DEF Hands, Prompts, Failures
      <3>2. CASE OnNotice
        BY <2>1, <2>5, <3>1, <3>2 DEF OnNotice, attempt, Somewhere
      <3>3. CASE OnSessionStarting
        BY <2>1, <2>5, <3>1, <3>3 DEF OnSessionStarting, Somewhere
      <3>4. CASE OnPromptAnswered
        BY <2>3, <2>5, <3>4 DEF OnPromptAnswered
      <3>5. CASE \/ \E kind \in Prompts : OnPromptShown(kind)
                 \/ OnFailure \/ OnUnavailable \/ OnSessionStarted
        BY <2>5, <3>5 DEF OnPromptShown, OnFailure, OnUnavailable,
           OnSessionStarted, ForgetAttempt, Somewhere
      <3> QED BY <2>6, <3>2, <3>3, <3>4, <3>5 DEF HandleEvent
    <2>8. CASE NoInput \/ NextTurn \/ PowerReturns \/ RequestTermination
      BY <2>2, <2>8 DEF NoInput, NextTurn, PowerReturns, RequestTermination,
         channels, attempt
    <2>9. CASE UNCHANGED vars
      BY <2>2, <2>9 DEF vars, channels, formVars, attempt
    <2>10. CASE Form \/ Terminate
      BY <2>4, <2>6, <2>8, <2>10 DEF Form, Terminate, FormNext, Loop
    <2>11. CASE Worker
      BY <1>2, <2>11
    <2> QED BY <2>9, <2>10, <2>11 DEF Next
  <1> QED BY <1>2, <1>3 DEF Next, Form, Terminate, vars

\* The form holds Enter back only while the attempt is somewhere it will come
\* back from.
THEOREM AttemptsAreNeverLost ==
  ASSUME OrderlyFaults
  PROVE  Spec => []NeverStuck
  <1>1. Init => Somewhere
    BY DEF Init, ChannelsInit, FormInit, Somewhere, Announced
  <1>2. TypeInv /\ AttemptInv /\ Somewhere /\ [Next]_vars => Somewhere'
    BY SomewhereNext
  <1>3. Somewhere => NeverStuck
    BY DEF Somewhere, NeverStuck, HandedBack, LastIs, AtWorker
  <1> QED BY <1>1, <1>2, <1>3, TypeInvHolds, AttemptInvHolds, PTL DEF Spec

-----------------------------------------------------------------------------
(* The refinement                                                          *)

\* How the login stands, location by location.
LEMMA StageFacts ==
  ASSUME pc \in Location, LaunchInv
  PROVE  /\ pc \in {"boot", "idle"} =>
              /\ launched # NoRequest => Stage = "started" /\ Req = launched
              /\ launched = NoRequest =>
                   IF Submitted
                     THEN Stage = "submitted" /\ Req = Head(commands).request
                     ELSE Stage = "idle" /\ Req = NoRequest
         /\ pc \notin {"boot", "idle"} => Req = exchange /\ launched = NoRequest
         /\ pc \in {"reply", "ack"} => Stage = "negotiating"
         /\ pc \in {"clone", "prompted"} => Stage = "asking"
         /\ pc = "splash" => Stage = "authenticated"
         /\ pc = "start" => Stage = "starting"
         /\ pc = "cancel" => Stage = "closing"
  BY DEF Location, LaunchInv, Stage, Req

LEMMA LoginStep ==
  ASSUME CalmFaults, TypeInv, TypeInv', AttemptInv, LaunchInv, LaunchInv',
         [Next]_vars
  PROVE  [Exchange!Next]_(Exchange!login)
  <1> USE DEF Exchange!login, Exchange!Next, Exchange!Move
  <1> DEFINE Here == /\ pc \in {"boot", "idle"} =>
                          /\ launched # NoRequest =>
                               Stage = "started" /\ Req = launched
                          /\ launched = NoRequest =>
                               IF Submitted
                                 THEN /\ Stage = "submitted"
                                      /\ Req = Head(commands).request
                                 ELSE Stage = "idle" /\ Req = NoRequest
                     /\ pc \notin {"boot", "idle"} =>
                          Req = exchange /\ launched = NoRequest
                     /\ pc \in {"reply", "ack"} => Stage = "negotiating"
                     /\ pc \in {"clone", "prompted"} => Stage = "asking"
                     /\ pc = "splash" => Stage = "authenticated"
                     /\ pc = "start" => Stage = "starting"
                     /\ pc = "cancel" => Stage = "closing"
  <1>1. Here
    BY StageFacts DEF TypeInv, TypeOK, WorkerTypeOK
  <1>2. Here'
    <2>1. pc' \in Location
      BY DEF TypeInv, TypeOK, WorkerTypeOK
    <2> QED BY <2>1 DEF Location, LaunchInv, Stage, Req
  <1>3. UNCHANGED commands => (Submitted' <=> Submitted)
    BY DEF Submitted
  <1>4. commands # <<>> => pc \notin {"reply", "ack", "splash", "start", "cancel"}
    BY DEF AttemptInv, OneHolder, AtWorker, TypeInv, TypeOK, WorkerTypeOK,
       Location
  <1>5. Submitted => commands # <<>>
    BY DEF Submitted
  <1> HIDE DEF Here
  \* Steps that leave the login where it is.
  <1>6. ASSUME UNCHANGED <<commands, exchange, launched>>,
               \/ pc' = pc
               \/ pc = "boot" /\ pc' = "idle"
               \/ pc = "clone" /\ pc' = "prompted"
               \/ pc \in {"reply", "ack"} /\ pc' \in {"reply", "ack"}
        PROVE  UNCHANGED Exchange!login
    <2>1. pc \in Location /\ pc' \in Location
      BY DEF TypeInv, TypeOK, WorkerTypeOK
    <2> QED BY <1>1, <1>2, <1>3, <1>6, <2>1 DEF Here, Location
  \* Steps of an attempt at the worker.
  <1>7. ASSUME UNCHANGED <<commands, exchange, launched>>, ReadSuccess
        PROVE  Exchange!Pass
    BY <1>1, <1>2, <1>7 DEF Here, ReadSuccess, Read, Exchange!Pass
  <1>8. ASSUME NEW kind, ReadPrompt(kind)
        PROVE  Exchange!Ask
    BY <1>1, <1>2, <1>8 DEF Here, ReadPrompt, Read, Exchange!Ask
  <1>9. ASSUME NEW kind, ReadFailure(kind)
        PROVE  Exchange!Reject
    BY <1>1, <1>2, <1>9 DEF Here, ReadFailure, Read, channels, Exchange!Reject
  <1>10. CASE StartRefused
    BY <1>1, <1>2, <1>10 DEF Here, StartRefused, channels, Exchange!Reject
  <1>11. CASE SplashReady
    BY <1>1, <1>2, <1>11 DEF Here, SplashReady, greetdVars, Exchange!Start
  <1>12. CASE StartAccepted
    <2>1. /\ pc = "start" /\ pc' = "idle"
          /\ launched' = [exchange EXCEPT !.user = account]
      BY <1>12 DEF StartAccepted, Start, Disconnect
    <2>2. account = exchange.user /\ exchange \in Request
      BY <2>1 DEF TypeInv, Conversing
    <2>3. launched' = exchange /\ launched' # NoRequest
      BY <2>1, <2>2 DEF Request, NoRequest, User, None
    <2> QED BY <1>1, <1>2, <2>1, <2>3 DEF Here, Exchange!Finish
  <1>13. CASE SplashFails \/ Cancel \/ IpcFails
    <2>1. /\ pc \in {"reply", "ack", "splash", "start", "cancel"}
          /\ pc' = "idle"
          /\ UNCHANGED <<commands, launched>>
      BY <1>13 DEF SplashFails, Cancel, IpcFails, Break, Disconnect, Read,
         greetdVars, channels
    <2>2. launched = NoRequest /\ ~Submitted
      BY <1>1, <1>4, <1>5, <2>1 DEF Here
    <2> QED BY <1>1, <1>2, <1>3, <2>1, <2>2 DEF Here, Exchange!Abandon
  \* Commands: the one in the channel is all there is.
  <1>14. CASE BeginSession
    <2>1. /\ pc = "idle" /\ pc' = "reply" /\ exchange' = Head(commands).request
          /\ Submitted /\ UNCHANGED launched
      BY <1>14 DEF BeginSession, NextIs, Submitted, greetdVars
    <2> QED BY <1>1, <1>2, <2>1 DEF Here, LaunchInv, Submitted, Exchange!Open
  <1>15. CASE BeginUnreachable
    <2>1. /\ pc = "idle" /\ pc' = "idle" /\ Submitted /\ launched' = launched
      BY <1>15 DEF BeginUnreachable, NextIs, Submitted, workerVars, greetdVars
    <2>2. commands' = <<>>
      BY <1>15, OneCommand DEF BeginUnreachable, TypeInv, TypeOK,
         WorkerTypeOK, AttemptInv
    <2>3. launched = NoRequest /\ ~Submitted'
      BY <2>1, <2>2 DEF LaunchInv, Submitted
    <2> QED BY <1>1, <1>2, <2>1, <2>3 DEF Here, Exchange!Abandon
  <1>16. CASE PostAnswer
    BY <1>1, <1>2, <1>16 DEF Here, PostAnswer, greetdVars, Exchange!Answer
  <1>17. ~IgnoreBegin /\ ~RejectAnswer
    BY DEF IgnoreBegin, RejectAnswer, AttemptInv, HolderAgrees
  <1>18. ~CloneFails /\ ~StartReplyLost
    BY DEF CloneFails, StartReplyLost, CalmFaults, OrderlyFaults
  <1>19. CASE WorkerNext
    <2>1. CASE Boot \/ CloneStream \/ Acknowledge
               \/ \E kind \in {"Info", "pamError"} : ReadNote(kind)
      BY <1>6, <2>1 DEF Boot, CloneStream, Acknowledge, ReadNote, Read,
         greetdVars, channels
    <2>2. CASE ReadSuccess
      BY <1>7, <2>2 DEF ReadSuccess, channels
    <2> QED BY <1>8, <1>9, <1>10, <1>11, <1>12, <1>13, <1>14, <1>15, <1>16,
               <1>17, <1>18, <1>19, <2>1, <2>2
            DEF WorkerNext
  \* The form.
  <1>20. ASSUME UNCHANGED workerVars, UNCHANGED commands
         PROVE  UNCHANGED Exchange!login
    BY <1>6, <1>20 DEF workerVars, greetdVars
  <1>21. ASSUME UNCHANGED workerVars, pc \in {"clone", "prompted"}
         PROVE  UNCHANGED Exchange!login
    BY <1>1, <1>2, <1>21 DEF Here, workerVars
  <1>22. ASSUME UNCHANGED workerVars, NEW key \in Key, SubmitBegin(key)
         PROVE  Exchange!Submit
    <2> DEFINE r == [user |-> selected_user, session |-> selected_session,
                     theme |-> theme_user]
    <2>1. /\ ~handoff_active /\ ~authentication_in_progress
          /\ SendCommand(Begin(r))
      BY <1>22 DEF SubmitBegin, Submits, FormTakes, NoAttempt
    <2>2. commands = <<>> /\ pc \in {"boot", "idle"} /\ ~HandedBack
      BY <2>1 DEF AttemptInv, OneHolder
    <2>3. launched = NoRequest
      BY <2>1, <2>2 DEF LaunchInv, LastIs, HandedBack, Hands
    <2>4. commands' # <<>> /\ Head(commands') = Begin(r)
      BY <2>1, <2>2, OneCommand DEF TypeInv, TypeOK, WorkerTypeOK, AttemptInv
    <2>5. Begin(r) \in Command
      <3>1. commands' \in Seq(Command)
        BY DEF TypeInv, TypeOK, WorkerTypeOK, ChannelsTypeOK
      <3> QED BY <2>4, <3>1
    <2>6. Submitted' /\ Head(commands').request \in Request
      BY <2>4, <2>5 DEF Submitted, Begin, Command
    <2>7. UNCHANGED <<pc, launched>> /\ ~Submitted
      BY <1>22, <2>2 DEF workerVars, greetdVars, Submitted
    <2> QED BY <1>1, <1>2, <2>2, <2>3, <2>6, <2>7 DEF Here, Exchange!Submit
  <1>23. ASSUME UNCHANGED workerVars, NEW key \in Key, Press(key)
         PROVE  [Exchange!Next]_(Exchange!login)
    <2>1. CASE SubmitAnswer(key)
      BY <1>21, <1>23, <2>1 DEF SubmitAnswer, AttemptInv, HolderAgrees
    <2> QED BY <1>20, <1>22, <1>23, <2>1
            DEF Press, MoveFocus, MoveVertical, MoveSession, EditPassword,
                CancelInput, ActivateSelector, PowerMove, PowerRequest, channels
  <1>24. ASSUME UNCHANGED workerVars, Loop \/ PowerReturns \/ RequestTermination
         PROVE  UNCHANGED Exchange!login
    <2>1. CASE OnPromptAnswered
      <3>1. Prompted
        BY <2>1, HandleFacts DEF OnPromptAnswered, AttemptInv, OneHolder,
           TypeInv, TypeOK, WorkerTypeOK, Hands, Prompts
      <3> QED BY <1>21, <1>24, <3>1 DEF AttemptInv, HolderAgrees
    <2> QED BY <1>20, <1>24, <2>1
            DEF Loop, NoInput, NextTurn, HandleEvent, OnNotice, OnPromptShown,
                OnFailure, OnUnavailable, OnSessionStarting, OnSessionStarted,
                PowerReturns, RequestTermination, channels
  <1> QED BY <1>19, <1>20, <1>23, <1>24
          DEF Next, Worker, Form, Terminate, FormNext, vars, channels

\* Whatever the threads and greetd do, a login is submitted, negotiated,
\* authenticated and started in that order, for one request.
THEOREM GreeterImplementsLoginExchange ==
  ASSUME CalmFaults
  PROVE  Spec => ImplementsLoginExchange
  <1>1. Init => Exchange!Init
    BY DEF Init, ChannelsInit, WorkerInit, Exchange!Init, Stage, Req, Submitted
  <1>2. /\ TypeInv /\ TypeInv' /\ AttemptInv /\ LaunchInv /\ LaunchInv'
        /\ [Next]_vars
        => [Exchange!Next]_(Exchange!login)
    BY LoginStep
  <1> QED BY <1>1, <1>2, TypeInvHolds, AttemptInvHolds, LaunchInvHolds, PTL
          DEF Spec, CalmFaults, ImplementsLoginExchange, Exchange!Spec
=============================================================================
