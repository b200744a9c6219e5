------------------------- MODULE GreetdWorkerProofs -------------------------
(***************************************************************************)
(* What a step of the worker keeps, whoever is at the other end of its     *)
(* channels and of its splash: lemmas for the proofs about the greeter and *)
(* about the worker with its splash.                                       *)
(***************************************************************************)
EXTENDS GreetdWorker, TLAPS

\* How far the worker's location determines greetd's slot and the request it
\* is held for.
Conversing ==
  /\ pc \notin {"boot", "idle"} => exchange \in Request
  /\ pc \in {"clone", "prompted", "ack"} =>
       slot = "configuring" /\ account = exchange.user
  /\ (pc = "reply" /\ request # "create") =>
       slot = "configuring" /\ account = exchange.user
  /\ pc \in {"splash", "start"} => slot = "ready" /\ account = exchange.user
  /\ pc = "cancel" => verdict # "none"

-----------------------------------------------------------------------------
(* The operators                                                           *)

\* What a reply says of greetd's slot and of the room left in the
\* conversation.
LEMMA ReplyFacts ==
  ASSUME WorkerTypeOK, NEW r \in GreetdReplies
  PROVE  /\ r.slot \in Slot
         /\ r.account \in User \cup {None}
         /\ r.msg \in {"Secret", "Visible", "Info", "pamError"} =>
              /\ rounds + 1 \in 0 .. MaxRounds
              /\ r.slot = "configuring"
         /\ r.msg = "Success" => r.slot = "ready"
         /\ r.msg \notin {"AuthError", "OtherError"} =>
              r.account = IF request = "create" THEN exchange.user
                                                ELSE account
         /\ r.msg = "pamError" => "pamError" \in Faults
  <1>1. rounds # MaxRounds => rounds + 1 \in 0 .. MaxRounds
    BY RoundsAssumption DEF WorkerTypeOK
  <1>2. exchange.user \in User \cup {None}
    BY DEF WorkerTypeOK, Request, NoRequest
  <1>3. CASE r \in Refused
    BY <1>3 DEF Refused, Reply, WorkerTypeOK
  <1>4. ASSUME NEW u \in User \cup {None}, r \in Conversation(u)
        PROVE  /\ r.slot \in Slot
               /\ r.account \in {u, None}
               /\ r.msg \in {"Secret", "Visible", "Info", "pamError"} =>
                    /\ rounds # MaxRounds
                    /\ r.slot = "configuring"
               /\ r.msg = "Success" => r.slot = "ready"
               /\ r.msg \notin {"AuthError", "OtherError"} => r.account = u
               /\ r.msg = "pamError" => "pamError" \in Faults
    BY <1>4 DEF Conversation, Reply, Unfinished, Slot
  <1>5. CASE request = "create" /\ slot = "free"
    <2>1. r \in Conversation(exchange.user)
      BY <1>5 DEF GreetdReplies
    <2> QED BY <1>1, <1>2, <1>4, <1>5, <2>1
  <1>6. CASE request # "create" /\ slot = "configuring"
    <2>1. r \in Conversation(account)
      BY <1>6 DEF GreetdReplies
    <2> QED BY <1>1, <1>4, <1>6, <2>1 DEF WorkerTypeOK
  <1> QED BY <1>3, <1>5, <1>6 DEF GreetdReplies

\* The channels stay well typed when a message is sent or received.
LEMMA SendCommandType ==
  ASSUME ChannelsTypeOK, NEW c \in Command, SendCommand(c), UNCHANGED events
  PROVE  ChannelsTypeOK'
  BY DEF ChannelsTypeOK, SendCommand

LEMMA SendEventType ==
  ASSUME ChannelsTypeOK, NEW e \in Event, SendEvent(e)
  PROVE  events' \in Seq(Event)
  BY DEF ChannelsTypeOK, SendEvent

LEMMA ReceiveType ==
  ASSUME ChannelsTypeOK, NEW k, NextIs(k), Receive
  PROVE  /\ commands' \in Seq(Command)
         /\ Head(commands) \in Command
         /\ k = "Begin" => Head(commands).request \in Request
  <1>1. commands \in Seq(Command) /\ commands # <<>>
    BY DEF ChannelsTypeOK, NextIs
  <1>2. Head(commands) \in Command /\ commands' \in Seq(Command)
    BY <1>1 DEF Receive
  <1> QED BY <1>2 DEF Command, NextIs

-----------------------------------------------------------------------------
(* The steps                                                               *)

LEMMA WorkerKeepsTypes ==
  ASSUME ChannelsTypeOK, WorkerTypeOK, Conversing, WorkerNext
  PROVE  WorkerTypeOK' /\ Conversing'
  <1> USE DEF Location, Slot, None, greetdVars
  <1>1. CASE Boot
    <2>1. events' \in Seq(Event)
      BY <1>1, SendEventType DEF Boot, Event
    <2> QED BY <1>1, <2>1 DEF Boot, ChannelsTypeOK, WorkerTypeOK, Conversing
  <1>2. CASE BeginSession
    BY <1>2, ReceiveType
    DEF BeginSession, ChannelsTypeOK, WorkerTypeOK, Conversing
  <1>3. CASE BeginUnreachable
    <2>1. events' \in Seq(Event)
      BY <1>3, SendEventType DEF BeginUnreachable, Event, Failures
    <2> QED BY <1>3, <2>1, ReceiveType
            DEF BeginUnreachable, workerVars, ChannelsTypeOK, WorkerTypeOK,
                Conversing
  <1>4. CASE IgnoreBegin
    BY <1>4, ReceiveType
    DEF IgnoreBegin, workerVars, ChannelsTypeOK, WorkerTypeOK, Conversing
  <1>5. CASE PostAnswer
    BY <1>5, ReceiveType
    DEF PostAnswer, ChannelsTypeOK, WorkerTypeOK, Conversing
  <1>6. CASE RejectAnswer
    <2>1. events' \in Seq(Event)
      BY <1>6, SendEventType DEF RejectAnswer, Event, Failures
    <2> QED BY <1>6, <2>1, ReceiveType
            DEF RejectAnswer, workerVars, ChannelsTypeOK, WorkerTypeOK,
                Conversing
  <1>7. ASSUME NEW kind \in {"Secret", "Visible"}, ReadPrompt(kind)
        PROVE  WorkerTypeOK' /\ Conversing'
    <2>1. events' \in Seq(Event)
      BY <1>7, SendEventType DEF ReadPrompt, Event, Prompts
    <2>2. PICK r \in GreetdReplies :
            r.msg = kind /\ slot' = r.slot /\ account' = r.account
      BY <1>7 DEF ReadPrompt, Read
    <2>3. /\ slot' = "configuring" /\ account' = exchange.user
          /\ account' \in User \cup {None}
          /\ rounds + 1 \in 0 .. MaxRounds
      BY <1>7, <2>2, ReplyFacts DEF ReadPrompt, Read, Conversing
    <2> QED BY <1>7, <2>1, <2>3
            DEF ReadPrompt, Read, ChannelsTypeOK, WorkerTypeOK, Conversing
  <1>8. CASE CloneStream
    BY <1>8
    DEF CloneStream, channels, ChannelsTypeOK, WorkerTypeOK, Conversing
  <1>9. CASE CloneFails
    <2>1. events' \in Seq(Event)
      BY <1>9, SendEventType DEF CloneFails, Event, Failures
    <2> QED BY <1>9, <2>1, RoundsAssumption
            DEF CloneFails, Disconnect, ChannelsTypeOK, WorkerTypeOK,
                Conversing
  <1>10. ASSUME NEW kind \in {"Info", "pamError"}, ReadNote(kind)
         PROVE  WorkerTypeOK' /\ Conversing'
    <2>1. events' \in Seq(Event)
      BY <1>10, SendEventType DEF ReadNote, Event, Failures
    <2>2. PICK r \in GreetdReplies :
            r.msg = kind /\ slot' = r.slot /\ account' = r.account
      BY <1>10 DEF ReadNote, Read
    <2>3. /\ slot' = "configuring" /\ account' = exchange.user
          /\ account' \in User \cup {None}
          /\ rounds + 1 \in 0 .. MaxRounds
      BY <1>10, <2>2, ReplyFacts DEF ReadNote, Read, Conversing
    <2> QED BY <1>10, <2>1, <2>3
            DEF ReadNote, Read, ChannelsTypeOK, WorkerTypeOK, Conversing
  <1>11. CASE Acknowledge
    BY <1>11
    DEF Acknowledge, channels, ChannelsTypeOK, WorkerTypeOK, Conversing
  <1>12. ASSUME NEW kind \in {"AuthError", "OtherError"}, ReadFailure(kind)
         PROVE  WorkerTypeOK' /\ Conversing'
    <2>1. PICK r \in GreetdReplies : slot' = r.slot /\ account' = r.account
      BY <1>12 DEF ReadFailure, Read
    <2>2. slot' \in Slot /\ account' \in User \cup {None}
      BY <2>1, ReplyFacts
    <2> QED BY <1>12, <2>2
            DEF ReadFailure, Read, Verdict, channels, ChannelsTypeOK,
                WorkerTypeOK, Conversing
  <1>13. CASE ReadSuccess
    <2>1. PICK r \in GreetdReplies :
            r.msg = "Success" /\ slot' = r.slot /\ account' = r.account
      BY <1>13 DEF ReadSuccess, Read
    <2>2. /\ slot' = "ready" /\ account' = exchange.user
          /\ account' \in User \cup {None}
      BY <1>13, <2>1, ReplyFacts DEF ReadSuccess, Read, Conversing
    <2> QED BY <1>13, <2>2
            DEF ReadSuccess, Read, channels, ChannelsTypeOK, WorkerTypeOK,
                Conversing
  <1>14. CASE SplashReady
    <2>1. events' \in Seq(Event)
      BY <1>14, SendEventType DEF SplashReady, Event
    <2> QED BY <1>14, <2>1
            DEF SplashReady, ChannelsTypeOK, WorkerTypeOK, Conversing
  <1>15. CASE SplashFails
    <2>1. events' \in Seq(Event)
      BY <1>15, SendEventType DEF SplashFails, Event, Failures
    <2> QED BY <1>15, <2>1, RoundsAssumption
            DEF SplashFails, Disconnect, ChannelsTypeOK, WorkerTypeOK,
                Conversing
  <1>16. ASSUME pc = "start", Start
         PROVE  launched' = exchange /\ launched' \in Request
    BY <1>16 DEF Start, Conversing, Request
  <1>17. CASE StartAccepted
    <2>1. events' \in Seq(Event)
      BY <1>17, SendEventType DEF StartAccepted, Event
    <2> QED BY <1>16, <1>17, <2>1, RoundsAssumption
            DEF StartAccepted, Start, Disconnect, ChannelsTypeOK,
                WorkerTypeOK, Conversing
  <1>18. CASE StartRefused
    BY <1>18
    DEF StartRefused, channels, ChannelsTypeOK, WorkerTypeOK, Conversing
  <1>19. CASE Cancel
    <2>1. events' \in Seq(Event)
      BY <1>19, SendEventType
      DEF Cancel, Event, Failures, WorkerTypeOK, Conversing
    <2> QED BY <1>19, <2>1, RoundsAssumption
            DEF Cancel, GreetdCancels, DropSplash, Disconnect,
                ChannelsTypeOK, WorkerTypeOK, Conversing
  <1>20. CASE IpcFails
    <2>1. events' \in Seq(Event)
      BY <1>20, SendEventType DEF IpcFails, Break, Event, Failures
    <2>2. slot' \in Slot /\ account' \in User \cup {None}
      BY <1>20, ReplyFacts DEF IpcFails, Read, WorkerTypeOK
    <2> QED BY <1>20, <2>1, <2>2, RoundsAssumption
            DEF IpcFails, Break, DropSplash, Disconnect, ChannelsTypeOK,
                WorkerTypeOK, Conversing
  <1>21. CASE StartReplyLost
    <2>1. events' \in Seq(Event)
      BY <1>21, SendEventType DEF StartReplyLost, Break, Event, Failures
    <2> QED BY <1>16, <1>21, <2>1, RoundsAssumption
            DEF StartReplyLost, Break, Start, DropSplash, Disconnect,
                ChannelsTypeOK, WorkerTypeOK, Conversing
  <1> QED
    BY <1>1, <1>2, <1>3, <1>4, <1>5, <1>6, <1>7, <1>8, <1>9, <1>10, <1>11,
       <1>12, <1>13, <1>14, <1>15, <1>17, <1>18, <1>19, <1>20, <1>21
    DEF WorkerNext

\* The session a step starts is the request it holds, for the account greetd
\* has authenticated.
LEMMA LaunchesAreRequests ==
  ASSUME WorkerTypeOK, Conversing, pc = "start", Start
  PROVE  launched' \in Request /\ launched' # NoRequest
  <1>1. exchange \in Request /\ NoRequest \notin Request
    BY DEF Conversing, Request, User, NoRequest, None
  <1>2. account \in User
    BY <1>1 DEF Conversing, Request
  <1> QED BY <1>1, <1>2 DEF Start, Request

\* A session that was started is not forgotten, whatever is started next.
LEMMA LaunchesStay ==
  ASSUME WorkerTypeOK, Conversing, WorkerNext, launched # NoRequest
  PROVE  launched' # NoRequest
  <1>1. CASE pc = "start" /\ Start
    BY <1>1, LaunchesAreRequests
  <1>2. CASE launched' = launched
    BY <1>2
  <1> QED BY <1>1, <1>2
          DEF WorkerNext, Boot, BeginSession, BeginUnreachable, IgnoreBegin,
              PostAnswer, RejectAnswer, ReadPrompt, CloneStream, CloneFails,
              ReadNote, Acknowledge, ReadFailure, ReadSuccess, SplashReady,
              SplashFails, StartAccepted, StartRefused, Cancel, IpcFails,
              StartReplyLost, workerVars, greetdVars

LEMMA WorkerKeepsSplash ==
  ASSUME WorkerTypeOK, Conversing, SplashIsOwned, WorkerNext
  PROVE  SplashIsOwned'
  <1> USE DEF SplashIsOwned
  <1>1. CASE Boot \/ BeginSession \/ PostAnswer
    BY <1>1 DEF Boot, BeginSession, PostAnswer, greetdVars
  <1>2. CASE BeginUnreachable \/ IgnoreBegin \/ RejectAnswer
    BY <1>2 DEF BeginUnreachable, IgnoreBegin, RejectAnswer,
                workerVars, greetdVars
  <1>3. CASE \/ \E kind \in {"Secret", "Visible"} : ReadPrompt(kind)
             \/ \E kind \in {"Info", "pamError"} : ReadNote(kind)
             \/ \E kind \in {"AuthError", "OtherError"} : ReadFailure(kind)
             \/ ReadSuccess
    BY <1>3 DEF ReadPrompt, ReadNote, ReadFailure, ReadSuccess, Read
  <1>4. CASE CloneStream \/ Acknowledge
    BY <1>4 DEF CloneStream, Acknowledge, greetdVars
  <1>5. CASE CloneFails \/ SplashFails
    BY <1>5 DEF CloneFails, SplashFails, Disconnect, greetdVars
  <1>6. CASE SplashReady
    BY <1>6 DEF SplashReady, greetdVars
  <1>7. CASE StartAccepted \/ StartReplyLost
    <2>1. launched' # NoRequest
      BY <1>7, LaunchesAreRequests DEF StartAccepted, StartReplyLost
    <2> QED BY <1>7, <2>1
            DEF StartAccepted, StartReplyLost, Break, DropSplash, Disconnect
  <1>8. CASE StartRefused
    BY <1>8 DEF StartRefused
  <1>9. CASE Cancel \/ IpcFails
    BY <1>9 DEF Cancel, IpcFails, Break, DropSplash, Disconnect
  <1> QED BY <1>1, <1>2, <1>3, <1>4, <1>5, <1>6, <1>7, <1>8, <1>9
          DEF WorkerNext
=============================================================================
