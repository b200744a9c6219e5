--------------------------- MODULE GreeterProofs ---------------------------
(***************************************************************************)
(* Proofs about the greeter, for any number of accounts and sessions, any  *)
(* bounds, and the faults each theorem names.                              *)
(***************************************************************************)
EXTENDS Greeter, GreetdWorkerProofs

\* The inductive form of type correctness: a Begin is well typed because the
\* theme follows the selection, a launch because the worker still holds the
\* request greetd has authenticated.
TypeInv == TypeOK /\ Conversing /\ ThemeFollowsSelection

-----------------------------------------------------------------------------
(* The operators                                                           *)

\* An index stays within its list.
LEMMA MoveIndexInRange ==
  ASSUME NEW n \in Nat, NEW i \in Nat, n > 0 => i < n, NEW d \in Int
  PROVE  /\ move_index(i, n, d) \in Nat
         /\ n > 0 => move_index(i, n, d) < n
  BY DEF move_index

-----------------------------------------------------------------------------
(* Type correctness                                                        *)

\* The form's steps.  A key's arm ends in EndKey, which is where the theme is
\* brought back in line with the selection.
LEMMA EndKeyFollows ==
  ASSUME selected_user' \in Nat, NumUsers > 0 => selected_user' < NumUsers,
         theme_user \in Nat \cup {None}, EndKey
  PROVE  /\ theme_user' \in Nat \cup {None}
         /\ ThemeFollowsSelection'
         /\ phase' = "drain"
         /\ UNCHANGED <<terminate, handoff_active, events>>
  BY CountAssumption DEF EndKey, ThemeOf, ThemeFollowsSelection

LEMMA PressKeepsTypes ==
  ASSUME FormTypeOK, ThemeFollowsSelection, NEW key \in Key, Press(key)
  PROVE  FormTypeOK' /\ ThemeFollowsSelection'
  <1> USE CountAssumption, FormBoundsAssumption
  <1>1. Delta(key) \in Int
    BY DEF Delta
  <1>2. /\ move_index(selected_user, NumUsers, Delta(key)) \in Nat
        /\ NumUsers > 0 =>
             move_index(selected_user, NumUsers, Delta(key)) < NumUsers
    BY <1>1, MoveIndexInRange DEF FormTypeOK, ThemeFollowsSelection
  <1>3. /\ move_index(selected_session, NumSessions, Delta(key)) \in Nat
        /\ NumSessions > 0 =>
             move_index(selected_session, NumSessions, Delta(key)) < NumSessions
    BY <1>1, MoveIndexInRange DEF FormTypeOK
  <1>4. move_index(power_selected, 3, Delta(key)) \in 0 .. 2
    BY <1>1 DEF move_index, FormTypeOK
  <1>5. CASE MoveFocus(key)
    <2>1. focus' \in Focus
      BY <1>5 DEF MoveFocus, NextFocus, PreviousFocus, Focus, FormTypeOK
    <2> QED BY <1>5, <2>1, EndKeyFollows
            DEF MoveFocus, FormTypeOK, ThemeFollowsSelection, attempt, power,
                ChannelsTypeOK
  <1>6. CASE MoveVertical(key)
    <2>1. /\ selected_user' \in Nat
          /\ NumUsers > 0 => selected_user' < NumUsers
          /\ selected_session' \in Nat
          /\ NumSessions > 0 => selected_session' < NumSessions
          /\ power_selected' \in 0 .. 2
      BY <1>2, <1>3, <1>4, <1>6
      DEF MoveVertical, FormTypeOK, ThemeFollowsSelection
    <2> QED BY <1>6, <2>1, EndKeyFollows
            DEF MoveVertical, FormTypeOK, attempt, ChannelsTypeOK
  <1>7. CASE MoveSession(key)
    BY <1>3, <1>7, EndKeyFollows
    DEF MoveSession, FormTypeOK, ThemeFollowsSelection, attempt, power,
        ChannelsTypeOK
  <1>8. CASE EditPassword(key)
    <2>1. password' \in 0 .. MaxPassword
      BY <1>8 DEF EditPassword, FormTypeOK
    <2> QED BY <1>8, <2>1, EndKeyFollows
            DEF EditPassword, FormTypeOK, ThemeFollowsSelection, attempt,
                power, ChannelsTypeOK
  <1>9. CASE CancelInput(key)
    <2>1. focus' \in Focus /\ password' \in 0 .. MaxPassword
      BY <1>9 DEF CancelInput, FormTypeOK, Focus
    <2> QED BY <1>9, <2>1, EndKeyFollows
            DEF CancelInput, FormTypeOK, ThemeFollowsSelection, attempt,
                power, ChannelsTypeOK
  <1>10. CASE ActivateSelector(key)
    <2>1. focus' \in Focus /\ power_open' \in BOOLEAN
      BY <1>10 DEF ActivateSelector, FormTypeOK, Focus
    <2> QED BY <1>10, <2>1, EndKeyFollows
            DEF ActivateSelector, FormTypeOK, ThemeFollowsSelection, attempt,
                ChannelsTypeOK
  <1>11. CASE SubmitAnswer(key)
    <2>1. AuthResponse(selected_user) \in Command
      BY DEF AuthResponse, Command, FormTypeOK
    <2>2. UNCHANGED events
      BY <1>11 DEF SubmitAnswer, EndKey
    <2>3. ChannelsTypeOK'
      BY <1>11, <2>1, <2>2, SendCommandType DEF SubmitAnswer, FormTypeOK
    <2>4. password' \in 0 .. MaxPassword
      BY <1>11 DEF SubmitAnswer
    <2>5. waiting_for_prompt' \in BOOLEAN
      BY <1>11 DEF SubmitAnswer
    <2> QED BY <1>11, <2>3, <2>4, <2>5, EndKeyFollows
            DEF SubmitAnswer, FormTypeOK, ThemeFollowsSelection, power
  <1>12. CASE SubmitBegin(key)
    <2> DEFINE r == [user |-> selected_user, session |-> selected_session,
                     theme |-> theme_user]
    <2>1. r \in Request
      BY <1>12
      DEF SubmitBegin, Request, User, FormTypeOK, ThemeFollowsSelection
    <2>2. Begin(r) \in Command
      BY <2>1 DEF Begin, Command
    <2>3. SendCommand(Begin(r)) /\ UNCHANGED events
      BY <1>12 DEF SubmitBegin, EndKey
    <2>4. ChannelsTypeOK'
      BY <2>2, <2>3, SendCommandType DEF FormTypeOK
    <2> QED BY <1>12, <2>4, EndKeyFollows
            DEF SubmitBegin, FormTypeOK, ThemeFollowsSelection, Focus, power
  <1>13. CASE PowerMove(key)
    BY <1>4, <1>13
    DEF PowerMove, FormTypeOK, ThemeFollowsSelection, channels, selection,
        attempt, ChannelsTypeOK
  <1>14. CASE PowerRequest(key)
    BY <1>14
    DEF PowerRequest, FormTypeOK, ThemeFollowsSelection, channels, selection,
        attempt, power, ChannelsTypeOK
  <1> QED
    BY <1>5, <1>6, <1>7, <1>8, <1>9, <1>10, <1>11, <1>12, <1>13, <1>14
    DEF Press

LEMMA LoopKeepsTypes ==
  ASSUME FormTypeOK, ThemeFollowsSelection, Loop \/ PowerReturns
  PROVE  FormTypeOK' /\ ThemeFollowsSelection'
  <1>1. CASE NoInput \/ NextTurn \/ PowerReturns
    BY <1>1
    DEF NoInput, NextTurn, PowerReturns, FormTypeOK, ThemeFollowsSelection,
        channels, selection, attempt, power, ChannelsTypeOK
  <1>2. ASSUME NEW kinds, Handle(kinds)
        PROVE  /\ events' \in Seq(Event)
               /\ ThemeFollowsSelection'
               /\ UNCHANGED <<phase, terminate, selected_user,
                              selected_session, theme_user, power_open,
                              power_selected>>
    BY <1>2 DEF Handle, selection, power, FormTypeOK, ChannelsTypeOK,
                ThemeFollowsSelection
  <1>3. CASE OnNotice
    BY <1>2, <1>3 DEF OnNotice, attempt, FormTypeOK, ChannelsTypeOK
  <1>4. CASE OnPromptAnswered
    <2>1. AuthResponse(pending_secret_response) \in Command
      BY <1>4 DEF OnPromptAnswered, AuthResponse, Command, FormTypeOK
    <2>2. commands' \in Seq(Command)
      BY <1>4, <2>1
      DEF OnPromptAnswered, SendCommand, FormTypeOK, ChannelsTypeOK
    <2> QED BY <1>2, <1>4, <2>2
            DEF OnPromptAnswered, FormTypeOK, ChannelsTypeOK
  <1>5. ASSUME NEW kind \in Prompts, OnPromptShown(kind)
        PROVE  FormTypeOK' /\ ThemeFollowsSelection'
    BY <1>2, <1>5 DEF OnPromptShown, Focus, FormTypeOK, ChannelsTypeOK
  <1>6. CASE OnFailure
    <2>1. password' \in 0 .. MaxPassword
      BY <1>6, FormBoundsAssumption DEF OnFailure
    <2> QED BY <1>2, <1>6, <2>1
            DEF OnFailure, ForgetAttempt, FormTypeOK, ChannelsTypeOK
  <1>7. CASE OnUnavailable
    BY <1>2, <1>7 DEF OnUnavailable, ForgetAttempt, FormTypeOK, ChannelsTypeOK
  <1>8. CASE OnSessionStarting
    BY <1>2, <1>8 DEF OnSessionStarting, FormTypeOK, ChannelsTypeOK
  <1>9. CASE OnSessionStarted
    BY <1>2, <1>9 DEF OnSessionStarted, FormTypeOK, ChannelsTypeOK
  <1> QED
    BY <1>1, <1>3, <1>4, <1>5, <1>6, <1>7, <1>8, <1>9 DEF Loop, HandleEvent

LEMMA TypeInvInit == Init => TypeInv
  <1> SUFFICES ASSUME Init PROVE TypeInv
    OBVIOUS
  <1>1. ChannelsTypeOK
    BY DEF Init, ChannelsInit, ChannelsTypeOK
  <1>2. FormTypeOK /\ ThemeFollowsSelection
    <2>1. /\ selected_user \in Nat /\ selected_session \in Nat
          /\ NumUsers > 0 => selected_user < NumUsers
          /\ NumSessions > 0 => selected_session < NumSessions
          /\ theme_user \in Nat \cup {None}
          /\ password \in 0 .. MaxPassword /\ power_selected \in 0 .. 2
          /\ ThemeFollowsSelection
      BY CountAssumption, FormBoundsAssumption
      DEF Init, FormInit, ThemeOf, Session, ThemeFollowsSelection
    <2> QED BY <1>1, <2>1 DEF Init, FormInit, FormTypeOK, Focus
  <1>3. WorkerTypeOK /\ Conversing
    BY <1>1, RoundsAssumption
    DEF Init, WorkerInit, WorkerTypeOK, Conversing, Location, Slot
  <1> QED BY <1>2, <1>3 DEF TypeInv, TypeOK

LEMMA TypeInvNext == TypeInv /\ [Next]_vars => TypeInv'
  <1> SUFFICES ASSUME TypeInv, [Next]_vars PROVE TypeInv'
    OBVIOUS
  <1> USE DEF TypeInv, TypeOK
  <1>1. CASE Worker
    <2>1. WorkerTypeOK' /\ Conversing'
      BY <1>1, WorkerKeepsTypes DEF Worker, FormTypeOK
    <2> QED BY <1>1, <2>1
            DEF Worker, formVars, selection, attempt, power, FormTypeOK,
                WorkerTypeOK, ThemeFollowsSelection
  <1>2. ASSUME FormTypeOK', ThemeFollowsSelection', UNCHANGED workerVars
        PROVE  TypeInv'
    BY <1>2 DEF workerVars, greetdVars, WorkerTypeOK, Conversing, FormTypeOK
  <1>3. CASE Form
    BY <1>2, <1>3, PressKeepsTypes, LoopKeepsTypes DEF Form, FormNext
  <1>4. CASE Terminate
    <2>1. FormTypeOK' /\ ThemeFollowsSelection'
      BY <1>4
      DEF Terminate, RequestTermination, FormTypeOK, ThemeFollowsSelection,
          channels, selection, attempt, power, ChannelsTypeOK
    <2> QED BY <1>2, <1>4, <2>1 DEF Terminate
  <1>5. CASE UNCHANGED vars
    BY <1>2, <1>5
    DEF vars, formVars, channels, selection, attempt, power, FormTypeOK,
        ThemeFollowsSelection, ChannelsTypeOK
  <1> QED BY <1>1, <1>3, <1>4, <1>5 DEF Next

\* The greeter's state is well typed in every run, and its worker's location
\* always agrees with greetd's slot.
THEOREM TypeInvHolds == Spec => []TypeInv
  BY TypeInvInit, TypeInvNext, PTL DEF Spec

\* Every index, channel and location stays in range, whatever the user types
\* and greetd answers.
THEOREM TypeCorrect == Spec => []TypeOK
  <1>1. TypeInv => TypeOK
    BY DEF TypeInv
  <1> QED BY <1>1, TypeInvHolds, PTL

\* The form's part of it: in particular the power actions are indexed within
\* their array, whatever order the worker's events come in.
THEOREM FormTypeCorrect == Spec => []FormTypeOK
  <1>1. TypeOK => FormTypeOK
    BY DEF TypeOK
  <1> QED BY <1>1, TypeCorrect, PTL

\* The worker's part of it: what is launched and what greetd answers for is a
\* request of the form.
THEOREM WorkerTypeCorrect == Spec => []WorkerTypeOK
  <1>1. TypeOK => WorkerTypeOK
    BY DEF TypeOK
  <1> QED BY <1>1, TypeCorrect, PTL

\* The account greetd has authenticated is the account of the request whose
\* session is about to start, under every fault: duplicate requests, a slot
\* left over from an earlier greeter, lost replies, refused cancellations.
THEOREM LaunchIsAuthenticated == Spec => []LaunchesAuthenticatedAccount
  <1>1. TypeInv => LaunchesAuthenticatedAccount
    BY DEF TypeInv, Conversing, LaunchesAuthenticatedAccount
  <1> QED BY <1>1, TypeInvHolds, PTL

-----------------------------------------------------------------------------
(* One attempt at a time                                                   *)

\* PAM sends no non-terminal error messages and cloning a stream succeeds:
\* with either fault the theorems below are false (see README.md).
OrderlyFaults == Faults \cap {"pamError", "clone"} = {}

\* The events that hand the attempt back to the form; every other event is
\* only shown.
Hands == Prompts \cup Failures \cup {"SessionStarted"}

LastIs(kinds) == events # <<>> /\ events[Len(events)] \in kinds

HandedBack == LastIs(Hands)
Prompted == LastIs(Prompts)
Ended == LastIs(Hands \ Prompts)

AtWorker == pc \notin {"boot", "idle", "clone", "prompted"}

\* Whatever follows in the channel after an attempt was handed back would
\* belong to the next one.
HandsLast == \A i \in 1 .. Len(events) : events[i] \in Hands => i = Len(events)

\* An attempt is in exactly one place: a command on its way to the worker,
\* the worker at work, an event on its way to the form, or the user's prompt.
\* No attempt under way means it is in none of them.
OneHolder ==
  /\ HandsLast
  /\ Len(commands) <= 1
  /\ commands # <<>> => ~AtWorker /\ ~HandedBack /\ ~waiting_for_prompt
  /\ AtWorker => ~HandedBack /\ ~waiting_for_prompt
  /\ HandedBack => ~waiting_for_prompt
  /\ ~authentication_in_progress =>
       /\ commands = <<>>
       /\ pc \in {"boot", "idle"}
       /\ ~HandedBack
       /\ ~waiting_for_prompt

\* Where it is agrees with whether the worker holds a conversation open.
HolderAgrees ==
  /\ NextIs("Begin") => pc \in {"boot", "idle"}
  /\ NextIs("AuthResponse") => pc \in {"clone", "prompted"}
  /\ Prompted => pc \in {"clone", "prompted"}
  /\ Ended => pc = "idle"
  /\ waiting_for_prompt => pc \in {"clone", "prompted"}
  /\ pc \in {"boot", "idle"} => exchange = NoRequest

\* The password kept with a request is for the account of that request,
\* waiting in the channel or served by the worker.
PasswordFollows ==
  pending_secret_response # None =>
    \/ exchange.user = pending_secret_response
    \/ /\ exchange = NoRequest
       /\ NextIs("Begin") =>
            Head(commands).request.user = pending_secret_response

AttemptInv == OneHolder /\ HolderAgrees /\ PasswordFollows

LEMMA HandedBackCases == HandedBack <=> Prompted \/ Ended
  BY DEF HandedBack, Prompted, Ended, LastIs, Hands

LEMMA SendEventFacts ==
  ASSUME ChannelsTypeOK, HandsLast, ~HandedBack, NEW e \in Event, SendEvent(e)
  PROVE  /\ HandsLast'
         /\ HandedBack' <=> e \in Hands
         /\ Prompted' <=> e \in Prompts
         /\ Ended' <=> e \in Hands \ Prompts
  <1>1. /\ events \in Seq(Event)
        /\ events' = Append(events, e)
    BY DEF ChannelsTypeOK, SendEvent
  <1>2. /\ Len(events) \in Nat
        /\ Len(events') = Len(events) + 1
        /\ events' # <<>>
        /\ events'[Len(events')] = e
        /\ \A i \in 1 .. Len(events) : events'[i] = events[i]
    BY <1>1
  <1>3. \A i \in 1 .. Len(events) : events[i] \notin Hands
    <2>1. ASSUME NEW i \in 1 .. Len(events), events[i] \in Hands
          PROVE  FALSE
      BY <1>2, <2>1 DEF HandsLast, HandedBack, LastIs
    <2> QED BY <2>1
  <1>4. HandsLast'
    BY <1>2, <1>3 DEF HandsLast
  <1> QED BY <1>2, <1>4 DEF HandedBack, Prompted, Ended, LastIs

LEMMA HandleFacts ==
  ASSUME ChannelsTypeOK, HandsLast, NEW kinds, Handle(kinds)
  PROVE  /\ HandsLast'
         /\ Head(events) \in kinds
         /\ Head(events) \in Hands =>
              /\ ~HandedBack' /\ ~Prompted' /\ ~Ended'
              /\ HandedBack
              /\ Prompted <=> Head(events) \in Prompts
         /\ Head(events) \notin Hands =>
              /\ HandedBack' <=> HandedBack
              /\ Prompted' <=> Prompted
              /\ Ended' <=> Ended
  <1>1. /\ events \in Seq(Event) /\ events # <<>>
        /\ events' = Tail(events)
        /\ Head(events) \in kinds
    BY DEF ChannelsTypeOK, Handle
  <1>2. /\ Len(events) \in Nat \ {0}
        /\ Len(events') = Len(events) - 1
        /\ Head(events) = events[1]
        /\ \A i \in 1 .. Len(events') : events'[i] = events[i + 1]
    BY <1>1
  <1>3. HandsLast'
    BY <1>2 DEF HandsLast
  <1>4. CASE Len(events) = 1
    <2>1. events' = <<>>
      BY <1>1, <1>4
    <2>2. ~HandedBack' /\ ~Prompted' /\ ~Ended'
      BY <2>1 DEF HandedBack, Prompted, Ended, LastIs
    <2>3. /\ HandedBack <=> Head(events) \in Hands
          /\ Prompted <=> Head(events) \in Prompts
          /\ Ended <=> Head(events) \in Hands \ Prompts
      BY <1>1, <1>2, <1>4 DEF HandedBack, Prompted, Ended, LastIs
    <2> QED BY <1>1, <1>3, <2>2, <2>3 DEF Hands
  <1>5. CASE Len(events) # 1
    <2>1. Head(events) \notin Hands
      BY <1>2, <1>5 DEF HandsLast
    <2>2. events' # <<>> /\ events'[Len(events')] = events[Len(events)]
      BY <1>2, <1>5
    <2> QED BY <1>1, <1>3, <2>1, <2>2
            DEF HandedBack, Prompted, Ended, LastIs
  <1> QED BY <1>4, <1>5

\* The channel never holds more than the command that carries the attempt.
LEMMA OneCommand ==
  ASSUME ChannelsTypeOK, OneHolder
  PROVE  /\ \A k : NextIs(k) /\ Receive => commands' = <<>>
         /\ \A c : commands = <<>> /\ SendCommand(c) =>
              /\ Len(commands') = 1
              /\ commands' # <<>>
              /\ Head(commands') = c
  <1>1. ASSUME NEW k, NextIs(k), Receive
        PROVE  commands' = <<>>
    <2>1. commands \in Seq(Command) /\ commands # <<>>
      BY <1>1 DEF ChannelsTypeOK, NextIs
    <2>2. Len(commands) <= 1
      BY DEF OneHolder
    <2>3. Tail(commands) = <<>>
      BY <2>1, <2>2
    <2> QED BY <1>1, <2>3 DEF Receive
  <1>2. ASSUME NEW c, commands = <<>>, SendCommand(c)
        PROVE  Len(commands') = 1 /\ commands' # <<>> /\ Head(commands') = c
    <2>1. commands' = <<c>>
      BY <1>2 DEF SendCommand
    <2> QED BY <2>1
  <1> QED BY <1>1, <1>2

LEMMA WorkerKeepsAttempt ==
  ASSUME OrderlyFaults, ChannelsTypeOK, WorkerTypeOK, Conversing,
         AttemptInv, WorkerNext, UNCHANGED formVars
  PROVE  AttemptInv'
  <1> USE DEF AttemptInv, OneHolder, HolderAgrees, PasswordFollows, AtWorker
  <1>1. /\ UNCHANGED <<waiting_for_prompt, authentication_in_progress,
                       pending_secret_response>>
        /\ HandedBack <=> Prompted \/ Ended
    BY HandedBackCases DEF formVars, attempt
  <1>2. /\ NextIs("Begin") => commands # <<>>
        /\ NextIs("AuthResponse") => commands # <<>>
    BY DEF NextIs
  <1>26. events' = events =>
           /\ HandsLast' <=> HandsLast
           /\ HandedBack' <=> HandedBack
           /\ Prompted' <=> Prompted
           /\ Ended' <=> Ended
    BY DEF HandsLast, HandedBack, Prompted, Ended, LastIs
  <1>27. commands' = <<>> =>
           Len(commands') <= 1 /\ ~NextIs("Begin")' /\ ~NextIs("AuthResponse")'
    BY DEF NextIs
  <1>28. commands' = commands =>
           /\ NextIs("Begin")' <=> NextIs("Begin")
           /\ NextIs("AuthResponse")' <=> NextIs("AuthResponse")
    BY DEF NextIs
  \* The worker goes on working, in silence ...
  <1>3. ASSUME AtWorker, AtWorker', UNCHANGED <<channels, exchange>>
        PROVE  AttemptInv'
    BY <1>1, <1>3, <1>26, <1>28 DEF channels
  \* ... or with an event that is only shown;
  <1>4. ASSUME AtWorker, AtWorker', UNCHANGED <<commands, exchange>>,
               NEW e \in {"Info", "SessionStarting"}, SendEvent(e)
        PROVE  AttemptInv'
    <2>1. e \in Event /\ e \notin Hands /\ e \notin Prompts
      BY DEF Event, Hands, Prompts, Failures
    <2> QED BY <1>1, <1>4, <1>28, <2>1, SendEventFacts
  \* it asks the form,
  <1>5. ASSUME AtWorker, pc' = "clone", UNCHANGED <<commands, exchange>>,
               NEW e \in Prompts, SendEvent(e)
        PROVE  AttemptInv'
    <2>1. e \in Event /\ e \in Hands
      BY DEF Event, Hands
    <2> QED BY <1>1, <1>2, <1>5, <1>28, <2>1, SendEventFacts
  \* or it is done and tells the form how the attempt ended.
  <1>6. ASSUME AtWorker, Disconnect, UNCHANGED commands,
               NEW e \in Failures \cup {"SessionStarted"}, SendEvent(e)
        PROVE  AttemptInv'
    <2>1. e \in Event /\ e \in Hands \ Prompts
      BY DEF Event, Hands, Prompts, Failures
    <2>2. commands = <<>>
      BY <1>6
    <2> QED BY <1>1, <1>2, <1>6, <1>28, <2>1, <2>2, SendEventFacts DEF Disconnect
  <1>7. CASE Boot
    <2>1. "Ready" \in Event /\ "Ready" \notin Hands /\ "Ready" \notin Prompts
      BY DEF Event, Hands, Prompts, Failures
    <2>2. ~HandedBack
      BY <1>1, <1>7 DEF Boot
    <2> QED BY <1>1, <1>7, <1>28, <2>1, <2>2, SendEventFacts DEF Boot
  <1>8. CASE BeginSession
    <2>1. commands' = <<>> /\ commands # <<>>
      BY <1>2, <1>8, OneCommand DEF BeginSession
    <2> QED BY <1>1, <1>8, <1>26, <1>27, <2>1 DEF BeginSession, NoRequest
  <1>9. CASE BeginUnreachable
    <2>1. commands' = <<>> /\ commands # <<>>
      BY <1>2, <1>9, OneCommand DEF BeginUnreachable
    <2>2. "GreeterUnavailable" \in Event \cap (Hands \ Prompts)
      BY DEF Event, Hands, Prompts, Failures
    <2> QED BY <1>1, <1>9, <1>27, <2>1, <2>2, SendEventFacts
            DEF BeginUnreachable, workerVars
  <1>10. CASE PostAnswer
    <2>1. commands' = <<>> /\ commands # <<>>
      BY <1>2, <1>10, OneCommand DEF PostAnswer
    <2> QED BY <1>1, <1>10, <1>26, <1>27, <2>1 DEF PostAnswer
  \* A repeated Begin and an answer without a prompt never come.
  <1>11. ~IgnoreBegin /\ ~RejectAnswer
    BY DEF IgnoreBegin, RejectAnswer
  <1>12. ASSUME NEW kind \in {"Secret", "Visible"}, ReadPrompt(kind)
         PROVE  AttemptInv'
    BY <1>5, <1>12 DEF ReadPrompt, Read, Prompts
  <1>13. CASE CloneStream
    BY <1>1, <1>13, <1>26, <1>28 DEF CloneStream, channels
  <1>14. ASSUME NEW kind \in {"Info", "pamError"}, ReadNote(kind)
         PROVE  AttemptInv'
    <2>1. kind = "Info"
      BY <1>14, ReplyFacts DEF ReadNote, Read, OrderlyFaults
    <2> QED BY <1>4, <1>14, <2>1 DEF ReadNote, Read
  <1>15. CASE Acknowledge
    BY <1>3, <1>15 DEF Acknowledge
  <1>16. ASSUME NEW kind \in {"AuthError", "OtherError"}, ReadFailure(kind)
         PROVE  AttemptInv'
    BY <1>3, <1>16 DEF ReadFailure, Read
  <1>17. CASE ReadSuccess
    BY <1>3, <1>17 DEF ReadSuccess, Read
  <1>18. CASE SplashReady
    BY <1>4, <1>18 DEF SplashReady
  <1>19. CASE SplashFails
    BY <1>6, <1>19 DEF SplashFails, Failures
  <1>20. CASE StartAccepted
    BY <1>6, <1>20 DEF StartAccepted
  <1>21. CASE StartRefused
    BY <1>3, <1>21 DEF StartRefused
  <1>22. CASE Cancel
    BY <1>6, <1>22 DEF Cancel, Failures, WorkerTypeOK, Conversing
  <1>23. CASE IpcFails
    BY <1>6, <1>23 DEF IpcFails, Break, Read, Failures
  <1>24. CASE StartReplyLost
    BY <1>6, <1>24 DEF StartReplyLost, Break, Failures
  <1>25. ~CloneFails
    BY DEF CloneFails, OrderlyFaults
  <1> QED
    BY <1>7, <1>8, <1>9, <1>10, <1>11, <1>12, <1>13, <1>14, <1>15, <1>16,
       <1>17, <1>18, <1>19, <1>20, <1>21, <1>22, <1>23, <1>24, <1>25
    DEF WorkerNext

LEMMA FormKeepsAttempt ==
  ASSUME ChannelsTypeOK, AttemptInv, UNCHANGED workerVars,
         FormNext \/ RequestTermination \/ UNCHANGED <<formVars, channels>>
  PROVE  AttemptInv'
  <1> USE DEF AttemptInv, OneHolder, HolderAgrees, PasswordFollows, AtWorker
  <1>1. UNCHANGED <<pc, exchange>> /\ (HandedBack <=> Prompted \/ Ended)
    BY HandedBackCases DEF workerVars
  <1>2. events' = events =>
          /\ HandsLast' <=> HandsLast
          /\ HandedBack' <=> HandedBack
          /\ Prompted' <=> Prompted
          /\ Ended' <=> Ended
    BY DEF HandsLast, HandedBack, Prompted, Ended, LastIs
  <1>3. commands' = commands =>
          /\ NextIs("Begin")' <=> NextIs("Begin")
          /\ NextIs("AuthResponse")' <=> NextIs("AuthResponse")
    BY DEF NextIs
  <1>4. ASSUME UNCHANGED <<channels, attempt>>
        PROVE  AttemptInv'
    BY <1>1, <1>2, <1>3, <1>4 DEF channels, attempt
  <1>5. ASSUME NEW key \in Key, Press(key),
               ~SubmitAnswer(key), ~SubmitBegin(key)
        PROVE  UNCHANGED <<channels, attempt>>
    BY <1>5
    DEF Press, MoveFocus, MoveVertical, MoveSession, EditPassword,
        CancelInput, ActivateSelector, PowerMove, PowerRequest, EndKey,
        channels, attempt
  <1>6. ASSUME NEW key \in Key, SubmitAnswer(key)
        PROVE  AttemptInv'
    <2>1. commands = <<>>
      BY <1>6 DEF SubmitAnswer
    <2>2. /\ Len(commands') = 1 /\ commands' # <<>>
          /\ Head(commands') = AuthResponse(selected_user)
      BY <1>6, <2>1, OneCommand DEF SubmitAnswer
    <2>3. ~NextIs("Begin")' /\ NextIs("AuthResponse")'
      BY <2>2 DEF NextIs, AuthResponse
    <2>4. /\ waiting_for_prompt' = FALSE
          /\ UNCHANGED <<events, pending_secret_response,
                         authentication_in_progress>>
      BY <1>6 DEF SubmitAnswer, EndKey
    <2> QED BY <1>1, <1>2, <1>6, <2>2, <2>3, <2>4 DEF SubmitAnswer
  <1>7. ASSUME NEW key \in Key, SubmitBegin(key)
        PROVE  AttemptInv'
    <2>1. /\ commands = <<>> /\ pc \in {"boot", "idle"} /\ ~HandedBack
          /\ exchange = NoRequest
      BY <1>7 DEF SubmitBegin, NoAttempt
    <2> DEFINE r == [user |-> selected_user, session |-> selected_session,
                     theme |-> theme_user]
    <2>2. /\ Len(commands') = 1 /\ commands' # <<>>
          /\ Head(commands') = Begin(r)
      BY <1>7, <2>1, OneCommand DEF SubmitBegin
    <2>3. /\ NextIs("Begin")' /\ ~NextIs("AuthResponse")'
          /\ Head(commands').request.user = selected_user
      BY <2>2 DEF NextIs, Begin
    <2>4. /\ authentication_in_progress' = TRUE
          /\ pending_secret_response' \in {selected_user, None}
          /\ UNCHANGED <<events, waiting_for_prompt>>
      BY <1>7 DEF SubmitBegin, EndKey
    <2>5. ~waiting_for_prompt
      BY <1>7 DEF SubmitBegin, NoAttempt
    <2> QED BY <1>1, <1>2, <2>1, <2>2, <2>3, <2>4, <2>5
  <1>8. ASSUME NEW kinds, Handle(kinds), kinds \cap Hands = {},
               UNCHANGED <<commands, attempt>>
        PROVE  AttemptInv'
    BY <1>1, <1>3, <1>8, HandleFacts DEF attempt
  <1>9. CASE OnNotice
    <2>1. {"Ready", "Info"} \cap Hands = {}
      BY DEF Hands, Prompts, Failures
    <2> QED BY <1>8, <1>9, <2>1 DEF OnNotice
  <1>10. CASE OnPromptAnswered
    <2>1. "SecretPrompt" \in Hands \cap Prompts
      BY DEF Hands, Prompts
    <2>2. /\ HandedBack /\ Prompted /\ HandsLast'
          /\ ~HandedBack' /\ ~Prompted' /\ ~Ended'
      BY <1>10, <2>1, HandleFacts DEF OnPromptAnswered
    <2>3. commands = <<>>
      BY <2>2
    <2>4. /\ Len(commands') = 1 /\ commands' # <<>>
          /\ Head(commands') = AuthResponse(pending_secret_response)
      BY <1>10, <2>3, OneCommand DEF OnPromptAnswered
    <2>5. ~NextIs("Begin")' /\ NextIs("AuthResponse")'
      BY <2>4 DEF NextIs, AuthResponse
    <2> QED BY <1>1, <1>10, <2>2, <2>4, <2>5 DEF OnPromptAnswered
  <1>11. ASSUME NEW kind \in Prompts, OnPromptShown(kind)
         PROVE  AttemptInv'
    <2>1. kind \in Hands
      BY DEF Hands
    <2>2. /\ HandedBack /\ Prompted /\ HandsLast'
          /\ ~HandedBack' /\ ~Prompted' /\ ~Ended'
      BY <1>11, <2>1, HandleFacts DEF OnPromptShown
    <2>3. /\ waiting_for_prompt' = TRUE
          /\ UNCHANGED <<commands, pending_secret_response,
                         authentication_in_progress>>
      BY <1>11 DEF OnPromptShown
    <2> QED BY <1>1, <1>3, <2>2, <2>3
  \* The attempt ends: nothing else is under way when the form learns it.
  <1>12. ASSUME NEW kinds, Handle(kinds), kinds \subseteq Hands \ Prompts,
                UNCHANGED commands,
                waiting_for_prompt' => waiting_for_prompt,
                pending_secret_response' \in {None, pending_secret_response}
         PROVE  AttemptInv'
    <2>1. /\ HandedBack /\ Ended /\ HandsLast'
          /\ ~HandedBack' /\ ~Prompted' /\ ~Ended'
      BY <1>1, <1>12, HandleFacts
    <2>2. /\ commands = <<>> /\ pc = "idle" /\ ~waiting_for_prompt
      BY <2>1
    <2>3. ~NextIs("Begin")' /\ ~NextIs("AuthResponse")'
      BY <1>3, <1>12, <2>2 DEF NextIs
    <2>4. ~waiting_for_prompt' /\ commands' = <<>> /\ pc' = "idle"
      BY <1>1, <1>12, <2>2
    <2>5. OneHolder' /\ HolderAgrees'
      BY <1>1, <2>1, <2>3, <2>4
    <2>6. PasswordFollows'
      BY <1>1, <1>12, <2>2, <2>3
    <2> QED BY <2>5, <2>6
  <1>13. CASE OnFailure
    <2>1. {"Error", "AuthFailed"} \subseteq Hands \ Prompts
      BY DEF Hands, Prompts, Failures
    <2> QED BY <1>12, <1>13, <2>1 DEF OnFailure, ForgetAttempt
  <1>14. CASE OnUnavailable
    <2>1. {"AuthPromptUnavailable", "GreeterUnavailable"}
            \subseteq Hands \ Prompts
      BY DEF Hands, Prompts, Failures
    <2> QED BY <1>12, <1>14, <2>1 DEF OnUnavailable, ForgetAttempt
  <1>15. CASE OnSessionStarting
    <2>1. {"SessionStarting"} \cap Hands = {}
      BY DEF Hands, Prompts, Failures
    <2>2. /\ waiting_for_prompt' = FALSE
          /\ UNCHANGED <<commands, pending_secret_response,
                         authentication_in_progress>>
      BY <1>15 DEF OnSessionStarting
    <2>3. /\ HandsLast'
          /\ HandedBack' <=> HandedBack
          /\ Prompted' <=> Prompted
          /\ Ended' <=> Ended
      BY <1>15, <2>1, HandleFacts DEF OnSessionStarting
    <2> QED BY <1>1, <1>3, <2>2, <2>3
  <1>16. CASE OnSessionStarted
    <2>1. {"SessionStarted"} \subseteq Hands \ Prompts
      BY DEF Hands, Prompts, Failures
    <2> QED BY <1>12, <1>16, <2>1 DEF OnSessionStarted
  <1>17. CASE NoInput \/ NextTurn \/ PowerReturns \/ RequestTermination
    BY <1>4, <1>17 DEF NoInput, NextTurn, PowerReturns, RequestTermination
  <1>18. CASE UNCHANGED <<formVars, channels>>
    BY <1>4, <1>18 DEF formVars
  <1> QED
    BY <1>4, <1>5, <1>6, <1>7, <1>9, <1>10, <1>11, <1>13, <1>14, <1>15,
       <1>16, <1>17, <1>18
    DEF FormNext, Loop, HandleEvent

LEMMA AttemptInvInit == Init => AttemptInv
  <1> SUFFICES ASSUME Init PROVE AttemptInv
    OBVIOUS
  <1>1. /\ commands = <<>> /\ events = <<>> /\ pc = "boot"
        /\ exchange = NoRequest /\ waiting_for_prompt = FALSE
        /\ pending_secret_response = None
    BY DEF Init, ChannelsInit, FormInit, WorkerInit
  <1>2. HandsLast /\ ~HandedBack /\ ~Prompted /\ ~Ended
    BY <1>1 DEF HandsLast, HandedBack, Prompted, Ended, LastIs
  <1>3. Len(commands) <= 1 /\ ~NextIs("Begin") /\ ~NextIs("AuthResponse")
    BY <1>1 DEF NextIs
  <1> QED BY <1>1, <1>2, <1>3
          DEF AttemptInv, OneHolder, HolderAgrees, PasswordFollows, AtWorker

LEMMA AttemptInvNext ==
  ASSUME OrderlyFaults, TypeInv, AttemptInv, [Next]_vars
  PROVE  AttemptInv'
  <1>1. ChannelsTypeOK /\ WorkerTypeOK /\ Conversing
    BY DEF TypeInv, TypeOK, WorkerTypeOK
  <1>2. CASE Worker
    BY <1>1, <1>2, WorkerKeepsAttempt DEF Worker
  <1>3. CASE Form \/ Terminate
    <2>1. UNCHANGED workerVars /\ (FormNext \/ RequestTermination)
      BY <1>3 DEF Form, Terminate
    <2> QED BY <1>1, <2>1, FormKeepsAttempt
  <1>4. CASE UNCHANGED vars
    BY <1>1, <1>4, FormKeepsAttempt DEF vars
  <1> QED BY <1>2, <1>3, <1>4 DEF Next

\* The attempt is in one place at a time in every run without the two faults
\* that break the turn-taking.
THEOREM AttemptInvHolds ==
  ASSUME OrderlyFaults
  PROVE  Spec => []AttemptInv
  <1>1. TypeInv /\ AttemptInv /\ [Next]_vars => AttemptInv'
    BY AttemptInvNext
  <1> QED BY <1>1, AttemptInvInit, TypeInvHolds, PTL DEF Spec

\* The worker never has to ignore a Begin: the form holds a repeated Enter
\* back until the attempt has really ended.
THEOREM BeginsAreNeverDuplicated ==
  ASSUME OrderlyFaults
  PROVE  Spec => []NoDuplicateBegin
  <1>1. TypeInv /\ AttemptInv => NoDuplicateBegin
    <2> SUFFICES ASSUME TypeInv, AttemptInv,
                        NEW i \in DOMAIN commands, commands[i].kind = "Begin"
                 PROVE  pc \in {"boot", "idle"} /\ i = 1
      BY DEF NoDuplicateBegin
    <2>1. commands \in Seq(Command) /\ Len(commands) <= 1
      BY DEF TypeInv, TypeOK, FormTypeOK, ChannelsTypeOK, AttemptInv, OneHolder
    <2>2. i = 1 /\ commands # <<>> /\ Head(commands) = commands[1]
      BY <2>1
    <2> QED BY <2>2 DEF NextIs, AttemptInv, HolderAgrees
  <1> QED BY <1>1, AttemptInvHolds, TypeInvHolds, PTL

\* Every answer finds the conversation it answers: AuthPromptUnavailable is
\* unreachable.
THEOREM AnswersFindTheirPrompt ==
  ASSUME OrderlyFaults
  PROVE  Spec => []AnswersHaveTheirPrompt
  <1>1. TypeInv /\ AttemptInv => AnswersHaveTheirPrompt
    <2> SUFFICES ASSUME TypeInv, AttemptInv, NEW i \in DOMAIN commands,
                        commands[i].kind = "AuthResponse"
                 PROVE  pc \in {"clone", "prompted"} /\ i = 1
      BY DEF AnswersHaveTheirPrompt
    <2>1. commands \in Seq(Command) /\ Len(commands) <= 1
      BY DEF TypeInv, TypeOK, FormTypeOK, ChannelsTypeOK, AttemptInv, OneHolder
    <2>2. i = 1 /\ commands # <<>> /\ Head(commands) = commands[1]
      BY <2>1
    <2> QED BY <2>2 DEF NextIs, AttemptInv, HolderAgrees
  <1> QED BY <1>1, AttemptInvHolds, TypeInvHolds, PTL

\* A password submitted with a login is never posted for another account.
THEOREM PasswordsStayWithTheirAccount ==
  ASSUME OrderlyFaults
  PROVE  Spec => []PasswordStaysWithAccount
  <1>1. TypeInv /\ AttemptInv => PasswordStaysWithAccount
    <2> SUFFICES ASSUME TypeInv, AttemptInv,
                        pending_secret_response # None,
                        exchange.user # pending_secret_response
                 PROVE  /\ exchange = NoRequest
                        /\ \A i \in DOMAIN commands :
                             commands[i].kind = "Begin" =>
                               commands[i].request.user
                                 = pending_secret_response
      BY DEF PasswordStaysWithAccount
    <2>1. /\ exchange = NoRequest
          /\ NextIs("Begin") =>
               Head(commands).request.user = pending_secret_response
      BY DEF AttemptInv, PasswordFollows
    <2>2. commands \in Seq(Command) /\ Len(commands) <= 1
      BY DEF TypeInv, TypeOK, FormTypeOK, ChannelsTypeOK, AttemptInv, OneHolder
    <2>3. ASSUME NEW i \in DOMAIN commands, commands[i].kind = "Begin"
          PROVE  commands[i].request.user = pending_secret_response
      <3>1. i = 1 /\ commands # <<>> /\ Head(commands) = commands[1]
        BY <2>2
      <3> QED BY <2>1, <2>3, <3>1 DEF NextIs
    <2> QED BY <2>1, <2>3
  <1> QED BY <1>1, AttemptInvHolds, TypeInvHolds, PTL
=============================================================================
