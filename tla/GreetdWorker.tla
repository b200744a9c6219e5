---------------------------- MODULE GreetdWorker ----------------------------
(***************************************************************************)
(* The greetd worker thread (crates/main/src/greetd.rs) and, as far as its *)
(* code depends on it, the greetd daemon on the other end of the socket.   *)
(*                                                                         *)
(* An action is what the thread does between two points where another      *)
(* thread or process can intervene: a receive on the command channel, a    *)
(* socket round trip, the start of the splash, or a call that can fail     *)
(* after an event has already been sent.                                   *)
(***************************************************************************)
EXTENDS LoginMessages

CONSTANT MaxRounds  \* bound: messages greetd sends in one conversation

ASSUME RoundsAssumption == MaxRounds \in Nat

VARIABLES
  pc,        \* where the worker thread is
  exchange,  \* the request whose conversation handle_response serves
  request,   \* the request greetd has yet to answer
  verdict,   \* the event cancel_session is followed by
  splash,    \* the splash child: "none", "shown" (armed), "detached"
  rounds,    \* messages received in this conversation
  slot,      \* greetd: its configuring slot
  account,   \* greetd: the account of that slot
  launched   \* greetd: the session it was told to start

greetdVars == <<slot, account, launched>>
workerVars == <<pc, exchange, request, verdict, splash, rounds, greetdVars>>

\* "idle" and "prompted" are WorkerState::Disconnected and Authenticating
\* while the thread blocks in recv.
Location == {"boot", "idle", "prompted", "reply", "clone", "ack", "splash",
             "start", "cancel"}

Slot == {"free", "configuring", "ready"}

WorkerTypeOK ==
  /\ ChannelsTypeOK
  /\ pc \in Location
  /\ exchange \in Request \cup {NoRequest}
  /\ request \in {"none", "create", "answer"}
  /\ verdict \in {"none", "Error", "AuthFailed"}
  /\ splash \in {"none", "shown", "detached"}
  /\ rounds \in 0 .. MaxRounds
  /\ slot \in Slot
  /\ account \in User \cup {None}
  /\ launched \in Request \cup {NoRequest}

WorkerInit ==
  /\ pc = "boot"
  /\ exchange = NoRequest
  /\ request = "none"
  /\ verdict = "none"
  /\ splash = "none"
  /\ rounds = 0
  /\ \/ slot = "free" /\ account = None
     \/ "stale" \in Faults /\ slot \in Slot \ {"free"} /\ account \in User
  /\ launched = NoRequest

-----------------------------------------------------------------------------
(* greetd, from what the client's code says of it: it configures one       *)
(* session at a time for all connections, so a second CreateSession is     *)
(* refused and closing a connection does not free the slot; after an error *)
(* it may or may not have freed it.                                        *)

Reply(msgs, s, u) == [msg : msgs, slot : {s}, account : {u}]

Refused == Reply({"OtherError"}, slot, account)

\* The messages of a conversation that is not over.
Unfinished ==
  IF rounds = MaxRounds THEN {}
  ELSE {"Secret", "Visible", "Info"} \cup ({"pamError"} \cap Faults)

Conversation(u) ==
  Reply(Unfinished, "configuring", u)
    \cup Reply({"Success"}, "ready", u)
    \cup Reply({"AuthError", "OtherError"}, "configuring", u)
    \cup Reply({"AuthError", "OtherError"}, "free", None)

\* Replies to CreateSession and to PostAuthMessageResponse.
GreetdReplies ==
  IF request = "create"
  THEN IF slot = "free" THEN Conversation(exchange.user) ELSE Refused
  ELSE IF slot = "configuring" THEN Conversation(account) ELSE Refused

\* CancelSession frees the slot unless it is rejected or lost.
GreetdCancels ==
  \/ slot' = "free" /\ account' = None
  \/ "cancel" \in Faults /\ UNCHANGED <<slot, account>>

\* StartSession runs the command it is given for the authenticated account.
Start ==
  /\ slot = "ready"
  /\ launched' = [exchange EXCEPT !.user = account]
  /\ slot' = "free"
  /\ account' = None

-----------------------------------------------------------------------------

\* Back to WorkerState::Disconnected: stream, session and theme are dropped.
Disconnect ==
  /\ pc' = "idle"
  /\ exchange' = NoRequest
  /\ request' = "none"
  /\ verdict' = "none"
  /\ rounds' = 0

\* Mutant: nothing kills the child on an early exit.
DropSplashForgotten == UNCHANGED splash

\* Leaving the Success arm drops WaylandSplash, which kills the child unless
\* it was detached.
DropSplash == splash' = IF splash = "shown" THEN "none" ELSE splash

Boot ==
  /\ pc = "boot"
  /\ SendEvent("Ready")
  /\ pc' = "idle"
  /\ UNCHANGED <<commands, exchange, request, verdict, splash, rounds,
                 greetdVars>>

NextIs(kind) == commands # <<>> /\ Head(commands).kind = kind

Receive == commands' = Tail(commands)

\* Begin while Disconnected: connect and write CreateSession.
BeginSession ==
  /\ pc = "idle"
  /\ NextIs("Begin")
  /\ Receive
  /\ exchange' = Head(commands).request
  /\ request' = "create"
  /\ pc' = "reply"
  /\ UNCHANGED <<events, verdict, splash, rounds, greetdVars>>

\* Begin while Disconnected, but no socket: GREETD_SOCK unset or refused.
BeginUnreachable ==
  /\ "ipc" \in Faults
  /\ pc = "idle"
  /\ NextIs("Begin")
  /\ Receive
  /\ SendEvent("GreeterUnavailable")
  /\ UNCHANGED workerVars

\* Mutant: a repeated Begin replaces what the conversation is for.
IgnoreBeginButSwitch ==
  /\ pc = "prompted"
  /\ NextIs("Begin")
  /\ Receive
  /\ exchange' = Head(commands).request
  /\ UNCHANGED <<events, pc, request, verdict, splash, rounds, greetdVars>>

\* Begin while Authenticating is ignored, without an event.
IgnoreBegin ==
  /\ pc = "prompted"
  /\ NextIs("Begin")
  /\ Receive
  /\ UNCHANGED <<events, workerVars>>

PostAnswer ==
  /\ pc = "prompted"
  /\ NextIs("AuthResponse")
  /\ Receive
  /\ request' = "answer"
  /\ pc' = "reply"
  /\ UNCHANGED <<events, exchange, verdict, splash, rounds, greetdVars>>

RejectAnswer ==
  /\ pc = "idle"
  /\ NextIs("AuthResponse")
  /\ Receive
  /\ SendEvent("AuthPromptUnavailable")
  /\ UNCHANGED workerVars

\* Response::read_from: greetd's answer to the pending request arrives.
Read(msgs) ==
  /\ pc = "reply"
  /\ \E r \in GreetdReplies :
       r.msg \in msgs /\ slot' = r.slot /\ account' = r.account

\* The prompt is announced before the stream is cloned.
ReadPrompt(kind) ==
  /\ Read({kind})
  /\ SendEvent(IF kind = "Secret" THEN "SecretPrompt" ELSE "VisiblePrompt")
  /\ pc' = "clone"
  /\ rounds' = rounds + 1
  /\ UNCHANGED <<commands, exchange, request, verdict, splash, launched>>

CloneStream ==
  /\ pc = "clone"
  /\ pc' = "prompted"
  /\ request' = "none"
  /\ UNCHANGED <<channels, exchange, verdict, splash, rounds, greetdVars>>

CloneFails ==
  /\ "clone" \in Faults
  /\ pc = "clone"
  /\ SendEvent("GreeterUnavailable")
  /\ Disconnect
  /\ UNCHANGED <<commands, splash, greetdVars>>

\* Info and error messages are shown, then acknowledged; the loop goes on.
ReadNote(kind) ==
  /\ Read({kind})
  /\ SendEvent(IF kind = "Info" THEN "Info" ELSE "Error")
  /\ pc' = "ack"
  /\ rounds' = rounds + 1
  /\ UNCHANGED <<commands, exchange, request, verdict, splash, launched>>

Acknowledge ==
  /\ pc = "ack"
  /\ request' = "answer"
  /\ pc' = "reply"
  /\ UNCHANGED <<channels, exchange, verdict, splash, rounds, greetdVars>>

Verdict(kind) == IF kind = "AuthError" THEN "AuthFailed" ELSE "Error"

\* Mutant: greetd is left to clean up after its own error.
ReadFailureUncancelled(kind) ==
  /\ Read({kind})
  /\ SendEvent(Verdict(kind))
  /\ Disconnect
  /\ UNCHANGED <<commands, splash, launched>>

ReadFailure(kind) ==
  /\ Read({kind})
  /\ verdict' = Verdict(kind)
  /\ pc' = "cancel"
  /\ UNCHANGED <<channels, exchange, request, splash, rounds, launched>>

ReadSuccess ==
  /\ Read({"Success"})
  /\ pc' = "splash"
  /\ UNCHANGED <<channels, exchange, request, verdict, splash, rounds,
                 launched>>

\* WaylandSplash::start returns once the splash has drawn a frame.
SplashReady ==
  /\ pc = "splash"
  /\ splash' = "shown"
  /\ SendEvent("SessionStarting")
  /\ pc' = "start"
  /\ UNCHANGED <<commands, exchange, request, verdict, rounds, greetdVars>>

\* Mutant: the early return tells the form nothing.
SplashFailsSilent ==
  /\ "splash" \in Faults
  /\ pc = "splash"
  /\ Disconnect
  /\ UNCHANGED <<channels, splash, greetdVars>>

\* The early return: no splash, no CancelSession.
SplashFails ==
  /\ "splash" \in Faults
  /\ pc = "splash"
  /\ SendEvent("Error")
  /\ Disconnect
  /\ UNCHANGED <<commands, splash, greetdVars>>

\* Mutant: the splash is dropped instead of detached.
StartAcceptedUndetached ==
  /\ pc = "start"
  /\ Start
  /\ DropSplash
  /\ SendEvent("SessionStarted")
  /\ Disconnect
  /\ UNCHANGED commands

\* StartSession accepted: the splash is detached from its owner.
StartAccepted ==
  /\ pc = "start"
  /\ Start
  /\ splash' = "detached"
  /\ SendEvent("SessionStarted")
  /\ Disconnect
  /\ UNCHANGED commands

\* StartSession answered by an error or by an authentication message; the
\* slot may stay taken.
StartRefused ==
  /\ pc = "start"
  /\ \/ UNCHANGED <<slot, account>>
     \/ slot' = "free" /\ account' = None
  /\ verdict' = "Error"
  /\ pc' = "cancel"
  /\ UNCHANGED <<channels, exchange, request, splash, rounds, launched>>

\* Mutant: the failure is logged but no event is sent.
CancelSilent ==
  /\ pc = "cancel"
  /\ GreetdCancels
  /\ DropSplash
  /\ Disconnect
  /\ UNCHANGED <<channels, launched>>

\* cancel_session, then the verdict, then the end of handle_response.
Cancel ==
  /\ pc = "cancel"
  /\ GreetdCancels
  /\ SendEvent(verdict)
  /\ DropSplash
  /\ Disconnect
  /\ UNCHANGED <<commands, launched>>

\* A socket error propagated by `?`; the splash, if any, goes with it.
Break == SendEvent("GreeterUnavailable") /\ DropSplash /\ Disconnect

\* greetd may have acted on the request whose reply is lost.
IpcFails ==
  /\ "ipc" \in Faults
  /\ \/ pc \in {"reply", "ack", "start"} /\ UNCHANGED <<slot, account>>
     \/ pc = "start" /\ slot' = "free" /\ account' = None
     \/ Read({"Secret", "Visible", "Info", "pamError", "Success",
              "AuthError", "OtherError"})
  /\ Break
  /\ UNCHANGED <<commands, launched>>

\* The session is started, but the worker only sees the socket break.
StartReplyLost ==
  /\ "startLost" \in Faults
  /\ pc = "start"
  /\ Start
  /\ Break
  /\ UNCHANGED commands

WorkerNext ==
  \/ Boot
  \/ BeginSession
  \/ BeginUnreachable
  \/ IgnoreBegin
  \/ PostAnswer
  \/ RejectAnswer
  \/ \E kind \in {"Secret", "Visible"} : ReadPrompt(kind)
  \/ CloneStream
  \/ CloneFails
  \/ \E kind \in {"Info", "pamError"} : ReadNote(kind)
  \/ Acknowledge
  \/ \E kind \in {"AuthError", "OtherError"} : ReadFailure(kind)
  \/ ReadSuccess
  \/ SplashReady
  \/ SplashFails
  \/ StartAccepted
  \/ StartRefused
  \/ Cancel
  \/ IpcFails
  \/ StartReplyLost

-----------------------------------------------------------------------------
(* What the worker guarantees whatever the form sends, and when.           *)

\* The session is started for the account greetd authenticated in this very
\* exchange: neither a Begin that arrives during a conversation nor one that
\* finds the slot taken can pair one request's session with another
\* request's authentication.
LaunchesAuthenticatedAccount ==
  pc \in {"splash", "start"} => slot = "ready" /\ account = exchange.user

\* Once the worker is back in Disconnected no splash covers the greeter,
\* unless it was detached because a session was started; while StartSession
\* is outstanding the splash is already up.
SplashIsOwned ==
  /\ pc \in {"boot", "idle", "prompted", "reply", "clone", "ack", "splash"}
       => splash # "shown"
  /\ pc = "start" => splash = "shown"
  /\ splash = "detached" => launched # NoRequest

\* Returning to Disconnected leaves greetd free to configure the next login
\* (greetd.rs "Disconnected is the safe state", "so the next login can create
\* a fresh session").  The comments say so; the early return after a failed
\* splash does not keep it.
SlotReleased == pc = "idle" => slot = "free"
=============================================================================
