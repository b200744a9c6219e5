------------------------------ MODULE Greeter ------------------------------
(***************************************************************************)
(* The greeter process: the login form and the greetd worker, running      *)
(* concurrently over the two channels, the user in front and greetd        *)
(* behind.                                                                 *)
(***************************************************************************)
EXTENDS LoginForm, GreetdWorker

vars == <<channels, formVars, workerVars>>

TypeOK == FormTypeOK /\ WorkerTypeOK

Init == ChannelsInit /\ FormInit /\ WorkerInit

\* The worker thread runs until the process exits.
Worker == phase # "exited" /\ WorkerNext /\ UNCHANGED formVars

Form == FormNext /\ UNCHANGED workerVars

\* greetd ends the greeter once it has a session to start; the service may
\* also be stopped.
Terminate ==
  /\ launched # NoRequest \/ "stop" \in Faults
  /\ RequestTermination
  /\ UNCHANGED workerVars

Next == Worker \/ Form \/ Terminate

Spec == Init /\ [][Next]_vars

\* The threads are scheduled, greetd answers (possibly with an error), the
\* splash becomes ready or times out, the poll of the terminal times out,
\* logind answers a power request, and greetd terminates the greeter it has
\* replaced.  The user owes no key.
FairSpec ==
  /\ Spec
  /\ WF_vars(Worker)
  /\ WF_vars(Loop /\ UNCHANGED workerVars)
  /\ WF_vars(PowerReturns /\ UNCHANGED workerVars)
  /\ WF_vars(Terminate /\ launched # NoRequest)

-----------------------------------------------------------------------------
(* One attempt at a time                                                   *)

\* A Begin reaches the worker only while it is Disconnected: none is ever
\* ignored, and none opens a conversation behind the form's back.
\* (login.rs authentication_in_progress; greetd.rs the duplicate Begin)
NoDuplicateBegin ==
  \A i \in DOMAIN commands :
    commands[i].kind = "Begin" => pc \in {"boot", "idle"} /\ i = 1

\* An answer in the channel has the one prompt it answers: the worker still
\* holds that conversation, so the answer is posted to greetd and
\* AuthPromptUnavailable never happens.
AnswersHaveTheirPrompt ==
  \A i \in DOMAIN commands :
    commands[i].kind = "AuthResponse" => pc \in {"clone", "prompted"} /\ i = 1

\* A password kept by submit is only ever posted for the account that was
\* selected then: the form holds it for the attempt greetd is told of next,
\* or the one it serves now, and for no later one.
\* (login.rs pending_secret_response; greetd.rs CreateSession)
PasswordStaysWithAccount ==
  pending_secret_response # None =>
    \/ exchange.user = pending_secret_response
    \/ /\ exchange = NoRequest
       /\ \A i \in DOMAIN commands :
            commands[i].kind = "Begin" =>
              commands[i].request.user = pending_secret_response

\* While the form asks, the worker waits for exactly this answer: the prompt
\* on the screen is never one whose conversation is already gone.
\* (login.rs waiting_for_prompt; greetd.rs WorkerState::Authenticating)
FormAsksForWorker == waiting_for_prompt => pc \in {"clone", "prompted"}

\* The form refuses a new attempt only while something is on its way that
\* will end this one: a command, the worker at work, an event, or a prompt
\* the user can answer.
NeverStuck ==
  authentication_in_progress =>
    \/ waiting_for_prompt
    \/ commands # <<>>
    \/ events # <<>>
    \/ pc \notin {"boot", "idle", "prompted"}

\* greetd is told once which session to start: between StartSession's reply
\* and the SIGTERM no key can log in a second time under the splash.
\* (login.rs handoff_active; greetd.rs StartSession)
LaunchedOnce ==
  [][launched # NoRequest => launched' = launched]_vars

\* From the moment greetd owns the session the splash covers the greeter,
\* also after the process has exited.  (greetd.rs splash.detach, handoff.rs)
HandoffIsCovered == launched # NoRequest => splash = "detached"

-----------------------------------------------------------------------------
(* The greeter implements LoginExchange                                    *)

Submitted == commands # <<>> /\ Head(commands).kind = "Begin"

Stage ==
  CASE pc \in {"boot", "idle"} -> IF launched # NoRequest THEN "started"
                                  ELSE IF Submitted THEN "submitted"
                                  ELSE "idle"
    [] pc \in {"reply", "ack"} -> "negotiating"
    [] pc \in {"clone", "prompted"} -> "asking"
    [] pc = "splash" -> "authenticated"
    [] pc = "start" -> "starting"
    [] pc = "cancel" -> "closing"

Req == IF pc \notin {"boot", "idle"} THEN exchange
       ELSE IF launched # NoRequest THEN launched
       ELSE IF Submitted THEN Head(commands).request
       ELSE NoRequest

Exchange == INSTANCE LoginExchange WITH stage <- Stage, req <- Req

\* Every behaviour of the two threads is, seen through their channels, a
\* sequence of logins of which one at a time is under way and the session
\* that starts is the one submitted and authenticated.
ImplementsLoginExchange == Exchange!Spec

-----------------------------------------------------------------------------
(* Liveness                                                                *)

\* An attempt is answered by a prompt, fails, or ends in the handoff; the
\* form never refuses Enter for ever.  (login.rs authentication_in_progress)
AttemptIsAnswered ==
  authentication_in_progress ~>
    (waiting_for_prompt \/ ~authentication_in_progress \/ phase = "exited")

\* A started session is followed by the end of the greeter, whatever the form
\* and the modal are doing when SIGTERM comes.  (app.rs run)
HandoffCompletes == (launched # NoRequest) ~> (phase = "exited")
=============================================================================
