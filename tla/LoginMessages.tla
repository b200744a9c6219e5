--------------------------- MODULE LoginMessages ---------------------------
(***************************************************************************)
(* The two mpsc channels between the login form (UI thread) and the greetd *)
(* worker thread, and the messages they carry (greetd.rs Command, Event).  *)
(*                                                                         *)
(* Accounts and sessions are the indices of the discovery snapshot the     *)
(* form owns (login.rs users, sessions).  A session's command line and a   *)
(* theme's name are abstracted to the index they were read for.  The text  *)
(* of a password is abstracted to the account that was selected when the   *)
(* user pressed Enter on it (`for`), a prompt's text to its kind.          *)
(***************************************************************************)
EXTENDS Integers, Sequences

CONSTANTS
  NumUsers,     \* accounts found by discover_users
  NumSessions,  \* sessions found by discover_sessions
  Faults        \* the environment's faults a run allows

\* Every fault the code handles and a run may switch on:
\*   "pamError"  PAM sends a non-terminal error message within a conversation
\*   "clone"     UnixStream::try_clone fails after a prompt was announced
\*   "splash"    the handoff splash does not start or does not become ready
\*   "ipc"       the greetd socket is missing, refuses, or breaks
\*   "startLost" the socket breaks after StartSession took effect
\*   "cancel"    greetd rejects CancelSession, or its reply is lost
\*   "stop"      SIGTERM although no session was started
\*   "stale"     greetd still holds the slot of a greeter that exited
Fault == {"pamError", "clone", "splash", "ipc", "startLost", "cancel", "stop",
          "stale"}

ASSUME CountAssumption == NumUsers \in Nat /\ NumSessions \in Nat
ASSUME FaultAssumption == Faults \subseteq Fault

VARIABLES
  commands,  \* form -> worker: mpsc channel of Command
  events     \* worker -> form: mpsc channel of Event

channels == <<commands, events>>

None == -1
User == 0 .. NumUsers - 1
Session == 0 .. NumSessions - 1

\* What a login is for; the theme is the account whose projection dresses it.
Request == [user : User, session : Session, theme : Nat]
NoRequest == [user |-> None, session |-> None, theme |-> None]

Begin(r) == [kind |-> "Begin", request |-> r]
AuthResponse(u) == [kind |-> "AuthResponse", for |-> u]
Command == [kind : {"Begin"}, request : Request]
             \cup [kind : {"AuthResponse"}, for : Nat]

\* Event::AuthMessage is one value per kind of prompt.
Prompts == {"SecretPrompt", "VisiblePrompt"}
Failures == {"Error", "AuthFailed", "AuthPromptUnavailable",
             "GreeterUnavailable"}
Event == {"Ready", "Info", "SessionStarting", "SessionStarted"}
           \cup Prompts \cup Failures

ChannelsTypeOK == commands \in Seq(Command) /\ events \in Seq(Event)

\* The channels are empty when the two threads start (app.rs).
ChannelsInit == commands = <<>> /\ events = <<>>

\* Sender::send: the channel is unbounded and its receiver outlives it.
SendCommand(c) == commands' = Append(commands, c)
SendEvent(e) == events' = Append(events, e)
=============================================================================
