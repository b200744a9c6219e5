----------------------------- MODULE LoginForm -----------------------------
(***************************************************************************)
(* The login form: the state of LoginApp and the loop that drives it       *)
(* (crates/main/src/ui/login.rs, crates/main/src/app.rs), on the UI        *)
(* thread.  One turn of the loop handles at most one key, then drains the  *)
(* event channel; SIGTERM is looked at between two turns.                  *)
(*                                                                         *)
(* Left out: drawing, the avatar, the status line, translations.           *)
(***************************************************************************)
EXTENDS LoginMessages

CONSTANTS
  Keys,         \* the keys the user may press in a run
  MaxPassword,  \* bound: characters in the password field
  MaxCommands   \* bound: commands the user lets pile up before submitting

Key == {"Tab", "BackTab", "Up", "k", "Down", "j", "Left", "h", "Right", "l",
        "x", "Backspace", "Enter", "Esc"}

ASSUME KeysAssumption == Keys \subseteq Key
ASSUME FormBoundsAssumption == MaxPassword \in Nat /\ MaxCommands \in Nat

VARIABLES
  phase,      \* the loop: "input", "power" (in a D-Bus call), "drain", "exited"
  terminate,  \* TERMINATION_REQUESTED
  focus, selected_user, selected_session,
  theme_user,       \* theme_user_uid, with theme_name and theme_accent
  password,         \* length of the response text
  prompt_secret,    \* prompt.secret
  waiting_for_prompt,
  pending_secret_response,  \* None, or the account selected at its Enter
  authentication_in_progress,
  power_open, power_selected,
  handoff_active

selection == <<selected_user, selected_session, theme_user>>
power == <<power_open, power_selected>>
attempt == <<prompt_secret, waiting_for_prompt, pending_secret_response,
             authentication_in_progress>>
formVars == <<phase, terminate, focus, selection, password, attempt, power,
              handoff_active>>

Focus == {"User", "Password", "Session", "Login", "Power"}

FormTypeOK ==
  /\ ChannelsTypeOK
  /\ phase \in {"input", "power", "drain", "exited"}
  /\ terminate \in BOOLEAN
  /\ focus \in Focus
  /\ selected_user \in Nat /\ (NumUsers > 0 => selected_user < NumUsers)
  /\ selected_session \in Nat
  /\ NumSessions > 0 => selected_session < NumSessions
  /\ theme_user \in Nat \cup {None}
  /\ password \in 0 .. MaxPassword
  /\ prompt_secret \in BOOLEAN
  /\ waiting_for_prompt \in BOOLEAN
  /\ pending_secret_response \in Nat \cup {None}
  /\ authentication_in_progress \in BOOLEAN
  /\ power_open \in BOOLEAN
  /\ power_selected \in 0 .. 2
  /\ handoff_active \in BOOLEAN

\* refresh_theme: the projection follows the selected account.  It is keyed
\* by account and reloaded only when that changes.
ThemeOf(user, current) == IF user < NumUsers THEN user ELSE current

\* LoginApp::new: the configured default session if discovery marked one.
FormInit ==
  /\ phase = "input"
  /\ terminate = FALSE
  /\ focus = "User"
  /\ selected_user = 0
  /\ selected_session \in Session \cup {0}
  /\ theme_user = ThemeOf(0, None)
  /\ password = 0
  /\ prompt_secret = TRUE
  /\ waiting_for_prompt = FALSE
  /\ pending_secret_response = None
  /\ authentication_in_progress = FALSE
  /\ power_open = FALSE
  /\ power_selected = 0
  /\ handoff_active = FALSE

-----------------------------------------------------------------------------
(* Keys                                                                    *)

NextFocus(f) == CASE f = "User" -> "Password"
                  [] f = "Password" -> "Session"
                  [] f = "Session" -> "Login"
                  [] f = "Login" -> "Power"
                  [] f = "Power" -> "User"

PreviousFocus(f) == CASE f = "User" -> "Power"
                      [] f = "Password" -> "User"
                      [] f = "Session" -> "Password"
                      [] f = "Login" -> "Session"
                      [] f = "Power" -> "Login"

\* Mutant: no wrap at the end of the list.
MoveIndexUnwrapped(index, length, delta) ==
  IF length = 0 THEN 0
  ELSE IF delta < 0 THEN (IF index = 0 THEN length - 1 ELSE index - 1)
  ELSE index + 1

\* move_index: one step either way around a list of `length` elements.
move_index(index, length, delta) ==
  IF length = 0 THEN 0
  ELSE IF delta < 0 THEN (IF index = 0 THEN length - 1 ELSE index - 1)
  ELSE IF index + 1 >= length THEN 0
  ELSE index + 1

Delta(key) == IF key \in {"Up", "k", "Left", "h"} THEN -1 ELSE 1

\* The match arms of handle_key, in order: k and j move before Char is tried,
\* h and l only when the session selector has the focus.
Vertical == {"Up", "k", "Down", "j"}
Horizontal == {"Left", "h", "Right", "l"}
Characters == {"h", "l", "x"}

\* handle_key returns early after the handoff; the power modal takes over.
FormTakes(key) ==
  phase = "input" /\ ~handoff_active /\ ~power_open /\ key \in Keys

\* Mutant: the projection is not refreshed after a key.
EndKeyStale ==
  /\ phase' = "drain"
  /\ UNCHANGED <<theme_user, terminate, handoff_active, events>>

\* What every arm of the form ends with, inside the loop's turn.
EndKey ==
  /\ theme_user' = ThemeOf(selected_user', theme_user)
  /\ phase' = "drain"
  /\ UNCHANGED <<terminate, handoff_active, events>>

MoveFocus(key) ==
  /\ FormTakes(key)
  /\ \/ key = "Tab" /\ focus' = NextFocus(focus)
     \/ key = "BackTab" /\ focus' = PreviousFocus(focus)
  /\ UNCHANGED <<commands, selected_user, selected_session, password, attempt,
                 power>>
  /\ EndKey

MoveVertical(key) ==
  /\ FormTakes(key)
  /\ key \in Vertical
  /\ selected_user' = IF focus = "User"
                        THEN move_index(selected_user, NumUsers, Delta(key))
                        ELSE selected_user
  /\ selected_session' =
       IF focus = "Session"
         THEN move_index(selected_session, NumSessions, Delta(key))
         ELSE selected_session
  /\ power_selected' = IF focus = "Power"
                         THEN move_index(power_selected, 3, Delta(key))
                         ELSE power_selected
  /\ UNCHANGED <<commands, focus, password, attempt, power_open>>
  /\ EndKey

MoveSession(key) ==
  /\ FormTakes(key)
  /\ key \in Horizontal
  /\ focus = "Session"
  /\ selected_session' = move_index(selected_session, NumSessions, Delta(key))
  /\ UNCHANGED <<commands, focus, selected_user, password, attempt, power>>
  /\ EndKey

EditPassword(key) ==
  /\ FormTakes(key)
  /\ focus = "Password"
  /\ \/ key \in Characters /\ password < MaxPassword
                           /\ password' = password + 1
     \/ key = "Backspace" /\ password > 0 /\ password' = password - 1
  /\ UNCHANGED <<commands, focus, selected_user, selected_session, attempt,
                 power>>
  /\ EndKey

CancelInput(key) ==
  /\ FormTakes(key)
  /\ key = "Esc"
  /\ password' = 0
  /\ focus' = IF password = 0 THEN "User" ELSE focus
  /\ UNCHANGED <<commands, selected_user, selected_session, attempt, power>>
  /\ EndKey

\* Enter on a selector moves on; on Power it opens the modal.
ActivateSelector(key) ==
  /\ FormTakes(key)
  /\ key = "Enter"
  /\ \/ focus = "User" /\ focus' = "Password" /\ UNCHANGED power_open
     \/ focus = "Session" /\ focus' = "Login" /\ UNCHANGED power_open
     \/ focus = "Power" /\ power_open' = TRUE /\ UNCHANGED focus
  /\ UNCHANGED <<commands, selected_user, selected_session, password, attempt,
                 power_selected>>
  /\ EndKey

\* submit() is reached from the password field and the login button.
Submits(key) ==
  FormTakes(key) /\ key = "Enter" /\ focus \in {"Password", "Login"}

\* Mutant: the prompt stays active after its answer was sent.
SubmitAnswerTwice(key) ==
  /\ Submits(key)
  /\ waiting_for_prompt
  /\ Len(commands) < MaxCommands
  /\ SendCommand(AuthResponse(selected_user))
  /\ password' = 0
  /\ UNCHANGED <<focus, selected_user, selected_session, attempt, power>>
  /\ EndKey

\* submit, a prompt is active: its answer is taken from the field.
SubmitAnswer(key) ==
  /\ Submits(key)
  /\ waiting_for_prompt
  /\ Len(commands) < MaxCommands
  /\ SendCommand(AuthResponse(selected_user))
  /\ password' = 0
  /\ waiting_for_prompt' = FALSE
  /\ UNCHANGED <<focus, selected_user, selected_session, prompt_secret,
                 pending_secret_response, authentication_in_progress, power>>
  /\ EndKey

\* Mutant: a second Enter is not held back by the attempt under way.
NoAttemptUnguarded == ~waiting_for_prompt

NoAttempt == ~waiting_for_prompt /\ ~authentication_in_progress

\* submit, no prompt and no attempt under way: a new attempt.
SubmitBegin(key) ==
  /\ Submits(key)
  /\ NoAttempt
  /\ selected_user \in User
  /\ selected_session \in Session
  /\ Len(commands) < MaxCommands
  /\ SendCommand(Begin([user |-> selected_user, session |-> selected_session,
                        theme |-> theme_user]))
  /\ pending_secret_response' = IF password > 0 THEN selected_user ELSE None
  /\ password' = 0
  /\ authentication_in_progress' = TRUE
  /\ focus' = "Password"
  /\ UNCHANGED <<selected_user, selected_session, prompt_secret,
                 waiting_for_prompt, power>>
  /\ EndKey

\* The power modal owns every key while it is open; the form's refresh at
\* the end of handle_key is skipped.
PowerTakes(key) ==
  phase = "input" /\ ~handoff_active /\ power_open /\ key \in Keys

PowerMove(key) ==
  /\ PowerTakes(key)
  /\ \/ key \in Vertical
          /\ power_selected' = move_index(power_selected, 3, Delta(key))
          /\ UNCHANGED power_open
     \/ key = "Esc" /\ power_open' = FALSE /\ UNCHANGED power_selected
  /\ phase' = "drain"
  /\ UNCHANGED <<channels, terminate, focus, selection, password, attempt,
                 handoff_active>>

\* Enter in the modal: power::request blocks the UI thread in a D-Bus call.
PowerRequest(key) ==
  /\ PowerTakes(key)
  /\ key = "Enter"
  /\ phase' = "power"
  /\ UNCHANGED <<channels, terminate, focus, selection, password, attempt,
                 power, handoff_active>>

\* The call returned, with or without an error, and the modal closes.
PowerReturns ==
  /\ phase = "power"
  /\ power_open' = FALSE
  /\ phase' = "drain"
  /\ UNCHANGED <<channels, terminate, focus, selection, password, attempt,
                 power_selected, handoff_active>>

\* The poll timed out, or read a key no arm acts on: a release, Ctrl+C, any
\* key after the handoff, Enter during an attempt or with nothing to choose.
NoInput ==
  /\ phase = "input"
  /\ phase' = "drain"
  /\ UNCHANGED <<channels, terminate, focus, selection, password, attempt,
                 power, handoff_active>>

-----------------------------------------------------------------------------
(* Worker events: poll_events drains the channel, handle_event by          *)
(* handle_event.                                                           *)

Handle(kinds) ==
  /\ phase = "drain"
  /\ events # <<>>
  /\ Head(events) \in kinds
  /\ events' = Tail(events)
  /\ UNCHANGED <<phase, terminate, selection, power>>

OnNotice ==
  /\ Handle({"Ready", "Info"})
  /\ UNCHANGED <<commands, focus, password, attempt, handoff_active>>

\* A secret prompt is answered from the text kept by submit, unseen.
OnPromptAnswered ==
  /\ Handle({"SecretPrompt"})
  /\ pending_secret_response # None
  /\ SendCommand(AuthResponse(pending_secret_response))
  /\ pending_secret_response' = None
  /\ UNCHANGED <<focus, password, prompt_secret, waiting_for_prompt,
                 authentication_in_progress, handoff_active>>

OnPromptShown(kind) ==
  /\ Handle({kind})
  /\ kind = "SecretPrompt" => pending_secret_response = None
  /\ prompt_secret' = (kind = "SecretPrompt")
  /\ waiting_for_prompt' = TRUE
  /\ focus' = "Password"
  /\ UNCHANGED <<commands, password, pending_secret_response,
                 authentication_in_progress, handoff_active>>

\* The attempt is over, as far as the form knows.
ForgetAttempt ==
  /\ waiting_for_prompt' = FALSE
  /\ pending_secret_response' = None
  /\ authentication_in_progress' = FALSE
  /\ UNCHANGED prompt_secret

\* Event::Error and Event::AuthFailed.
OnFailure ==
  /\ Handle({"Error", "AuthFailed"})
  /\ ForgetAttempt
  /\ password' = 0
  /\ UNCHANGED <<commands, focus, handoff_active>>

\* Event::AuthPromptUnavailable and Event::GreeterUnavailable.
OnUnavailable ==
  /\ Handle({"AuthPromptUnavailable", "GreeterUnavailable"})
  /\ ForgetAttempt
  /\ UNCHANGED <<commands, focus, password, handoff_active>>

OnSessionStarting ==
  /\ Handle({"SessionStarting"})
  /\ waiting_for_prompt' = FALSE
  /\ UNCHANGED <<commands, focus, password, prompt_secret,
                 pending_secret_response, authentication_in_progress,
                 handoff_active>>

\* Mutant: the form stays open under the splash.
OnSessionStartedOpen ==
  /\ Handle({"SessionStarted"})
  /\ authentication_in_progress' = FALSE
  /\ UNCHANGED <<commands, focus, password, prompt_secret, waiting_for_prompt,
                 pending_secret_response, handoff_active>>

OnSessionStarted ==
  /\ Handle({"SessionStarted"})
  /\ authentication_in_progress' = FALSE
  /\ handoff_active' = TRUE
  /\ UNCHANGED <<commands, focus, password, prompt_secret, waiting_for_prompt,
                 pending_secret_response>>

\* Mutant: the termination flag is never looked at.
NextTurnUnchecked ==
  /\ phase = "drain"
  /\ events = <<>>
  /\ phase' = "input"
  /\ UNCHANGED <<channels, terminate, focus, selection, password, attempt,
                 power, handoff_active>>

\* The channel is drained: the next turn starts, unless SIGTERM arrived, and
\* then exit(0) ends the process, the worker thread with it.
NextTurn ==
  /\ phase = "drain"
  /\ events = <<>>
  /\ phase' = IF terminate THEN "exited" ELSE "input"
  /\ UNCHANGED <<channels, terminate, focus, selection, password, attempt,
                 power, handoff_active>>

\* The signal handler only sets a flag.
RequestTermination ==
  /\ terminate = FALSE
  /\ phase # "exited"
  /\ terminate' = TRUE
  /\ UNCHANGED <<channels, phase, focus, selection, password, attempt, power,
                 handoff_active>>

\* What the user does.
Press(key) ==
  \/ MoveFocus(key)
  \/ MoveVertical(key)
  \/ MoveSession(key)
  \/ EditPassword(key)
  \/ CancelInput(key)
  \/ ActivateSelector(key)
  \/ SubmitAnswer(key)
  \/ SubmitBegin(key)
  \/ PowerMove(key)
  \/ PowerRequest(key)

\* What the UI thread does on its own.
HandleEvent ==
  \/ OnNotice
  \/ OnPromptAnswered
  \/ \E kind \in Prompts : OnPromptShown(kind)
  \/ OnFailure
  \/ OnUnavailable
  \/ OnSessionStarting
  \/ OnSessionStarted

Loop == NoInput \/ NextTurn \/ HandleEvent

FormNext ==
  \/ \E key \in Key : Press(key)
  \/ PowerReturns
  \/ Loop

-----------------------------------------------------------------------------
(* What the form guarantees whatever events arrive, and when.              *)

\* The projection in use is the selected account's: every path that moves
\* the selection also refreshes the theme, though the modal's keys and the
\* events return before the refresh.
ThemeFollowsSelection ==
  NumUsers > 0 => theme_user = selected_user /\ selected_user < NumUsers
=============================================================================
