# Argvus Greeter: specification and proofs

TLA+ modules for `argvus-greeter`, the keyboard-first TUI greeter for greetd,
the TLC configurations that check them, and TLAPS proofs about them. Source
paths are relative to the repository; `login.rs`, `greetd.rs`, `app.rs`,
`handoff.rs` and `power.rs` are under `crates/main/src`.

## 1. The system

| Component | Source | State | Operations |
|---|---|---|---|
| Login form | `ui/login.rs` | focus, selected account and session, theme projection, password text, current prompt, `waiting_for_prompt`, `pending_secret_response`, `authentication_in_progress`, power modal, `handoff_active` | one arm per key (`handle_key`), one per worker event (`handle_event`) |
| Event loop | `app.rs` | `TERMINATION_REQUESTED`, the phase of the turn | poll a key, drain events, look at SIGTERM |
| greetd worker | `greetd.rs` | `WorkerState` (Disconnected / Authenticating with stream, session, theme) and where the thread blocks | receive a command, round trips with greetd, send events |
| Channels | `app.rs`, `greetd.rs` | two unbounded mpsc queues | send, receive |
| Splash handshake | `handoff.rs` | child process, readiness pipe, 8 s deadline | start, wait for `READY\n`, detach, kill on drop |
| Power | `power.rs` | none | one blocking D-Bus call to logind |
| greetd | external | one configuring slot | CreateSession, PostAuthMessageResponse, StartSession, CancelSession |
| DRM handoff process | `crates/handoff/src/main.rs` | socket, DRM master, dumb buffer, palette | acquire with a 15 s deadline, draw, obey `theme=` and `release` |
| Session discovery | `session.rs` | none (result is a snapshot) | parse, validate, first id wins, sort |
| User discovery, avatars | `users.rs` | none (snapshot) | filter passwd, sort, resolve avatar |
| Setup script | `packaging/greetd/argvus-greeter-setup` | theme projections, greetd configuration | publish theme and accent, migrate paths, back up and install |
| Launchers, configuration, i18n, logging, packaging | rest | none at run time | |

**Interactions.** Two threads share nothing but the two channels. The UI thread
sends `Begin` and `AuthResponse`; the worker sends nine kinds of `Event`. The
worker speaks to greetd over one socket per login, and starts the splash as a
child between greetd's `Success` and its own `StartSession`. After
`StartSession` greetd sends SIGTERM; the handler sets a flag the UI loop reads
at the top of a turn, and `exit(0)` ends both threads while the detached splash
goes on covering the screen.

Before that the main thread reads configuration, accounts and sessions, one
after the other; the form works on this snapshot. The setup script, run by an
administrator or by the package's hook, shares only files with the greeter: it
publishes themes for the form to load, and writes the configuration greetd
starts the greeter from.

**What is hard.** *Ordering*: each side keeps its own idea of whether an attempt
is under way (`authentication_in_progress`, `WorkerState`), and events and
commands cross in the channels. *Staleness*: the selectors stay live during an
attempt, the password is kept for a prompt that has not arrived, and theme and
prompt outlive the attempt they were read for. *Partial failure*: the socket or
the splash can fail after greetd has authenticated, or started, a session; greetd's slot
outlives the connection, and even the greeter. *Liveness*: a forgotten event
leaves the form refusing Enter. *Blocking*: the power call stops the UI thread,
and the splash handshake the worker's. *Files*: scripts, users and packages
change what is being read, and a script may die between any two commands.

**What makes each component correct.** Form: indices in range, theme follows
the selection, one attempt at a time. Worker: a session starts only for the
account greetd authenticated in its own exchange; every exit releases the
splash and, where the code cancels, greetd's slot. Together: prompts, answers
and the kept password belong to the conversation greetd is holding; one session
is started, covered, and ends the greeter. DRM process: everything acquired is
released, whichever step fails, and a release always gets through. Discovery:
the result does not depend on directory order where the code says it does not.
Splash: a handle means a drawn frame, and no failed start leaves anything
behind. Setup script: a reader never sees half a projection, and the
administrator's configuration is never lost.

## 2. Modules

| Module | What it is |
|---|---|
| `LoginMessages` | the channels and messages; the constants for accounts, sessions and faults |
| `GreetdWorker` | the worker thread, with greetd behind it |
| `LoginForm` | `LoginApp` and the loop that drives it |
| `Greeter` | both, composed; the properties that relate them; the refinement mapping |
| `LoginExchange` | abstract specification: one login at a time, from submission to start |
| `SplashHandshake` | `WaylandSplash`: pipe, child and deadline, with the splash at the other end |
| `MCGreetdWorker` | the worker composed with the handshake, in front of an environment that may do anything the channels' types allow |
| `MCLoginForm` | the form alone in front of such an environment |
| `DocumentedClaims` | what the repository's comments say and the form does not keep |
| `DrmHandoff` | the DRM process of `crates/handoff`, with the compositors and clients around it; the refinement mapping |
| `DisplayLease` | abstract specification: what the DRM process promises the compositors before and after it |
| `ThemeProjection` | the setup script publishing themes, and the form loading them |
| `ConfigMigration` | the setup script migrating, backing up and installing greetd's configuration |
| `GreeterSetup` | the two sides of the setup script |
| `UserDiscovery` | `discover_users`: passwd filter, avatars, order |
| `SessionDiscovery` | `discover_sessions`: the walk, first valid entry, order |
| `Startup` | `main`: the two discoveries in sequence, with the errors that end the start |
| `GreetdWorkerProofs` | lemmas about the worker's steps, for whatever is in front of it |
| `GreeterProofs`, `HandoffProofs` | theorems about `Greeter`; the second has the handoff and the refinement |
| `SplashHandshakeProofs` | theorems about `MCGreetdWorker`, the worker with its splash |
| `DrmHandoffProofs` | theorems about `DrmHandoff`, with the refinement |
| `SetupProofs` | theorems about `GreeterSetup`: projections and configuration |
| `DiscoveryProofs` | theorems about `Startup`: users and sessions |
| `FiniteOrders` | lemmas about ranks in a finite total order |

### Correspondence

*Form.* Variables have the names of `LoginApp`'s fields. `password` is the
length of the text: which characters it holds matters only through the account
they were entered for, which the messages carry as `for`. `theme_user` stands
for `theme_user_uid`, `theme_name` and `theme_accent`, which are only assigned
together. `status`, the avatar cache and drawing are left out. `quit` is never
set by the code.

`handle_key` is one action per match arm, each ending in `EndKey`, the trailing
`refresh_avatar`/`refresh_theme`; the modal's keys return before it, so
`PowerMove` and `PowerRequest` have no `EndKey`. The arms' order is the code's:
`Vertical` keys are never characters, `h` and `l` only when the session
selector lacks the focus. A key no arm acts on is `NoInput`, and so is a poll
that timed out. `phase` is the turn of the loop in `app.rs`: "input" (poll and
handle at most one key), "power" (inside the D-Bus call), "drain"
(`poll_events`), and then either the next turn or, if SIGTERM was seen, the exit.
Terminal I/O errors, which end the process through `?`, are not modelled.

*Worker.* `pc` is where the thread can be interrupted: blocked in `recv`
("idle" and "prompted", the two `WorkerState`s), waiting for greetd ("reply",
"start", "cancel"), starting the splash, or between an event it has sent and a
call that can still fail ("clone", "ack"). A step is everything in between, so
an event and the return to `Disconnected` that follows it are one step: nothing
another thread can see happens in between, since the next command is received
only afterwards. The prompt and `try_clone` are two steps because the form may
answer, and the clone fail, in either order. `exchange` is the session, theme
and username that travel through `handle_response`.

*greetd* is external. What the client's comments say of it is all the model
uses: one configuring slot for all connections, a second CreateSession is
refused while it is taken, closing a connection does not free it, and after an
error it may or may not be free. `Conversation` sends up to `MaxRounds`
messages and then decides.

*Channels.* `Sender::send` cannot fail here: the worker's receiver and the
form's receiver are dropped only when the process exits.

*Splash.* `start` says where the call of `WaylandSplash::start` is: not called,
in `poll`, in the read loop, or returned with a handle. The pipe is what has
been written and how much of it was taken; an end is open or not, and in the
greeter or in the splash. Closing the greeter's end forgets what was in it.
`child` is a zombie ("dead") until it is waited for. A byte is right or wrong.
The splash draws, writes in pieces of any size, closes, dies, or says nothing,
in any order its faults allow. `leaked` and `stray` record what the code gives
up for good: the pipe of a spawn that fails (the `?` of line 71, which the
code does leak) and a splash without an owner. In `MCGreetdWorker` the worker's
`pc = "splash"` lasts as long as the handshake: `Handshake` ties the call's two
results to `SplashReady` and `SplashFails` of `GreetdWorker`, and `Elsewhere`
ties what the worker's other steps do to `splash` to `Drop` and `Detach`. This
is the sense in which the two outcomes `GreetdWorker` uses stand for the
handshake.

*DRM process.* It runs on its own; only the socket connects it to the session.
`pc` is the call it is about to make: a failure there undoes the calls before,
so every call of `DumbBuffer::create` and `run_surface` is a step of its own and
`objects` says what exists after it. `master` is per card: a compositor may take
or leave a card between any two steps. Cards are tried in the order of their
names; `late` says that the 15 s deadline has passed, and is looked at between
passes only. `backlog` holds connections not yet accepted; `reading` is the one
`read_line` blocks on, "silent" until the client speaks. What a line says is
reduced to what the loop does with it; the palette has no influence on any step.
A frame is `Spinner(buffer)`, the set of pixels it writes, with the width and
height the code derives from pitch and size and the clip of `draw_disc`; the
angles are any offsets within the radius. That the pitch is not zero is assumed of
the kernel: `draw_frame` divides by it. `Kill` may come at any step and
`Relaunch` after any end; a socket file may be left from before.

*Theme projections.* Each run of the script is at one command of
`publish_theme_for_user` or `publish_accent_for_user`, of one account; the
write of the temporary file is two steps (created, filled), as are the owner
and the rename. A value is a supported theme or a well-formed accent;
"unsupported" stands for every name `is_supported_theme` refuses, and a
malformed accent is as good as none in the code. The form looks at owner and
type (`Stat`) and then reads by name (`Read`), for theme and accent. Three
history variables carry the properties: `register` is the value last published,
`seen` the values the register had since the load began, `excused` the files a
run need not have got right: those the user changed after the run had read
them (`HasRead`), those an excused run published since, and those it could not
write. A run that is killed takes no further step, which `ThemesSpec`
allows at every point. An account's own desktop may publish through the same
directory; that writer is not in this repository.

*Configuration.* A file is an administrator's edition with the legacy lines
still in it, or the packaged one, or torn: every redirection, `cp` and
`install` opens before it writes. A run is a list of tasks, two lines to
migrate and the installation, that the options choose from; `RunDies` ends it
anywhere, by a signal or by `set -e`. Runs are numbered, and the number is
their backup's suffix: no two begin in the same second. Two limits: runs of the
migration do not overlap (the package manager starts one per transaction, and an
administrator the others), and the administrator writes an edition between
runs, never during one (`WriteEdition` needs `task = 0`). An edition written
while a run rewrites the same file can be lost, and nothing here excludes it.

*Discovery.* A line of passwd, a desktop file and an avatar are reduced to what
the code decides by; names are numbers in their order. Parsing one desktop
file and looking at its executable is one step, as are `lstat` and `open` of
an avatar. `disk` and `avatars` change under the walk; `ever`, `had` and
`lacked` are history, for properties that say what was there when it was read.
Sorting is `CHOOSE` of the n-th element of a strict order; that the order is
total is part of what `ListIsPresentation` and `UsersAreDetermined` check
and `SessionsAreSorted` and `UsersAreSorted` prove.
In `Startup` a behaviour has something to find among the accounts or among the
sessions, never both, since neither discovery reads what the other does; in
the same way `GreeterSetup` looks at either side of the script.

### Faults

`Faults` names what the environment may do wrong, each an outcome the code
handles: `pamError` (a PAM error message inside a conversation), `clone`
(`try_clone` fails), `splash` (no splash, or not ready in time), `ipc` (no
socket, refused, or broken at any read or write), `startLost` (StartSession
took effect but its reply is lost), `cancel` (CancelSession rejected or its
reply lost), `stop` (SIGTERM without a session), `stale` (greetd still holds
the slot of a greeter that died). A run, or a theorem, says which it allows.
`DrmFaults`: `socket` (setting it up, or listing the cards, fails), `kms` (any
call on the way to a shown buffer fails), `client` (a line that is not text, or a reset),
`kill`. `SplashFaults`: `missing` and `pipe` (nothing acquired), `spawn`,
`signal` (SIGTERM interrupts `poll` or `read`), `mute` (closes without a
word), `garbled` (writes anything, at any time), `dies`. `SetupFaults`: `write`
(the temporary file cannot be written); `RunsMayDie`. Directories that cannot
be read, passwd and configuration that cannot be read, and changes to files
while they are read are always possible.

## 3. Runs

| Run | Shows |
|---|---|
| `OneAttempt` | types, and that one attempt exists at a time: no `Begin` meets a conversation, each answer meets its prompt, the form only asks what the worker waits for, the kept password is never held for another account. Faults: splash, ipc, startLost, cancel, stop |
| `Handoff` | greetd is told once what to start; the splash covers the greeter from then on, also after its exit; the composition implements `LoginExchange`. Faults: splash, ipc, cancel |
| `Progress` | with `pamError` and `clone`, under which form and worker disagree about the attempt, the form still is never left refusing Enter with nothing on its way; every attempt is answered; a started session ends the greeter |
| `Form` | any events in any order: the theme in use is the selected account's |
| `Worker` | the worker with its splash, any commands in any order, every fault: which session starts, that no call of `start` leaves a process or descriptor behind, that a handle means a frame, that a splash without an owner covers a started session, that each call returns, that a slot left taken does not lock the user out |
| `Setup` | what the form loads was published during the load; a run that has ended has published every file as its account asks, except those changed behind it or not written, and left no temporary file; the last edition of the configuration survives every run, wherever it dies |
| `Discovery` | avatars of the first place that had one, the first valid entry of each session id, both lists complete and in order, while files come and go |
| `Surface` | the DRM process with every fault: what it draws on is its own, it implements `DisplayLease` (one free card at a time, the picture up until a client ends it, nothing of it left on a card on any path), a release behind slow or broken clients is served, the wait for a card ends |
| `Claim...` | one documented statement each, violated (section 6) |

**Bounds.** `NumUsers = 2` wherever accounts could be confused, else 1;
`NumSessions = 2` where a session could be. `MaxRounds` (messages in one
conversation) 2 lets a prompt follow a note and a second prompt follow an
answer; the code keeps no count, so a third adds no new situation. `MaxPassword = 1`
distinguishes an empty field from a filled one, all the code asks.
`MaxCommands = 2` lets two commands pile up, enough for the duplicate `Begin`;
the proofs show there is never more than one without the faults that cause it.
`MaxQueue` (MC modules) bounds what waits in either channel of an open
environment. `Keys` keeps one key per arm the run is about. In `Worker` `MaxQueue = 1` is
enough, because the worker holds one command at a time and the environment may
send the next at any moment; `MarkerLength = 3` has a first, a middle and a last
byte. In `Setup` two runs of the script overlap on two accounts, with a theme
and an accent to be published, replaced and withdrawn, and one user change,
enough for a run to publish what is no longer asked; no step tells one theme
from another. The accounts begin with the same files. Three runs and two editions of the configuration let a run
back up what a dead one left torn, and an edition follow a migration; two legacy lines
are all the code has. In `Discovery` three lines of passwd allow two of the
same name around a third (`MaxGecos = 2`), two directories an entry shadowed or
not, two ids a default and another, with one change meanwhile; avatars begin
the same for every account. `Surface` has two cards of which
only the second has an output, two waiting connections (a release behind
another client), and small numbers for pitch, size and word: a pitch below four
bytes, one that is no multiple of four, a buffer that fits exactly, an empty
one and one whose size is truncated; the spinner is wider than the frame, so
that the clip matters on every side. `CHECK_DEADLOCK`
is off in the runs of `Greeter` because the process really exits.

**Fairness.** `FairSpec` of `Greeter`: the worker thread is scheduled, and its
socket calls return (with an answer or an error) because greetd is a live
daemon; the UI loop turns, because its poll has a 100 ms timeout; logind
answers a power request; and greetd terminates a greeter it has replaced.
No fairness is assumed of the user: no key is owed, and so `AttemptIsAnswered`
ends at the prompt.
Within `FairSpec` a conversation cannot go on for ever because of `MaxRounds`;
what `AttemptIsAnswered` assumes of PAM is exactly that it decides eventually.

`FairSpec` of `DrmHandoff`: the process runs and its DRM calls return, time
passes, and a client that has been accepted says something or hangs up. The
last is an assumption about the clients, not about this code: `read_line` has no
timeout, so one silent client would hold up the release for ever.

`FairSpec` of `MCGreetdWorker`: the worker runs, the form reads its events, the
deadline passes, and (`Finishes`) a splash that has begun its marker goes on
writing, closes or dies. The last is again an assumption about the other side:
the 8 s deadline covers the first byte only, and a splash that stopped in the
middle of its marker would hold the worker in `read` for ever.

**With `startLost`** the worker sees a broken socket after greetd has started
the session: it kills the splash and tells the form the service is unavailable,
so the screen is uncovered until SIGTERM, and the user may begin again.
The worker cannot know better; `HandoffIsCovered`, `LaunchedOnce` and the refinement are
stated without this fault, everything else with it.

**Slots.** `RefusalsEnd` says of greetd's slot, left taken by an earlier greeter
or a failed splash: if logins go on being refused because of it, then either it
is freed again and again, or the socket goes on breaking or CancelSession on
being lost.

## 4. What is proved

All theorems hold for every value of the constants: any number of accounts,
sessions, cards, runs, directories, and every bound. They are theorems of the
specification each run checks, except that `ThemesFollow` is about the form in
`Greeter`, which the run `Form` checks in front of an open environment. Between them they state every invariant, every
action property and both refinements of the passing runs; only liveness is
left to TLC.

**The worker** (`GreetdWorkerProofs`). Every composition that has the worker
in it rests on the same lemmas: `WorkerKeepsTypes`, that a step of the worker
keeps its types and, with `Conversing`, the relation between `pc`, the request
in flight and greetd's slot; `WorkerKeepsSplash`; `LaunchesStay`.
`GreeterProofs` uses them behind the form, `SplashHandshakeProofs` behind an
environment that may send anything.

**The greeter** (`GreeterProofs`). `TypeCorrect`, with `FormTypeCorrect` and
`WorkerTypeCorrect` as its two parts, and `LaunchIsAuthenticated` hold under
every fault. `TypeOK` alone is not inductive: a `Begin` puts `selected_user`
and `theme_user` into a request, so their ranges have to be carried along, and
greetd's reply must be for the account of the conversation. `TypeInv` adds
both, and the relation between `pc`, the request in flight and greetd's slot
that makes "Success" possible only for the exchange's account.
`MoveIndexInRange` is the lemma behind the indices: one step around a list
stays in it.

`BeginsAreNeverDuplicated`, `AnswersFindTheirPrompt` and
`PasswordsStayWithTheirAccount` assume `OrderlyFaults`, that neither
`pamError` nor `clone` occurs; `ClaimOneAttempt` shows what happens with the
former. They follow from `AttemptInv`, which says where an attempt is: in
exactly one of a command on its way, the worker at work, an event on its way,
or the user's prompt; that the last event of the channel is the only one that
can hand the attempt back; that each of these places agrees with the worker's
state; and that the kept password is the account of that attempt. The proof
has one step per action. `HandsLast` and the `SendEventFacts` and
`HandleFacts` lemmas say what sending to, and taking from, an unbounded queue
does to it, so that no bound on the event channel is needed.

**The handoff** (`HandoffProofs`). Under every fault: `SplashAlwaysOwned` and
`ThemesFollow`. Under `OrderlyFaults`: `PromptsAreLive`, and
`AttemptsAreNeverLost`, for which `Somewhere` says in which place the attempt
of a form that refuses Enter is, with `SessionStarting` counted only while the
event that ends the attempt, or the worker, is behind it. Under `CalmFaults`, which also excludes `startLost`:
`HandoffAlwaysCovered` and `OneLaunch`, from `LaunchInv` (once something is
launched the splash is detached, the worker rests and no command is left), and
`GreeterImplementsLoginExchange`, the refinement of section 5. Its proof has
one step per action of the worker and the form; `StageFacts` says what the
mapping reads from `pc` and the command channel, and each action of the code
is one of the abstract steps or leaves the mapping alone.

**The splash** (`SplashHandshakeProofs`), under every fault, for the worker
and its splash in front of any user interface. `WorkerServesHandshake` (the
composition's specification implies the handshake's) and `StartIsOneStep` (its
steps are the worker's or leave the worker alone) are what lets the parts be
proved apart and the other modules take the call of `start` as one step.
`SplashTypeCorrect`, `NothingIsLeft` and `HandlesMeanFrames` follow from
`HandshakeInv`, which says for each stage of the call which ends of the pipe
are open, who has them and whether a child exists, and that a right byte in
the pipe means a drawn frame: a whole marker has at least one.
`StraysAlwaysCover`, `WorkerOwnsItsSplash` and `WorkerLaunchesAuthenticated`
follow from `CoverInv`, which adds to the worker's invariant that the handle
exists exactly while the worker's `splash` is "shown" and that a call is under
way only at `pc = "splash"`: that ties the `Drop` or `Detach` of the process
to the worker's step. From the two together, `SessionsStartBehindFrames`:
while StartSession is outstanding the first frame is on the screen.

**The DRM process** (`DrmHandoffProofs`), under every fault.
`SurfaceStaysBacked`, `CardsComeBack` and `BufferGoesFirst` follow from
`LadderInv`, which says for each step exactly which card, which part of the
buffer, and which of output and socket the process holds; the properties speak
of a few steps only and are not inductive without the steps between.
`DrmHandoffImplementsDisplayLease`, the refinement of section 5, has one step
per action; `LeaseFacts` says what the mapping reads from each `pc`, and
`ReturnedFacts` that the card at the cursor is all a dying process gives back.
`FramesStayInBuffer` rests on `ClippedPixel`: four times the index of a
clipped pixel is below pitch times height, hence below the truncated size.

**The setup script** (`SetupProofs`). `SetupMindsBoth`: a behaviour of
`GreeterSetup` is one of each side. `LoadsAreRegular` follows from
`ProjectionInv`: a file in place is the register's value, whole and owned, or
absent with the register at its default; the register's value is among those
seen by a load of that account; and a temporary file is complete before it is
renamed. `FinishedSyncsAreAccurate` follows from `AccurateInv`: of every file
a run has read and is not excused of, it either has the value in hand that the
account's file says now, or has left behind what it asks. The order of the walk,
account by account and theme before accent, has to be an invariant of its own
(`WalkIsInOrder`), and so has the content of the temporary file, since a value
is chosen several steps before it is published. `OthersStayAccurate` says what
another run, or the user, may do to a run that stands still;
`PublicationIsAccurate` that an excused run excuses those it overtakes.
`LastEditionSurvives` follows
from `ConfigInv`: the edition is in the backup of a run that is over, or in
place and not yet opened for writing, or in the backup of the run at hand and
in the draft it is about to put back. `Value` of `ThemeProjection` is assumed
to hold no name the model uses for "nothing there" or "not supported": themes
and accents are texts of their own.

**Discovery** (`DiscoveryProofs`). `StartupRunsDiscoveries`: a start is a
behaviour of each discovery. `DiscoveryIsFirstValid` follows from `WalkInv`: a
session found came, valid, from a directory on the way, and a directory the
walk has passed for an id without taking a session lacked one.
`AvatarsAreOfFirstPlace` follows from `AvatarInv`: every place before the one
at hand lacked an avatar at some moment of this lookup. `UsersAreSorted`,
`SessionsAreSorted` and the two type theorems need to know that the `CHOOSE`
of each position has something to choose. `PrecedesIsTotal` and
`BeforeIsTotal` show the two orders total (equal names fall back on line or
id); `FiniteOrders` shows for any finite total order that counting who comes
before is one-to-one, so that every position is somebody's
(`EveryRankIsTaken`, by counting injections instead of an induction), and that
the list by rank is complete and sorted (`ListByRankIsSorted`). The walks
around the sorting are small: `FilterInv` says that exactly the lines passed
that are login accounts have an entry, `ShownInv` that entries are read from a
directory that exists.

**Only model-checked.** Liveness under fairness, which the prover does not
reach: `AttemptIsAnswered`, `HandoffCompletes`, `ReleaseIsServed`,
`AcquireEnds`, `StartReturns`, `RefusalsEnd`.

## 5. Refinement

`LoginExchange` has six stages of a login (submitted, negotiating, asking,
authenticated, starting, started), a closing stage while greetd's slot is
cancelled, and the request. `Stage` and `Req` in `Greeter` read them from the
worker's `pc` and the head of the command channel. `ImplementsLoginExchange`
says that the request that reaches "started" is the one submitted, that
nothing is submitted while a login is under way, and that after "started"
nothing is. `Handoff` checks it on two accounts and two sessions, and
`GreeterImplementsLoginExchange` proves it for all.

`DisplayLease` has five stages (away, waiting for a card, settling on it,
showing, clearing it), who is master of each card, how much of the picture
exists, and whether a client has ended it. It may fail at any point of
settling and die at any moment. `Stage` and `Picture` in `DrmHandoff` read
them from `pc`, the output and the buffer's objects; the cards are the code's
own, and compositors may take and leave the others at any moment.
`ImplementsDisplayLease` says that the process takes a card only when nobody
has it and never a second one; that a picture, once up, stays up until a
client releases or breaks off (or the process is killed); and that a card is
given back only when nothing of the buffer is left. `Surface` checks it on two
cards, and `DrmHandoffImplementsDisplayLease` proves it for any number.

## 6. Where code and documentation part

- `ClaimOneAttempt`: a PAM error message inside a conversation reaches the form
  as `Event::Error` and ends the attempt there; the worker acknowledges it and
  goes on. The next Enter sends a `Begin` the worker ignores once it is
  prompted (`login.rs:160-166`).
- `ClaimLetters`: `j` and `k` cannot be typed into the password field: their
  arms come first and are not tied to a selector's focus.
- `ClaimSlot`: a splash that fails leaves greetd's slot taken, so the next login
  is refused (`RefusalsEnd` shows that this does not go on).
- `ClaimReversible`: a run of the setup script has one name for all its
  backups. When it migrates two lines, or one and then installs, the last copy,
  of a file that is already rewritten, replaces the first; the configuration as
  the administrator wrote it is gone. `EditionsSurvive` shows what is kept: the
  edition, with migrated launch paths.

Two more were read in the code and are not run, since they concern drawing and
a text field the model reduces to a length: the events for an unavailable
service (`login.rs:878-889`) keep the password text, which the field's comment
(`login.rs:152`) says is cleared after failure; and after a visible prompt the
next attempt's initial password is drawn in clear, since `prompt` is replaced
only by another prompt (`login.rs:849`, against `login.rs:158` and `234-237`).

`handle_key`'s comment says it never blocks; the power request does, in a D-Bus
call. `phase = "power"` models it, and `HandoffCompletes` shows that the greeter
still ends once logind answers.

The selectors also stay live during an attempt: the account on the screen when
a prompt is answered need not be the one whose conversation it is.
`LaunchesAuthenticatedAccount` and the refinement show that the session still
starts for the account and session of its `Begin`.

## 7. Not modelled

Drawing, the avatar cache, translations, themes' colours, logging and packaging
have no protocol: they are pure functions or one-shot I/O. The text of
configuration, desktop files and passwd lines is reduced to what the code
decides by it; character-level parsing is string work a model says nothing
about. `launch_env` is a pure function of the session. The launcher scripts
choose a compositor and `exec` it. Two runs of the setup script within one
second, which would share a backup, and the migration of the two Hyprland
files, which is the same function on other files, are left out, and so are
migrations that overlap and editions written during one (section 2). A desktop
file and its executable are looked at in one step.

Noted while reading, and left without a property because nothing in the
repository says otherwise: a failed `acquire_card` leaves the socket file
behind (`crates/handoff/src/main.rs:296`; the next start removes it); the first
card whose master can be set is kept even if it has no output (`:339`); a theme
that is no longer supported is neither published nor withdrawn
(`argvus-greeter-setup:118`); accounts and sessions are a snapshot of the start
(`main.rs:49-50`), so that one removed later is still offered and refused by PAM.

## 8. Left to do

1. The command socket of the DRM process as seen by a client (a release is
   served once, in order) as a part of `DisplayLease`.
2. The launcher scripts, if they come to hold state.
