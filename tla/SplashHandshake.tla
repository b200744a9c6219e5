-------------------------- MODULE SplashHandshake --------------------------
(***************************************************************************)
(* WaylandSplash (crates/main/src/handoff.rs): the greetd worker starts    *)
(* the session splash as a child and waits on a pipe for its readiness     *)
(* marker, with a deadline; the handle it gets back kills the child when   *)
(* dropped, unless it was detached.  The splash itself is external.        *)
(*                                                                         *)
(* A byte of the marker is right or wrong; which letters it has plays no   *)
(* part.                                                                   *)
(***************************************************************************)
EXTENDS Integers, Sequences

CONSTANTS
  MarkerLength,  \* bytes of the readiness marker, six in the code
  SplashFaults   \* what may go wrong: "missing", "pipe", "spawn", "signal",
                 \* "mute", "garbled", "dies"

ASSUME MarkerAssumption == MarkerLength \in Nat \ {0}

VARIABLES
  start,     \* WaylandSplash::start: "idle" (not called), "poll", "read" or
             \* "held" (it returned a handle that still exists)
  child,     \* the process: "none" (or not ours any more), "running", "dead"
             \* (a zombie until waited for)
  drawn,     \* the splash: its first frame is on the screen
  wrote,     \* what the splash has written to the pipe: right and wrong bytes
  taken,     \* how many of these wait_for_ready has read
  readEnd,   \* the greeter's end of the pipe is open
  writers,   \* who has the other end open
  late,      \* READY_TIMEOUT has passed since the poll began
  leaked,    \* some call left an end of its pipe open for good
  stray      \* a splash runs that no handle owns

splashVars ==
  <<start, child, drawn, wrote, taken, readEnd, writers, late, leaked, stray>>

SplashTypeOK ==
  /\ start \in {"idle", "poll", "read", "held"}
  /\ child \in {"none", "running", "dead"}
  /\ drawn \in BOOLEAN
  /\ wrote \in Seq({"right", "wrong"}) /\ Len(wrote) <= MarkerLength
  /\ taken \in 0 .. Len(wrote)
  /\ readEnd \in BOOLEAN
  /\ writers \subseteq {"greeter", "splash"}
  /\ late \in BOOLEAN
  /\ leaked \in BOOLEAN
  /\ stray \in BOOLEAN

SplashInit ==
  /\ start = "idle"
  /\ child = "none"
  /\ drawn = FALSE
  /\ wrote = <<>>
  /\ taken = 0
  /\ readEnd = FALSE
  /\ writers = {}
  /\ late = FALSE
  /\ leaked = FALSE
  /\ stray = FALSE

-----------------------------------------------------------------------------
(* WaylandSplash::start                                                    *)

\* The greeter's end of the pipe is closed, and what was in it is gone.
ClosePipe == readEnd' = FALSE /\ wrote' = <<>> /\ taken' = 0 /\ late' = FALSE

\* The process, of which the variables say nothing from here on, is not a
\* child of a call or of a handle any more.
Disown == child' = "none" /\ drawn' = FALSE /\ writers' = writers \ {"splash"}

\* kill and wait: no process is left, not even a zombie.
Reap == Disown /\ UNCHANGED stray

\* SPLASH is not installed, or there is no pipe: nothing was acquired.
StartUnavailable ==
  /\ {"missing", "pipe"} \cap SplashFaults # {}
  /\ start = "idle"
  /\ UNCHANGED splashVars

\* The `?` of set_close_on_exec and of spawn: start returns with the pipe
\* open at both ends.
SpawnFails ==
  /\ "spawn" \in SplashFaults
  /\ start = "idle"
  /\ leaked' = TRUE
  /\ UNCHANGED <<start, child, drawn, wrote, taken, readEnd, writers, late, stray>>

\* The child inherits the writing end as READY_FD, the greeter closes its own.
Spawn ==
  /\ start = "idle"
  /\ start' = "poll"
  /\ child' = "running"
  /\ readEnd' = TRUE
  /\ writers' = {"splash"}
  /\ UNCHANGED <<drawn, wrote, taken, late, leaked, stray>>

\* Mutant: the error leaves the child to itself.
StartFailsUnreaped ==
  /\ start' = "idle"
  /\ ClosePipe
  /\ UNCHANGED <<child, drawn, writers, leaked, stray>>

\* wait_for_ready failed, having closed its end.
StartFails ==
  /\ start' = "idle"
  /\ ClosePipe
  /\ Reap
  /\ UNCHANGED leaked

Waiting == taken < Len(wrote)
Hangup == writers = {} /\ ~Waiting

\* The poll reports data, whatever the clock says.
PollReady ==
  /\ start = "poll"
  /\ Waiting
  /\ start' = "read"
  /\ UNCHANGED <<child, drawn, wrote, taken, readEnd, writers, late, leaked, stray>>

\* Mutant: poll without a timeout.
PollFailsOnHangup ==
  /\ start = "poll"
  /\ Hangup
  /\ StartFails

\* Hang-up without data, or the deadline.
PollFails ==
  /\ start = "poll"
  /\ Hangup \/ (late /\ ~Waiting)
  /\ StartFails

\* Mutant: any six bytes will do.
MarkerReadByLength(bytes) == Len(bytes) = MarkerLength

\* What has been read is the marker.
MarkerRead(bytes) ==
  /\ Len(bytes) = MarkerLength
  /\ \A i \in 1 .. MarkerLength : bytes[i] = "right"

\* Mutant: a byte is counted that has not arrived.
ReadByteEarly ==
  /\ start = "read"
  /\ taken + 1 < MarkerLength
  /\ taken' = taken + 1
  /\ UNCHANGED <<start, child, drawn, wrote, readEnd, writers, late, leaked, stray>>

\* One turn of the read loop that is not its last.
ReadByte ==
  /\ start = "read"
  /\ Waiting
  /\ taken + 1 < MarkerLength
  /\ taken' = taken + 1
  /\ UNCHANGED <<start, child, drawn, wrote, readEnd, writers, late, leaked, stray>>

\* The loop ends with the last byte or at the end of the file.
ReadEnds ==
  /\ start = "read"
  /\ Hangup \/ (Waiting /\ taken + 1 = MarkerLength)

\* start returns a handle; the File closes the reading end, and what the
\* splash does with its own is of no consequence any more.
StartReady ==
  /\ ReadEnds
  /\ MarkerRead(wrote)
  /\ start' = "held"
  /\ ClosePipe
  /\ writers' = writers \ {"splash"}
  /\ UNCHANGED <<child, drawn, leaked, stray>>

InvalidMarker == ReadEnds /\ ~MarkerRead(wrote) /\ StartFails

\* SIGTERM, whose handler restarts neither call.
Interrupted ==
  /\ "signal" \in SplashFaults
  /\ start \in {"poll", "read"}
  /\ StartFails

\* The ways start returns an error of its own accord.
StartError == StartUnavailable \/ SpawnFails \/ PollFails \/ InvalidMarker

-----------------------------------------------------------------------------
(* The handle                                                              *)

\* Mutant: the handle goes, the process stays.
DropForgets ==
  /\ start = "held"
  /\ start' = "idle"
  /\ Disown
  /\ stray' = TRUE
  /\ UNCHANGED <<wrote, taken, readEnd, late, leaked>>

\* Drop::drop: kill and wait.
Drop ==
  /\ start = "held"
  /\ start' = "idle"
  /\ Reap
  /\ UNCHANGED <<wrote, taken, readEnd, late, leaked>>

\* detach: the handle is forgotten, the process goes on without an owner.
Detach ==
  /\ start = "held"
  /\ start' = "idle"
  /\ Disown
  /\ stray' = TRUE
  /\ UNCHANGED <<wrote, taken, readEnd, late, leaked>>

-----------------------------------------------------------------------------
(* The splash and the clock                                                *)

Calling == start \in {"poll", "read"}

DrawFirstFrame ==
  /\ child = "running" /\ ~drawn
  /\ drawn' = TRUE
  /\ UNCHANGED <<start, child, wrote, taken, readEnd, writers, late, leaked, stray>>

\* The splash writes its marker once it has drawn, in as many pieces as it
\* likes; a garbled one says anything, at any time.
Write ==
  /\ Calling /\ child = "running" /\ "splash" \in writers
  /\ Len(wrote) < MarkerLength
  /\ \/ drawn /\ wrote' = Append(wrote, "right")
     \/ "garbled" \in SplashFaults /\ wrote' = Append(wrote, "wrong")
  /\ UNCHANGED <<start, child, drawn, taken, readEnd, writers, late, leaked, stray>>

\* It closes the descriptor, as a program that has reported does.
CloseReadyFd ==
  /\ Calling /\ child = "running" /\ "splash" \in writers
  /\ "mute" \in SplashFaults \/ Len(wrote) = MarkerLength
  /\ writers' = writers \ {"splash"}
  /\ UNCHANGED <<start, child, drawn, wrote, taken, readEnd, late, leaked, stray>>

Die ==
  /\ "dies" \in SplashFaults
  /\ child = "running"
  /\ child' = "dead"
  /\ writers' = writers \ {"splash"}
  /\ UNCHANGED <<start, drawn, wrote, taken, readEnd, late, leaked, stray>>

Elapse ==
  /\ start = "poll" /\ ~late
  /\ late' = TRUE
  /\ UNCHANGED <<start, child, drawn, wrote, taken, readEnd, writers, leaked, stray>>

Splash == DrawFirstFrame \/ Write \/ CloseReadyFd \/ Die

\* The steps of a call that has not returned, and what happens around it.
Call == Spawn \/ PollReady \/ ReadByte
Return == StartReady \/ StartError \/ Interrupted
Handle == Drop \/ Detach

SplashNext == Call \/ Return \/ Handle \/ Splash \/ Elapse

SplashSpec == SplashInit /\ [][SplashNext]_splashVars

-----------------------------------------------------------------------------

\* Whoever calls start gets its resources back.  When it has returned, no end
\* of its pipe stays open in the greeter, and a child exists only if a handle
\* owns it: a failure at any point of the handshake leaves no process, zombie
\* or descriptor behind.  (WaylandSplash::start, Drop; the exception is the
\* call whose spawn fails, which `leaked` records.)
StartLeavesNothing ==
  /\ start \in {"idle", "held"} => ~readEnd /\ "greeter" \notin writers
  /\ start = "idle" => child = "none" /\ writers = {}
  /\ leaked => "spawn" \in SplashFaults

\* The handle is proof of a first frame: the greeter goes on to StartSession
\* only behind a splash that covers the screen, whatever the child wrote, in
\* whatever pieces, before or after the deadline.  (handoff.rs "waits for its
\* first rendered frame"; the splash may still die afterwards.)
HandleMeansFrame == start = "held" => drawn /\ child # "none"
=============================================================================
