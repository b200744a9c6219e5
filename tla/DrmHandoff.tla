----------------------------- MODULE DrmHandoff -----------------------------
(***************************************************************************)
(* The process that shows a spinner directly on DRM/KMS between two        *)
(* compositors (crates/handoff): it binds a socket, waits for a card whose *)
(* master is free, puts a dumb buffer on its output and draws until a      *)
(* client of the socket asks it to release the display.                    *)
(***************************************************************************)
EXTENDS Integers, Sequences

CONSTANTS
  NumCards,     \* /dev/dri/card*, in the order of their names
  Outputs,      \* the cards with an output that select_output can use
  Pitches,      \* the bytes in a row the kernel may choose for the buffer
  Sizes,        \* the bytes it may allocate
  Word,         \* number of values of a u32
  Radius, Dot,  \* of the spinner and of its spokes, in pixels
  MaxClients,   \* bound: connections waiting to be accepted
  DrmFaults     \* subset of AllDrmFaults

Card == 1..NumCards

\* "socket": the socket cannot be set up; "kms": a call to DRM fails on the way
\* to a shown buffer; "client": a client's line cannot be read; "kill": the
\* process is killed.
AllDrmFaults == {"socket", "kms", "client", "kill"}

ASSUME DrmConstants ==
  /\ NumCards \in Nat
  /\ Outputs \subseteq Card
  /\ Pitches \subseteq Nat \ {0} /\ Sizes \subseteq Nat
  /\ Word \in Nat \ {0}
  /\ Radius \in Nat /\ Dot \in Nat
  /\ MaxClients \in Nat
  /\ DrmFaults \subseteq AllDrmFaults

\* What a client does with its connection: ask for the release, publish a
\* theme, send anything else or hang up ("other"), send what is not text or
\* reset ("broken"), or nothing yet ("silent").
Line == {"release", "other", "broken", "silent"}

\* What CREATE_DUMB answers.
Buffers == [pitch : Pitches, size : Sizes]

NoBuffer == [pitch |-> 0, size |-> 0]

Steps == {"prepare", "acquire", "select", "create", "addfb", "mapdumb", "mmap",
          "setcrtc", "serve", "read", "sleep", "drop", "close", "unlink", "exited"}

VARIABLES
  pc,        \* the step of the process
  file,      \* there is a file at the socket's path
  listening, \* the process listens on it
  cursor,    \* the card acquire_card looks at
  late,      \* its 15 s have passed
  master,    \* who has set master on each card
  objects,   \* what the process holds of its buffer
  buffer,    \* the kernel's answer to CREATE_DUMB
  scanout,   \* the framebuffer is on the output
  backlog,   \* connections not yet accepted
  reading    \* what the accepted connection has sent

socketVars == <<file, listening>>
cardVars == <<cursor, late, master>>
bufferVars == <<objects, buffer, scanout>>
clientVars == <<backlog, reading>>
vars == <<pc, socketVars, cardVars, bufferVars, clientVars>>

Init ==
  /\ pc = "prepare"
  /\ file \in BOOLEAN /\ listening = FALSE
  /\ cursor = 1 /\ late = FALSE
  /\ master \in [Card -> {"none", "other"}]
  /\ objects = {} /\ buffer = NoBuffer /\ scanout = FALSE
  /\ backlog = <<>> /\ reading = "silent"

Goto(l) == pc' = l

\* A call to DRM may return an error.
Fails == "kms" \in DrmFaults

-----------------------------------------------------------------------------
(* prepare_socket and acquire_card *)

\* A file left by an earlier run is removed before bind; acquire_card then
\* lists the cards and sets its deadline.
PrepareSocket ==
  /\ pc = "prepare"
  /\ file' = TRUE /\ listening' = TRUE
  /\ cursor' = 1 /\ late' = FALSE
  /\ Goto("acquire")
  /\ UNCHANGED <<master, bufferVars, clientVars>>

\* create_dir_all, bind or set_permissions fails, or /dev/dri cannot be listed:
\* the file may be an old one, gone, or a new one.
PrepareFails ==
  /\ "socket" \in DrmFaults
  /\ pc = "prepare"
  /\ file' \in BOOLEAN
  /\ Goto("exited")
  /\ UNCHANGED <<listening, cardVars, bufferVars, clientVars>>

TakeMaster ==
  /\ pc = "acquire" /\ cursor \in Card
  /\ master[cursor] = "none"
  /\ master' = [master EXCEPT ![cursor] = "self"]
  /\ Goto("select")
  /\ UNCHANGED <<socketVars, cursor, late, bufferVars, clientVars>>

\* The card is busy, or cannot be opened; a file opened for it is closed again.
SkipCard ==
  /\ pc = "acquire" /\ cursor \in Card
  /\ master[cursor] # "none" \/ Fails
  /\ cursor' = cursor + 1
  /\ UNCHANGED <<pc, socketVars, late, master, bufferVars, clientVars>>

\* Mutant: the next pass starts at index 0.
EndPassFromZero ==
  /\ pc = "acquire" /\ cursor \notin Card
  /\ IF late
       THEN Goto("exited") /\ listening' = FALSE /\ UNCHANGED cursor
       ELSE cursor' = 0 /\ UNCHANGED <<pc, listening>>
  /\ UNCHANGED <<file, late, master, bufferVars, clientVars>>

\* Mutant: the deadline is never looked at.
EndPassForever ==
  /\ pc = "acquire" /\ cursor \notin Card
  /\ cursor' = 1
  /\ UNCHANGED <<pc, socketVars, late, master, bufferVars, clientVars>>

\* After a whole pass: give up if the time is over, else sleep and start over.
EndPass ==
  /\ pc = "acquire" /\ cursor \notin Card
  /\ IF late
       THEN Goto("exited") /\ listening' = FALSE /\ UNCHANGED cursor
       ELSE cursor' = 1 /\ UNCHANGED <<pc, listening>>
  /\ UNCHANGED <<file, late, master, bufferVars, clientVars>>

\* The deadline passes.
Tick ==
  /\ pc = "acquire" /\ ~late
  /\ late' = TRUE
  /\ UNCHANGED <<pc, socketVars, cursor, master, bufferVars, clientVars>>

-----------------------------------------------------------------------------
(* run_surface up to the first frame: each failure undoes the steps before *)

\* Mutant: main returns the error of run_surface at once.
SelectOutputReturns ==
  /\ pc = "select"
  /\ \/ cursor \in Outputs /\ Goto("create")
     \/ (cursor \notin Outputs \/ Fails) /\ Goto("unlink")
  /\ UNCHANGED <<socketVars, cardVars, bufferVars, clientVars>>

SelectOutput ==
  /\ pc = "select"
  /\ \/ cursor \in Outputs /\ Goto("create")
     \/ (cursor \notin Outputs \/ Fails) /\ Goto("close")
  /\ UNCHANGED <<socketVars, cardVars, bufferVars, clientVars>>

CreateDumb ==
  /\ pc = "create"
  /\ \/ /\ buffer' \in Buffers
        /\ objects' = {"handle"}
        /\ Goto("addfb")
     \/ Fails /\ Goto("close") /\ UNCHANGED <<objects, buffer>>
  /\ UNCHANGED <<socketVars, cardVars, scanout, clientVars>>

\* Mutant: the error path forgets destroy_dumb.
AddFramebufferLeaks ==
  /\ pc = "addfb"
  /\ \/ objects' = objects \cup {"framebuffer"} /\ Goto("mapdumb")
     \/ Fails /\ Goto("close") /\ UNCHANGED objects
  /\ UNCHANGED <<socketVars, cardVars, buffer, scanout, clientVars>>

AddFramebuffer ==
  /\ pc = "addfb"
  /\ \/ objects' = objects \cup {"framebuffer"} /\ Goto("mapdumb")
     \/ Fails /\ objects' = objects \ {"handle"} /\ Goto("close")
  /\ UNCHANGED <<socketVars, cardVars, buffer, scanout, clientVars>>

MapDumb ==
  /\ pc = "mapdumb"
  /\ \/ Goto("mmap") /\ UNCHANGED objects
     \/ Fails /\ objects' = objects \ {"framebuffer", "handle"} /\ Goto("close")
  /\ UNCHANGED <<socketVars, cardVars, buffer, scanout, clientVars>>

Mmap ==
  /\ pc = "mmap"
  /\ \/ objects' = objects \cup {"map"} /\ Goto("setcrtc")
     \/ Fails /\ objects' = objects \ {"framebuffer", "handle"} /\ Goto("close")
  /\ UNCHANGED <<socketVars, cardVars, buffer, scanout, clientVars>>

\* Mutant: the result of drmModeSetCrtc is not looked at.
SetCrtcUnchecked ==
  /\ pc = "setcrtc"
  /\ scanout' \in {TRUE, ~Fails}
  /\ Goto("serve")
  /\ UNCHANGED <<socketVars, cardVars, objects, buffer, clientVars>>

SetCrtc ==
  /\ pc = "setcrtc"
  /\ \/ scanout' = TRUE /\ Goto("serve")
     \/ Fails /\ Goto("drop") /\ UNCHANGED scanout
  /\ UNCHANGED <<socketVars, cardVars, objects, buffer, clientVars>>

-----------------------------------------------------------------------------
(* The loop of run_surface *)

\* Mutant: the newest connection is served first.
AcceptNewest ==
  /\ pc = "serve" /\ backlog # <<>>
  /\ reading' = backlog[Len(backlog)]
  /\ backlog' = SubSeq(backlog, 1, Len(backlog) - 1)
  /\ Goto("read")
  /\ UNCHANGED <<socketVars, cardVars, bufferVars>>

\* accept() does not block, but the connection it returns does.
Accept ==
  /\ pc = "serve" /\ backlog # <<>>
  /\ reading' = Head(backlog)
  /\ backlog' = Tail(backlog)
  /\ Goto("read")
  /\ UNCHANGED <<socketVars, cardVars, bufferVars>>

\* handle_command on a line that is not the release: a theme changes the
\* palette (left out: no step depends on it), anything else is ignored.
HandleOther ==
  /\ pc = "read" /\ reading = "other"
  /\ reading' = "silent"
  /\ Goto("serve")
  /\ UNCHANGED <<socketVars, cardVars, bufferVars, backlog>>

\* The release ends run_surface, and so does a line that cannot be read: the
\* error is passed on with `?`.
HandleRelease ==
  /\ pc = "read" /\ reading \in {"release", "broken"}
  /\ reading' = "silent"
  /\ Goto("drop")
  /\ UNCHANGED <<socketVars, cardVars, bufferVars, backlog>>

Draw ==
  /\ pc = "serve" /\ backlog = <<>>
  /\ Goto("sleep")
  /\ UNCHANGED <<socketVars, cardVars, bufferVars, clientVars>>

Wake ==
  /\ pc = "sleep"
  /\ Goto("serve")
  /\ UNCHANGED <<socketVars, cardVars, bufferVars, clientVars>>

-----------------------------------------------------------------------------
(* Drop for DumbBuffer, and the end of main *)

DropBuffer ==
  /\ pc = "drop"
  /\ objects' = objects \ {"map", "framebuffer", "handle"}
  /\ scanout' = FALSE
  /\ Goto("close")
  /\ UNCHANGED <<socketVars, cardVars, buffer, clientVars>>

DropMaster ==
  /\ pc = "close"
  /\ master' = [master EXCEPT ![cursor] = "none"]
  /\ Goto("unlink")
  /\ UNCHANGED <<socketVars, cursor, late, bufferVars, clientVars>>

Unlink ==
  /\ pc = "unlink"
  /\ file' = FALSE /\ listening' = FALSE
  /\ Goto("exited")
  /\ UNCHANGED <<cardVars, bufferVars, clientVars>>

-----------------------------------------------------------------------------
(* draw_frame: what a frame writes *)

Width(b) == b.pitch \div 4

\* The size is cut to a u32 first.
Height(b) == (b.size % Word) \div b.pitch

\* Mutant: the clip lets the column behind the last one pass.
DiscTooWide(b, x, y) ==
  {p \in (x - Dot .. x + Dot) \X (y - Dot .. y + Dot) :
     /\ p[1] >= 0 /\ p[2] >= 0
     /\ p[1] <= Width(b) /\ p[2] < Height(b)
     /\ (p[1] - x) * (p[1] - x) + (p[2] - y) * (p[2] - y) <= Dot * Dot}

\* The pixels draw_disc writes: the clipped disc around <<x, y>>.
Disc(b, x, y) ==
  {p \in (x - Dot .. x + Dot) \X (y - Dot .. y + Dot) :
     /\ p[1] >= 0 /\ p[2] >= 0
     /\ p[1] < Width(b) /\ p[2] < Height(b)
     /\ (p[1] - x) * (p[1] - x) + (p[2] - y) * (p[2] - y) <= Dot * Dot}

\* The spokes turn within Radius of the middle; where exactly is rounded
\* floating-point arithmetic.
Spinner(b) ==
  UNION {Disc(b, Width(b) \div 2 + dx, Height(b) \div 2 + dy) :
           dx \in -Radius..Radius, dy \in -Radius..Radius}

Index(b, p) == p[2] * Width(b) + p[1]

-----------------------------------------------------------------------------
(* The rest of the machine *)

Running == pc \notin {"prepare", "exited"}

\* A signal ends the process; the kernel closes what it had open.
Kill ==
  /\ "kill" \in DrmFaults /\ Running
  /\ Goto("exited")
  /\ listening' = FALSE
  /\ master' = [c \in Card |-> IF master[c] = "self" THEN "none" ELSE master[c]]
  /\ objects' = {} /\ scanout' = FALSE
  /\ reading' = "silent"
  /\ UNCHANGED <<file, cursor, late, buffer, backlog>>

\* The next login starts the process again.
Relaunch ==
  /\ pc = "exited"
  /\ backlog' = <<>>
  /\ Goto("prepare")
  /\ UNCHANGED <<socketVars, cardVars, bufferVars, reading>>

\* A compositor takes or leaves a card.
Compositor ==
  /\ \E c \in Card :
       \/ master[c] = "none" /\ master' = [master EXCEPT ![c] = "other"]
       \/ master[c] = "other" /\ master' = [master EXCEPT ![c] = "none"]
  /\ UNCHANGED <<pc, socketVars, cursor, late, bufferVars, clientVars>>

Sayable == IF "client" \in DrmFaults THEN Line ELSE Line \ {"broken"}

Connect ==
  /\ listening /\ Len(backlog) < MaxClients
  /\ \E l \in Sayable : backlog' = Append(backlog, l)
  /\ UNCHANGED <<pc, socketVars, cardVars, bufferVars, reading>>

\* The client read_line waits for says something, hangs up or resets.
Speak ==
  /\ pc = "read" /\ reading = "silent"
  /\ reading' \in Sayable \ {"silent"}
  /\ UNCHANGED <<pc, socketVars, cardVars, bufferVars, backlog>>

Acquire == TakeMaster \/ SkipCard \/ EndPass

Setup == SelectOutput \/ CreateDumb \/ AddFramebuffer \/ MapDumb \/ Mmap \/ SetCrtc

Loop == Accept \/ HandleOther \/ HandleRelease \/ Draw \/ Wake

CleanUp == DropBuffer \/ DropMaster \/ Unlink

Process == PrepareSocket \/ PrepareFails \/ Acquire \/ Setup \/ Loop \/ CleanUp

Next == Process \/ Tick \/ Kill \/ Relaunch \/ Compositor \/ Connect \/ Speak

Spec == Init /\ [][Next]_vars

\* The process is scheduled and its DRM calls return; time passes; a client
\* that has connected says something or hangs up.
FairSpec == Spec /\ WF_vars(Process) /\ WF_vars(Tick) /\ WF_vars(Speak)

-----------------------------------------------------------------------------
(* Properties *)

DrmTypeOK ==
  /\ pc \in Steps
  /\ file \in BOOLEAN /\ listening \in BOOLEAN
  /\ cursor \in 1..(NumCards + 1) /\ late \in BOOLEAN
  /\ master \in [Card -> {"none", "self", "other"}]
  /\ objects \subseteq {"handle", "framebuffer", "map"}
  /\ buffer \in Buffers \cup {NoBuffer} /\ scanout \in BOOLEAN
  /\ backlog \in Seq(Line) /\ reading \in Line

\* While the process draws and reads commands it owns what it draws on: it
\* is master of the card it chose and of no other, its buffer is complete and
\* on the output, and the socket's path leads to it.
\* (run_surface: nothing is drawn before every step of it has succeeded)
SurfaceIsBacked ==
  pc \in {"serve", "read", "sleep"} =>
    /\ scanout
    /\ objects = {"handle", "framebuffer", "map"}
    /\ {c \in Card : master[c] = "self"} = {cursor}
    /\ listening /\ file

\* The process ends by itself or by a signal, but it never ends as a master.
\* (main: every exit of run_surface reaches drmDropMaster)
CardsAreReturned ==
  pc \in {"prepare", "exited"} => \A c \in Card : master[c] # "self"

\* Every pixel a frame writes lies in the mapped buffer, and its index fits a
\* signed word, whatever pitch and size the kernel chose.
\* (draw_frame: the height is computed from a truncated size)
PixelsStayInBuffer ==
  "map" \in objects =>
    \A p \in Spinner(buffer) :
      /\ Index(buffer, p) \in 0..((buffer.size \div 4) - 1)
      /\ 2 * Index(buffer, p) < Word

\* A release that has been sent to a running surface ends it, whatever other
\* clients send before, as long as none of them stays silent for ever.
\* (run_surface: one connection is read at a time)
ReleaseIsServed ==
  (\E i \in 1..Len(backlog) : backlog[i] = "release" /\ pc \in {"serve", "read", "sleep"})
    ~> (pc = "exited")

\* The wait for a card ends, also when no card ever becomes free.
\* (acquire_card: the 15 s deadline)
AcquireEnds == (pc = "acquire") ~> (pc # "acquire")

-----------------------------------------------------------------------------
(* Refinement of DisplayLease *)

\* The stage of the lease is the part of main and run_surface that runs.
Stage ==
  CASE pc \in {"prepare", "unlink", "exited"} -> "away"
    [] pc = "acquire" -> "waiting"
    [] pc \in {"select", "create", "addfb", "mapdumb", "mmap", "setcrtc"} -> "settling"
    [] pc \in {"serve", "read", "sleep"} -> "showing"
    [] pc \in {"drop", "close"} -> "clearing"

Picture == IF scanout THEN "shown" ELSE IF objects # {} THEN "partial" ELSE "nothing"

Lease == INSTANCE DisplayLease
           WITH stage <- Stage, picture <- Picture,
                asked <- pc = "read" /\ reading \in {"release", "broken"}

\* Seen from the compositors, the process takes one free card at a time, keeps
\* its picture up until a client ends it, and gives the card back only when
\* nothing of its buffer is left on it, whichever step failed before.
\* (main drops master after run_surface; DumbBuffer::create and its Drop)
ImplementsDisplayLease == Lease!Spec
=============================================================================
