-------------------------- MODULE DrmHandoffProofs --------------------------
(***************************************************************************)
(* Proofs about the DRM handoff process, for any cards, any pitch and size *)
(* the kernel chooses, any word width, and every fault.                    *)
(***************************************************************************)
EXTENDS DrmHandoff, TLAPS

\* The steps between TakeMaster and DropMaster.
Owning == {"select", "create", "addfb", "mapdumb", "mmap", "setcrtc",
           "serve", "read", "sleep", "drop", "close"}

Serving == {"serve", "read", "sleep"}

\* How much of the buffer exists at each step.
Rung ==
  CASE pc = "addfb" -> {"handle"}
    [] pc \in {"mapdumb", "mmap"} -> {"handle", "framebuffer"}
    [] pc \in {"setcrtc", "drop"} \cup Serving -> {"handle", "framebuffer", "map"}
    [] OTHER -> {}

\* The step the process is at says exactly what it holds: one card, a rung of
\* the ladder, the output, the socket.
LadderInv ==
  /\ pc \in Owning => cursor \in Card
  /\ \A c \in Card : master[c] = "self" <=> (pc \in Owning /\ c = cursor)
  /\ objects = Rung
  /\ objects # {} => buffer \in Buffers
  /\ pc \in Serving => scanout
  /\ scanout => pc \in Serving \cup {"drop"}
  /\ listening <=> pc \notin {"prepare", "exited"}
  /\ listening => file

DrmInv == DrmTypeOK /\ LadderInv

-----------------------------------------------------------------------------
(* The arithmetic of draw_frame                                            *)

\* A pixel that passes the clip has an index in the mapped words, even though
\* the height is computed from a truncated size and the width is rounded down.
LEMMA ClippedPixel ==
  ASSUME NEW pitch \in Nat \ {0}, NEW size \in Nat, NEW word \in Nat \ {0},
         NEW x \in Int, NEW y \in Int,
         x >= 0, y >= 0, x < pitch \div 4, y < (size % word) \div pitch
  PROVE  /\ y * (pitch \div 4) + x \in 0..((size \div 4) - 1)
         /\ 2 * (y * (pitch \div 4) + x) < word
  <1> DEFINE w == pitch \div 4
             s == size % word
             h == s \div pitch
             i == y * w + x
  <1>1. w \in Nat /\ 4 * w <= pitch
    OBVIOUS
  <1>2. s \in Nat /\ s <= size /\ s < word
    OBVIOUS
  <1>3. h \in Nat /\ pitch * h <= s
    <2> HIDE DEF s
    <2> QED BY <1>2
  <1> HIDE DEF w, h, s
  <1>4. x < w /\ y < h
    BY DEF w, h, s
  <1>5. i >= 0 /\ i < (y + 1) * w
    BY <1>1, <1>4
  <1>6. (y + 1) * w <= h * w
    BY <1>1, <1>3, <1>4
  <1>7. 4 * (h * w) <= pitch * h
    BY <1>1, <1>3
  <1>8. i \in Int /\ 4 * i + 4 <= s
    BY <1>1, <1>3, <1>5, <1>6, <1>7, <1>2
  <1> HIDE DEF i
  <1>9. i \in 0..((size \div 4) - 1) /\ 2 * i < word
    BY <1>2, <1>5, <1>8
  <1> QED BY <1>9 DEF i, w

-----------------------------------------------------------------------------
(* The ladder                                                              *)

LEMMA DrmInit == Init => DrmInv
  <1> SUFFICES ASSUME Init
               PROVE  DrmInv
    OBVIOUS
  <1>1. DrmTypeOK
    <2>1. cursor \in 1..(NumCards + 1)
      BY DrmConstants DEF Init
    <2>2. backlog \in Seq(Line) /\ reading \in Line
      BY DEF Init, Line
    <2> QED BY <2>1, <2>2, DrmConstants DEF Init, DrmTypeOK, Steps
  <1>2. LadderInv
    BY DEF Init, LadderInv, Rung, Owning, Serving
  <1> QED BY <1>1, <1>2 DEF DrmInv

LEMMA DrmStep == DrmInv /\ [Next]_vars => DrmInv'
  <1> SUFFICES ASSUME DrmInv, [Next]_vars
               PROVE  DrmInv'
    OBVIOUS
  <1> USE DrmConstants
  <1> USE DEF DrmInv, DrmTypeOK, LadderInv, Rung, Owning, Serving, Steps, Goto,
              Card, socketVars, cardVars, bufferVars, clientVars
  <1>1. CASE PrepareSocket
    <2>1. 1 \in 1..(NumCards + 1)
      OBVIOUS
    <2> QED BY <1>1, <2>1 DEF PrepareSocket
  <1>2. CASE TakeMaster
    BY <1>2 DEF TakeMaster
  <1>3. CASE SkipCard
    BY <1>3 DEF SkipCard
  <1>4. CASE EndPass
    <2>1. 1 \in 1..(NumCards + 1)
      OBVIOUS
    <2>2. CASE late
      BY <1>4, <2>2 DEF EndPass
    <2>3. CASE ~late
      BY <1>4, <2>1, <2>3 DEF EndPass
    <2> QED BY <2>2, <2>3
  <1>5. CASE SelectOutput
    BY <1>5 DEF SelectOutput
  <1>6. CASE CreateDumb
    BY <1>6 DEF CreateDumb
  <1>7. CASE AddFramebuffer
    BY <1>7 DEF AddFramebuffer
  <1>8. CASE MapDumb
    BY <1>8 DEF MapDumb
  <1>9. CASE Mmap
    BY <1>9 DEF Mmap
  <1>10. CASE SetCrtc
    BY <1>10 DEF SetCrtc
  <1>11. CASE Accept
    BY <1>11 DEF Accept
  <1>12. CASE HandleOther
    BY <1>12 DEF HandleOther, Line
  <1>13. CASE HandleRelease
    BY <1>13 DEF HandleRelease, Line
  <1>14. CASE Draw
    BY <1>14 DEF Draw
  <1>15. CASE Wake
    BY <1>15 DEF Wake
  <1>16. CASE DropBuffer
    BY <1>16 DEF DropBuffer
  <1>17. CASE DropMaster
    BY <1>17 DEF DropMaster
  <1>18. CASE Unlink
    BY <1>18 DEF Unlink
  <1>19. CASE Tick
    BY <1>19 DEF Tick
  <1>20. CASE Kill
    BY <1>20 DEF Kill, Running, Line
  <1>21. CASE Relaunch
    BY <1>21 DEF Relaunch
  <1>22. CASE Compositor
    BY <1>22 DEF Compositor
  <1>23. CASE Connect
    <2>1. backlog' \in Seq(Line)
      <3>1. Sayable \subseteq Line
        BY DEF Sayable, Line
      <3>2. PICK l \in Sayable : backlog' = Append(backlog, l)
        BY <1>23 DEF Connect
      <3> QED BY <3>1, <3>2
    <2> QED BY <1>23, <2>1 DEF Connect
  <1>24. CASE Speak
    BY <1>24 DEF Speak, Sayable, Line
  <1>25. CASE PrepareFails
    BY <1>25 DEF PrepareFails
  <1>26. CASE UNCHANGED vars
    BY <1>26 DEF vars
  <1> QED
    BY <1>1, <1>2, <1>3, <1>4, <1>5, <1>6, <1>7, <1>8, <1>9, <1>10, <1>11,
       <1>12, <1>13, <1>14, <1>15, <1>16, <1>17, <1>18, <1>19, <1>20, <1>21,
       <1>22, <1>23, <1>24, <1>25, <1>26
       DEF Next, Process, Acquire, Setup, Loop, CleanUp

LEMMA DrmInvHolds == Spec => []DrmInv
  BY DrmInit, DrmStep, PTL DEF Spec

\* The process goes through its steps in their order, on cards and outputs that
\* exist.
THEOREM DrmTypeCorrect == Spec => []DrmTypeOK
  <1>1. DrmInv => DrmTypeOK
    BY DEF DrmInv
  <1> QED BY <1>1, DrmInvHolds, PTL

\* The process draws and takes commands only on a card it owns, with a complete
\* buffer on the output, and with its socket in place.
THEOREM SurfaceStaysBacked == Spec => []SurfaceIsBacked
  <1>1. DrmInv => SurfaceIsBacked
    BY DEF DrmInv, DrmTypeOK, LadderInv, Rung, Owning, Serving, SurfaceIsBacked
  <1> QED BY <1>1, DrmInvHolds, PTL

\* The process never ends, nor starts, as the master of a card.
THEOREM CardsComeBack == Spec => []CardsAreReturned
  <1>1. DrmInv => CardsAreReturned
    BY DEF DrmInv, LadderInv, Owning, CardsAreReturned
  <1> QED BY <1>1, DrmInvHolds, PTL

\* Whatever pitch and size the kernel chooses, a frame stays in the buffer and
\* its arithmetic in a signed word.
THEOREM FramesStayInBuffer == Spec => []PixelsStayInBuffer
  <1>1. DrmInv => PixelsStayInBuffer
    <2> SUFFICES ASSUME DrmInv, "map" \in objects, NEW p \in Spinner(buffer)
                 PROVE  /\ Index(buffer, p) \in 0..((buffer.size \div 4) - 1)
                        /\ 2 * Index(buffer, p) < Word
      BY DEF PixelsStayInBuffer
    <2>1. /\ buffer.pitch \in Nat \ {0} /\ buffer.size \in Nat
          /\ Word \in Nat \ {0} /\ Radius \in Nat /\ Dot \in Nat
      BY DrmConstants DEF DrmInv, LadderInv, Buffers
    <2>2. PICK dx \in -Radius..Radius, dy \in -Radius..Radius :
            p \in Disc(buffer, Width(buffer) \div 2 + dx, Height(buffer) \div 2 + dy)
      BY DEF Spinner
    <2>3. Width(buffer) \in Int /\ Height(buffer) \in Int
      BY <2>1 DEF Width, Height
    <2>4. /\ p[1] \in Int /\ p[2] \in Int /\ p[1] >= 0 /\ p[2] >= 0
          /\ p[1] < Width(buffer) /\ p[2] < Height(buffer)
      BY <2>1, <2>2, <2>3 DEF Disc
    <2> QED BY <2>1, <2>4, ClippedPixel DEF Index, Width, Height
  <1> QED BY <1>1, DrmInvHolds, PTL

\* A card is given up only after everything that was put on it, whichever step
\* failed.  (main drops master after run_surface)
THEOREM BufferGoesFirst ==
  Spec => [][(\E c \in Card : master[c] = "self" /\ master'[c] # "self")
             => objects' = {} /\ ~scanout']_vars
  <1>1. DrmInv /\ [Next]_vars =>
          [(\E c \in Card : master[c] = "self" /\ master'[c] # "self")
             => objects' = {} /\ ~scanout']_vars
    <2> SUFFICES ASSUME DrmInv, Next,
                        NEW c \in Card, master[c] = "self", master'[c] # "self"
                 PROVE  objects' = {} /\ ~scanout'
      OBVIOUS
    <2>1. CASE DropMaster
      BY <2>1 DEF DropMaster, DrmInv, LadderInv, Rung, Serving, bufferVars
    <2>2. CASE Kill
      BY <2>2 DEF Kill
    <2>3. CASE TakeMaster
      BY <2>3 DEF TakeMaster, DrmInv, DrmTypeOK
    <2>4. CASE Compositor
      BY <2>4 DEF Compositor, DrmInv, DrmTypeOK
    <2>5. DropMaster \/ Kill \/ TakeMaster \/ Compositor \/ UNCHANGED master
      BY DEF Next, Process, Acquire, Setup, Loop, CleanUp, PrepareSocket,
         PrepareFails, SkipCard, EndPass, SelectOutput, CreateDumb, AddFramebuffer, MapDumb,
         Mmap, SetCrtc, Accept, HandleOther, HandleRelease, Draw, Wake,
         DropBuffer, Unlink, Tick, Relaunch, Connect, Speak, cardVars
    <2> QED BY <2>1, <2>2, <2>3, <2>4, <2>5
  <1> QED BY <1>1, DrmInvHolds, PTL DEF Spec
-----------------------------------------------------------------------------
(* The refinement of DisplayLease                                          *)

\* A client has ended the surface.
Asked == pc = "read" /\ reading \in {"release", "broken"}

\* What the mapping reads off the step the process is at.
LeaseView ==
  /\ pc \in {"prepare", "unlink", "exited"} =>
       Stage = "away" /\ Picture = "nothing"
  /\ pc = "acquire" => Stage = "waiting" /\ Picture = "nothing"
  /\ pc \in {"select", "create"} => Stage = "settling" /\ Picture = "nothing"
  /\ pc \in {"addfb", "mapdumb", "mmap", "setcrtc"} =>
       Stage = "settling" /\ Picture = "partial"
  /\ pc \in Serving => Stage = "showing" /\ Picture = "shown"
  /\ pc = "drop" => Stage = "clearing"
  /\ pc = "close" => Stage = "clearing" /\ Picture = "nothing"

LEMMA LeaseFacts == DrmInv => LeaseView
  BY DEF DrmInv, DrmTypeOK, LadderInv, Rung, Serving, Steps, LeaseView, Stage,
     Picture

\* The one card the process has is the one at the cursor.
LEMMA ReturnedFacts ==
  ASSUME DrmInv
  PROVE  /\ pc \in Owning => Lease!Returned = [master EXCEPT ![cursor] = "none"]
         /\ pc \notin Owning => Lease!Returned = master
  BY DEF DrmInv, DrmTypeOK, LadderInv, Lease!Returned

LEMMA LeaseStep ==
  ASSUME DrmInv, DrmInv', [Next]_vars
  PROVE  [Lease!Next]_(Lease!lease)
  <1>1. LeaseView /\ LeaseView'
    <2>1. LeaseView
      BY LeaseFacts
    <2>2. LeaseView'
      BY DEF DrmInv, DrmTypeOK, LadderInv, Rung, Serving, Steps, LeaseView,
         Stage, Picture
    <2> QED BY <2>1, <2>2
  <1>2. UNCHANGED <<objects, scanout>> => Picture' = Picture
    BY DEF Picture
  <1> USE DEF Serving, LeaseView, Goto, socketVars, cardVars, bufferVars,
              clientVars
  \* Steps the compositors do not see.
  <1>3. ASSUME UNCHANGED <<pc, master, objects, scanout>>,
               pc = "read" => UNCHANGED reading
        PROVE  UNCHANGED Lease!lease
    BY <1>3 DEF Lease!lease, Stage, Picture
  <1>4. CASE PrepareFails \/ Unlink \/ Relaunch
    BY <1>1, <1>4 DEF PrepareFails, Unlink, Relaunch, Lease!lease
  <1>5. CASE SkipCard \/ Tick \/ Connect \/ UNCHANGED vars
    BY <1>3, <1>5 DEF SkipCard, Tick, Connect, vars
  <1>6. CASE \/ AddFramebuffer /\ pc' = "mapdumb"
             \/ MapDumb /\ pc' = "mmap"
             \/ Mmap /\ pc' = "setcrtc"
    BY <1>1, <1>6 DEF MapDumb, Mmap, AddFramebuffer, Lease!lease
  <1>7. CASE \/ SelectOutput /\ pc' = "create"
             \/ HandleOther \/ Draw \/ Wake
    BY <1>1, <1>7 DEF SelectOutput, HandleOther, Draw, Wake, Lease!lease
  \* Steps of the lease.
  <1>8. CASE PrepareSocket
    BY <1>1, <1>8 DEF PrepareSocket, Lease!Launch, Lease!Next
  <1>9. CASE EndPass
    <2>1. CASE late
      BY <1>1, <1>9, <2>1 DEF EndPass, Lease!Resign, Lease!Next
    <2>2. CASE ~late
      BY <1>3, <1>9, <2>2 DEF EndPass
    <2> QED BY <2>1, <2>2
  <1>10. CASE TakeMaster
    BY <1>1, <1>10 DEF TakeMaster, Lease!Take, Lease!Next
  <1>11. CASE CreateDumb /\ pc' = "addfb"
    BY <1>1, <1>11 DEF CreateDumb, Lease!Build, Lease!Next
  <1>12. CASE \/ (SelectOutput \/ CreateDumb \/ AddFramebuffer \/ MapDumb \/ Mmap)
                  /\ pc' = "close"
              \/ SetCrtc /\ pc' = "drop"
    <2>1. Stage = "settling" /\ Stage' = "clearing" /\ UNCHANGED master
      BY <1>1, <1>12 DEF SelectOutput, CreateDumb, AddFramebuffer, MapDumb, Mmap,
         SetCrtc
    <2>2. Picture' \in {Picture, "nothing"}
      BY <1>1, <1>2, <1>12 DEF SetCrtc
    <2>3. ~Asked /\ ~Asked'
      BY <1>12 DEF SelectOutput, CreateDumb, AddFramebuffer, MapDumb, Mmap,
         SetCrtc, Asked
    <2> QED BY <2>1, <2>2, <2>3 DEF Asked, Lease!Fail, Lease!Next
  <1>13. CASE SetCrtc /\ pc' = "serve"
    BY <1>1, <1>13 DEF SetCrtc, Lease!Show, Lease!Next
  <1>14. CASE Accept \/ Speak
    <2>1. /\ Stage = "showing" /\ Stage' = "showing" /\ ~Asked
          /\ Picture' = Picture /\ UNCHANGED master
      BY <1>1, <1>14 DEF Accept, Speak, Asked
    <2>2. CASE Asked'
      BY <2>1, <2>2 DEF Asked, Lease!Ask, Lease!Next
    <2>3. CASE ~Asked'
      BY <2>1, <2>3 DEF Asked, Lease!lease
    <2> QED BY <2>2, <2>3
  <1>15. CASE HandleRelease
    BY <1>1, <1>2, <1>15 DEF HandleRelease, Lease!Stop, Lease!Next
  <1>16. CASE DropBuffer
    BY <1>1, <1>16 DEF DropBuffer, Lease!Clear, Lease!Next
  <1>17. CASE DropMaster
    <2>1. master' = Lease!Returned
      BY <1>17, ReturnedFacts DEF DropMaster, Owning
    <2> QED BY <1>1, <1>17, <2>1 DEF DropMaster, Lease!Give, Lease!Next
  <1>18. CASE Kill
    BY <1>1, <1>18 DEF Kill, Lease!Returned, Lease!Die, Lease!Next
  <1>19. CASE Compositor
    <2>1. UNCHANGED <<Stage, Picture, Asked>>
      BY <1>19 DEF Compositor, Stage, Picture, Asked
    <2> QED BY <1>19, <2>1 DEF Compositor, Asked, Lease!Others, Lease!Next
  <1> HIDE DEF LeaseView
  <1>20. CASE Setup
    <2>1. pc' = "close" => [Lease!Next]_(Lease!lease)
      BY <1>12, <1>20 DEF Setup, SetCrtc
    <2>2. CASE SelectOutput
      BY <1>7, <2>1, <2>2 DEF SelectOutput
    <2>3. CASE CreateDumb
      BY <1>11, <2>1, <2>3 DEF CreateDumb
    <2>4. CASE AddFramebuffer
      BY <1>6, <2>1, <2>4 DEF AddFramebuffer
    <2>5. CASE MapDumb
      BY <1>6, <2>1, <2>5 DEF MapDumb
    <2>6. CASE Mmap
      BY <1>6, <2>1, <2>6 DEF Mmap
    <2>7. CASE SetCrtc
      BY <1>12, <1>13, <2>7 DEF SetCrtc
    <2> QED BY <1>20, <2>2, <2>3, <2>4, <2>5, <2>6, <2>7 DEF Setup
  <1> QED
    BY <1>4, <1>5, <1>7, <1>8, <1>9, <1>10, <1>14, <1>15, <1>16, <1>17, <1>18,
       <1>19, <1>20
    DEF Next, Process, Acquire, Loop, CleanUp

\* For any cards and under every fault, the process keeps its lease on the
\* display: it takes one free card, shows until a client ends it, and gives the
\* card back with nothing on it.
THEOREM DrmHandoffImplementsDisplayLease == Spec => ImplementsDisplayLease
  <1>1. Init => Lease!Init
    BY DEF Init, Lease!Init, Stage, Picture
  <1>2. DrmInv /\ DrmInv' /\ [Next]_vars => [Lease!Next]_(Lease!lease)
    BY LeaseStep
  <1> QED
    BY <1>1, <1>2, DrmInvHolds, PTL DEF Spec, ImplementsDisplayLease, Lease!Spec
=============================================================================
