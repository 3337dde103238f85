------------------------------ MODULE Playback ------------------------------
(***************************************************************************)
(* The clock of the frames and the two readers of an animation's stack of  *)
(* poses: the joint buffer of the skinned mesh, at half the speed of the   *)
(* clock, and the drawing of the bones, whose number of frames and of      *)
(* bones is written into the code.                                         *)
(*                                                                         *)
(* Time is counted in units of which Second are a second.  Where the code  *)
(* computes in float the model computes exactly, but on a frame boundary   *)
(* the weight of the next frame may come out as 0 or as almost 1.  At 24   *)
(* frames a second, the rate of every import, the index itself is never    *)
(* rounded past the last frame.                                            *)
(***************************************************************************)
EXTENDS Integers

CONSTANTS
  Second,
  LowLimit,            \* FRAME_LOW_LIMIT
  Ticks,               \* what may pass between two frames
  Rate,                \* _framePerSec
  StackBones, StackFrames,  \* sizes an animation may have
  DrawnBones, DrawnFrames,  \* 88 and 55, the numbers in the drawing of the bones
  MaxElapsed           \* bound on the time followed

ASSUME ClockAssumption ==
  /\ Second \in Nat \ {0} /\ LowLimit \in Nat \ {0} /\ Rate \in Nat \ {0}
  /\ Ticks \subseteq Nat
  /\ MaxElapsed \in Nat

ASSUME StackAssumption ==
  /\ StackBones \subseteq Nat \ {0} /\ StackFrames \subseteq Nat \ {0}
  /\ DrawnBones \in Nat \ {0} /\ DrawnFrames \in Nat \ {0}

VARIABLES
  bones, frames,  \* of the animation: _animStack has bones * frames elements
  frameCount,     \* _frameCount
  delta,          \* _deltaTime
  elapsed,        \* _elapsedTime
  stopwatch,      \* _FPSCheckStopWatch
  since,          \* _frameCntDuringInFPSCheckterval
  fps,            \* _FPS
  mark,           \* history: the frame and the time when fps was last set
  pose,           \* the frames the joint buffer is blended from, and the weight
  drawnFrom,      \* the element of the stack the drawing of the bones starts from
  stopped         \* a __debugbreak stopped the program

stack == <<bones, frames>>
clock == <<frameCount, delta, elapsed, stopwatch, since, fps, mark>>
playbackVars == <<stack, clock, pose, drawnFrom, stopped>>

PlaybackInit ==
  /\ bones \in StackBones
  /\ frames \in StackFrames
  /\ frameCount = 0
  /\ delta = 0
  /\ elapsed = 0
  /\ stopwatch = 0
  /\ since = 0
  /\ fps = 0
  /\ mark = [frame |-> 0, elapsed |-> 0]
  /\ pose = [first |-> 0, second |-> 0, weight |-> 0]
  /\ drawnFrom = 0
  /\ stopped = FALSE

------------------------------------------------------------------------------

\* Mutant: the count goes on after it was published.
CountGoesOn == since + 1

CountAfterCheck == 0

\* SSFrameInfo::PerFrame, after the break if no time has passed.
Tick(t) ==
  LET d == IF t = 0 THEN LowLimit ELSE t
      check == stopwatch + d > Second
  IN  /\ delta' = d
      /\ elapsed' = elapsed + d
      /\ frameCount' = frameCount + 1
      /\ stopwatch' = IF check THEN 0 ELSE stopwatch + d
      /\ since' = IF check THEN CountAfterCheck ELSE since + 1
      /\ fps' = IF check THEN since + 1 ELSE fps
      /\ mark' = IF check THEN [frame |-> frameCount', elapsed |-> elapsed'] ELSE mark

\* The parts into which a frame of the animation is divided, at half the speed.
Parts == 2 * Second

\* Mutant: the cycle has a frame more than the stack.
CycleWithEnd == (frames + 1) * Parts

\* GetFrameTime
Cycle == frames * Parts

\* UpdateGPUBufferFrameState: the frame of the time in the cycle and the one after it,
\* which on the last frame is itself.
UpdatePose ==
  LET time == (elapsed' * Rate) % Cycle
      first == time \div Parts
      rest == time % Parts
  IN  \E weight \in {rest} \cup (IF rest = 0 THEN {Parts} ELSE {}) :
        pose' = [first |-> first,
                 second |-> IF first + 1 >= frames THEN first ELSE first + 1,
                 weight |-> weight]

\* The frame in PerFrame: the clock at full speed, by the number in the code.
DrawnFrame(e) == ((e * Rate) \div Second) % DrawnFrames

PlayFrame(t) ==
  /\ ~stopped
  /\ elapsed < MaxElapsed
  /\ Tick(t)
  /\ UpdatePose
  /\ drawnFrom' = DrawnBones * DrawnFrame(elapsed')
  /\ UNCHANGED <<stack, stopped>>

\* __debugbreak, without a debugger that goes on.
Break ==
  /\ ~stopped
  /\ 0 \in Ticks
  /\ stopped' = TRUE
  /\ UNCHANGED <<stack, clock, pose, drawnFrom>>

PlaybackNext == Break \/ \E t \in Ticks : PlayFrame(t)

PlaybackSpec == PlaybackInit /\ [][PlaybackNext]_playbackVars

------------------------------------------------------------------------------

\* What the drawing of the bones needs: room for the last frame it counts to.
StackHasRoom == DrawnBones * (DrawnFrames - 1) + bones <= bones * frames

\* At no time does the joint buffer read beyond the stack, and it blends each frame with
\* the next, not with the first at the end of the cycle.  The drawing of the bones reads
\* inside the stack if there is room for the numbers in the code, as there is for the
\* animation they were taken from.
ReadsInside ==
  /\ pose.first \in 0 .. frames - 1
  /\ pose.second \in {pose.first, pose.first + 1} /\ pose.second < frames
  /\ frameCount > 0 /\ pose.second = pose.first => pose.first = frames - 1
  /\ StackHasRoom => drawnFrom + bones <= bones * frames

\* The number shown as frames per second is the number of frames counted since it was
\* last set, each frame in one count only, and they took more than a second, by less
\* than the last of them.
FPSCountsFrames ==
  [][mark' # mark =>
       /\ fps' = frameCount' - mark.frame
       /\ elapsed' - mark.elapsed > Second
       /\ elapsed' - mark.elapsed <= Second + delta']_playbackVars

=============================================================================
