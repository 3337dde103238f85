----------------------------- MODULE InputLoop -----------------------------
(***************************************************************************)
(* The message loop of wWinMain with WndProc and SSInput: one message is   *)
(* taken from the thread's queue and dispatched, or, when there is none, a *)
(* frame is drawn from the key state the messages have left.               *)
(*                                                                         *)
(* Keys stands for the keys of the keyboard and the buttons of the mouse,  *)
(* Codes for EKeyCode and EMouseCode: SSInput keeps a pair of arrays for   *)
(* each of the two and treats them alike.  Keys without a code of their    *)
(* own share Unknown.                                                      *)
(*                                                                         *)
(* Windows is the environment: it posts a press, its repetitions and a     *)
(* release to the window that has the focus, and tells the window that the *)
(* focus or the pointer left it, in the order in which these happen.       *)
(* While Alt is held, or the menu it opens is up, the keys of the keyboard *)
(* give WM_SYSKEYDOWN and WM_SYSKEYUP, or messages the menu's own loop     *)
(* takes: SysKey, which WndProc leaves to DefWindowProc.                   *)
(***************************************************************************)
EXTENDS Naturals, Sequences

CONSTANTS
  Keys, Codes,
  Code,       \* [Keys -> Codes]: WindowsVKCodeToSSKeyCode
  Keyboard,   \* the keys among them, which repeat while held; the rest are buttons
  Alt,
  MaxQueue    \* bound on the queue

ASSUME KeysAssumption ==
  /\ Code \in [Keys -> Codes]
  /\ Keyboard \subseteq Keys /\ Alt \in Keyboard
  /\ MaxQueue \in Nat \ {0}

VARIABLES
  held,      \* keys that are down
  focus,     \* the window has the keyboard focus
  menu,      \* the menu that Alt opens is up
  unreported,  \* history: codes let go of with the focus and no KeyUp, nor cleared since
  queue,     \* messages posted to the thread
  quitting,  \* PostQuitMessage was called
  pc,        \* "Peek", "EndOfFrame" or "Done"
  keyState, prevKeyState,  \* _keyState and _prevFrameKeyState, as sets of codes
  shown      \* codes that were down in the last frame

environment == <<held, focus, menu, unreported>>
vars == <<environment, queue, quitting, pc, keyState, prevKeyState, shown>>

Messages == ({"KeyDown", "KeyUp"} \X Keys)
              \cup {<<"SysKey">>, <<"KillFocus">>, <<"MouseLeave">>, <<"Close">>}

-----------------------------------------------------------------------------
Init ==
  /\ held \in SUBSET Keys
  /\ focus \in BOOLEAN
  /\ menu = FALSE
  /\ unreported = {}
  /\ queue = <<>>
  /\ quitting = FALSE
  /\ pc = "Peek"
  /\ keyState = {}
  /\ prevKeyState = {}
  /\ shown = {}

\* A window that was destroyed receives nothing.
Post(m) ==
  /\ ~quitting
  /\ Len(queue) < MaxQueue
  /\ queue' = Append(queue, m)
  /\ UNCHANGED <<quitting, pc, keyState, prevKeyState, shown>>

PostIfFocused(m) ==
  \/ focus /\ Post(m)
  \/ ~focus /\ UNCHANGED <<queue, quitting, pc, keyState, prevKeyState, shown>>

\* A key that Windows does not report by WM_KEYDOWN and WM_KEYUP, as a rule: with Ctrl
\* held too, or for Alt let go of after another key, it does.
HiddenByAlt(k) == k \in Keyboard /\ (k = Alt \/ Alt \in held \/ menu)

Press(k) ==
  /\ k \notin held
  /\ held' = held \cup {k}
  /\ unreported' = unreported \ {Code[k]}
  /\ \/ PostIfFocused(<<"KeyDown", k>>)
     \/ HiddenByAlt(k) /\ PostIfFocused(<<"SysKey">>)
  /\ UNCHANGED <<focus, menu>>

Repeat(k) ==
  /\ k \in held /\ focus
  /\ \/ Post(<<"KeyDown", k>>)
     \/ HiddenByAlt(k) /\ Post(<<"SysKey">>)
  /\ UNCHANGED environment

Release(k) ==
  /\ k \in held
  /\ held' = held \ {k}
  /\ \/ /\ PostIfFocused(<<"KeyUp", k>>)
        /\ unreported' = unreported \ {Code[k]}
     \/ /\ HiddenByAlt(k)
        /\ PostIfFocused(<<"SysKey">>)
        /\ unreported' = IF focus THEN unreported \cup {Code[k]} ELSE unreported
  /\ menu' \in {menu, focus /\ k = Alt}
  /\ UNCHANGED focus

LeaveMenu ==
  /\ menu
  /\ menu' = FALSE
  /\ UNCHANGED <<held, focus, unreported, queue, quitting, pc, keyState, prevKeyState, shown>>

LoseFocus ==
  /\ focus
  /\ focus' = FALSE
  /\ menu' = FALSE
  /\ unreported' = {}
  /\ Post(<<"KillFocus">>)
  /\ UNCHANGED held

GainFocus ==
  /\ ~focus /\ ~quitting
  /\ focus' = TRUE
  /\ UNCHANGED <<held, menu, unreported, queue, quitting, pc, keyState, prevKeyState, shown>>

PointerLeaves ==
  /\ unreported' = {}
  /\ Post(<<"MouseLeave">>)
  /\ UNCHANGED <<held, focus, menu>>

CloseWindow ==
  /\ unreported' = {}
  /\ Post(<<"Close">>)
  /\ UNCHANGED <<held, focus, menu>>

-----------------------------------------------------------------------------
\* Mutant: the key itself is recorded, not its code.
ProcessUnmapped(name, k) ==
  /\ keyState' = IF name = "KeyDown" THEN keyState \cup {k} ELSE keyState \ {k}
  /\ UNCHANGED prevKeyState

\* Mutant: releases are not recorded.
ProcessPressesOnly(name, k) ==
  /\ keyState' = IF name = "KeyDown" THEN keyState \cup {Code[k]} ELSE keyState
  /\ UNCHANGED prevKeyState

ProcessInputEvent(name, k) ==
  /\ keyState' = IF name = "KeyDown" THEN keyState \cup {Code[k]} ELSE keyState \ {Code[k]}
  /\ UNCHANGED prevKeyState

\* Mutant: the state of the last frame is cleared as well.
ClearBothInputStates ==
  /\ keyState' = {}
  /\ prevKeyState' = {}

\* Mutant: the keys are kept when the focus goes.
KeepInputState == UNCHANGED <<keyState, prevKeyState>>

ClearCurInputState ==
  /\ keyState' = {}
  /\ UNCHANGED prevKeyState

\* PeekMessage with PM_REMOVE, and WndProc.  DestroyWindow leads to WM_DESTROY and
\* PostQuitMessage, and takes the window's messages away.  WM_SYSKEYDOWN and WM_SYSKEYUP
\* are left to DefWindowProc.
DispatchMessage ==
  /\ pc = "Peek" /\ queue # <<>>
  /\ LET name == Head(queue)[1]
     IN  /\ \/ name \in {"KeyDown", "KeyUp"} /\ ProcessInputEvent(name, Head(queue)[2])
            \/ name \in {"KillFocus", "MouseLeave"} /\ ClearCurInputState
            \/ name \in {"SysKey", "Close"} /\ UNCHANGED <<keyState, prevKeyState>>
         /\ quitting' = (name = "Close")
         /\ queue' = IF name = "Close" THEN <<>> ELSE Tail(queue)
  /\ UNCHANGED <<environment, pc, shown>>

\* WM_QUIT comes last, when nothing else is queued.
LeaveLoop ==
  /\ pc = "Peek" /\ queue = <<>> /\ quitting
  /\ pc' = "Done"
  /\ UNCHANGED <<environment, queue, quitting, keyState, prevKeyState, shown>>

GetKeyDown(c) == c \notin prevKeyState /\ c \in keyState
GetKeyUp(c) == c \in prevKeyState /\ c \notin keyState

PerFrame ==
  /\ pc = "Peek" /\ queue = <<>> /\ ~quitting
  /\ shown' = keyState
  /\ pc' = "EndOfFrame"
  /\ UNCHANGED <<environment, queue, quitting, keyState, prevKeyState>>

ProcessInputEndOfFrame ==
  /\ pc = "EndOfFrame"
  /\ prevKeyState' = keyState
  /\ pc' = "Peek"
  /\ UNCHANGED <<environment, queue, quitting, keyState, shown>>

Loop == DispatchMessage \/ LeaveLoop \/ PerFrame \/ ProcessInputEndOfFrame

Environment ==
  \/ \E k \in Keys : Press(k) \/ Release(k)
  \/ \E k \in Keyboard : Repeat(k)
  \/ LeaveMenu
  \/ LoseFocus
  \/ GainFocus
  \/ PointerLeaves
  \/ CloseWindow

Next == Loop \/ Environment

\* The thread of the loop never blocks: PeekMessage returns at once.
Spec == Init /\ [][Next]_vars /\ WF_vars(Loop)

-----------------------------------------------------------------------------
TypeOK ==
  /\ held \subseteq Keys
  /\ focus \in BOOLEAN
  /\ menu \in BOOLEAN
  /\ unreported \subseteq Codes
  /\ queue \in Seq(Messages) /\ Len(queue) <= MaxQueue
  /\ quitting \in BOOLEAN
  /\ pc \in {"Peek", "EndOfFrame", "Done"}
  /\ keyState \subseteq Codes
  /\ prevKeyState \subseteq Codes
  /\ shown \subseteq Codes

HeldCodes == {Code[k] : k \in held}

\* A message that will take c out of _keyState is on its way.
ReleasePending(c) ==
  \E i \in DOMAIN queue :
    \/ queue[i][1] = "KeyUp" /\ Code[queue[i][2]] = c
    \/ queue[i][1] \in {"KillFocus", "MouseLeave", "Close"}

\* No key hangs but by Alt: a code the program takes to be down is down with the window
\* having the focus, or the message that clears it is queued, even though the release of
\* a key whose window lost the focus is never reported; or the key was let go of while
\* Alt, or its menu, kept WM_KEYUP from WndProc, and then it hangs until it is pressed
\* again or the focus or the pointer leaves the window.
NoHangingKey ==
  \A c \in keyState :
    quitting \/ (focus /\ c \in HeldCodes) \/ ReleasePending(c) \/ c \in unreported

\* GetKeyDown and GetKeyUp report exactly what changed from one frame to the next:
\* every Down is followed by one Up before the next Down, however many messages,
\* clearings and changes of focus lie between two frames.
EdgesBetweenFrames ==
  [][pc = "Peek" /\ pc' = "EndOfFrame" =>
       \A c \in Codes : /\ GetKeyDown(c) <=> c \notin shown /\ c \in shown'
                        /\ GetKeyUp(c) <=> c \in shown /\ c \notin shown']_vars

\* A key let go of is up in the program's eyes before long, though the queue may
\* never be empty, unless it is pressed again or the window is gone, or it is one of
\* those whose release Alt kept from WndProc.
ReleaseArrives ==
  \A c \in Codes : c \notin HeldCodes /\ c \notin unreported
                     ~> (c \notin keyState \/ c \in HeldCodes \/ quitting)

=============================================================================
