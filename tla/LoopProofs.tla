----------------------------- MODULE LoopProofs -----------------------------
(***************************************************************************)
(* What the loop of the program promises: the keys and their edges, for    *)
(* all keys and every order of messages and frames; and the clock of the   *)
(* frames with the animation it plays, for every rate, every size of the   *)
(* stack and every sequence of ticks.                                      *)
(***************************************************************************)
EXTENDS InputLoop, Playback, TLAPS

\* Message m, once dispatched, leaves code c up, or down.
Clears(m, c) ==
  \/ m[1] = "KeyUp" /\ Code[m[2]] = c
  \/ m[1] \in {"KillFocus", "MouseLeave", "Close"}
Sets(m, c) == m[1] = "KeyDown" /\ Code[m[2]] = c

\* The release of c is still to come, or Alt has kept it from WndProc.
Watched(c) == (focus /\ c \in HeldCodes) \/ c \in unreported

QuitLeavesNothing == quitting => queue = <<>>

NoHangingPress ==
  \A c \in Codes, i \in DOMAIN queue :
    Sets(queue[i], c) => Watched(c) \/ \E j \in DOMAIN queue : j > i /\ Clears(queue[j], c)

KeyInv == QuitLeavesNothing /\ NoHangingPress /\ NoHangingKey

\* WM_KILLFOCUS makes up for what Alt hid as well.
HiddenWithFocus == unreported # {} => focus

IInv == TypeOK /\ KeyInv /\ HiddenWithFocus

-----------------------------------------------------------------------------
LEMMA PendingClears ==
  ASSUME NEW c PROVE ReleasePending(c) <=> \E i \in DOMAIN queue : Clears(queue[i], c)
BY DEF ReleasePending, Clears

LEMMA MessageKinds ==
  ASSUME NEW m \in Messages
  PROVE  \/ m[1] \in {"KeyDown", "KeyUp"} /\ m[2] \in Keys /\ Code[m[2]] \in Codes
         \/ m[1] \in {"SysKey", "KillFocus", "MouseLeave", "Close"}
BY KeysAssumption DEF Messages

LEMMA AppendFacts ==
  ASSUME NEW S, NEW q \in Seq(S), NEW m \in S
  PROVE  /\ Append(q, m) \in Seq(S)
         /\ Len(Append(q, m)) = Len(q) + 1
         /\ Len(q) + 1 \in DOMAIN Append(q, m)
         /\ Append(q, m)[Len(q) + 1] = m
         /\ \A i \in DOMAIN q : /\ i \in DOMAIN Append(q, m)
                                /\ Append(q, m)[i] = q[i]
                                /\ Len(q) + 1 > i
         /\ \A i \in DOMAIN Append(q, m) : i \in DOMAIN q \/ i = Len(q) + 1
OBVIOUS

LEMMA EmptyFacts == ASSUME NEW S PROVE <<>> \in Seq(S) /\ Len(<<>>) = 0
OBVIOUS

LEMMA TailFacts ==
  ASSUME NEW S, NEW q \in Seq(S), q # <<>>
  PROVE  /\ Head(q) \in S /\ Head(q) = q[1] /\ 1 \in DOMAIN q
         /\ Tail(q) \in Seq(S)
         /\ Len(Tail(q)) = Len(q) - 1
         /\ \A i \in DOMAIN Tail(q) : i + 1 \in DOMAIN q /\ Tail(q)[i] = q[i + 1] /\ i \in Nat
         /\ \A i \in DOMAIN q : i \in Nat /\
              (i > 1 => i - 1 \in DOMAIN Tail(q) /\ Tail(q)[i - 1] = q[i])
         /\ \A i \in DOMAIN q : i = 1 \/ i > 1
OBVIOUS

-----------------------------------------------------------------------------
\* Every step but a dispatch adds at most one message.
LEMMA PostKeeps ==
  ASSUME TypeOK, KeyInv, NEW m \in Messages, Post(m),
         \A c \in Codes : Watched(c) => Watched(c)' \/ Clears(m, c),
         \A c \in Codes : Sets(m, c) => Watched(c)'
  PROVE  KeyInv'
<1>. DEFINE n == Len(queue) + 1
<1>1. /\ ~quitting' /\ keyState' = keyState
      /\ queue' = Append(queue, m)
      /\ queue \in Seq(Messages)
      /\ keyState \subseteq Codes
  BY DEF Post, TypeOK
<1>2. /\ n \in DOMAIN queue' /\ queue'[n] = m
      /\ \A i \in DOMAIN queue : i \in DOMAIN queue' /\ queue'[i] = queue[i] /\ n > i
      /\ \A i \in DOMAIN queue' : i \in DOMAIN queue \/ i = n
  BY <1>1, AppendFacts
<1>3. NoHangingPress'
  <2>. SUFFICES ASSUME NEW c \in Codes, NEW i \in DOMAIN queue', Sets(queue'[i], c)
                PROVE  Watched(c)' \/ \E j \in DOMAIN queue' : j > i /\ Clears(queue'[j], c)
    BY DEF NoHangingPress, Sets, Clears
  <2>1. CASE i = n
    BY <2>1, <1>2
  <2>2. CASE i \in DOMAIN queue
    <3>1. Watched(c) \/ \E j \in DOMAIN queue : j > i /\ Clears(queue[j], c)
      BY <2>2, <1>2 DEF KeyInv, NoHangingPress
    <3>. QED
      BY <3>1, <2>2, <1>2
  <2>. QED
    BY <2>1, <2>2, <1>2
<1>4. NoHangingKey'
  <2>. SUFFICES ASSUME NEW c \in keyState'
                PROVE  Watched(c)' \/ \E j \in DOMAIN queue' : Clears(queue'[j], c)
    BY DEF NoHangingKey, ReleasePending, Watched, Clears
  <2>1. c \in Codes /\ c \in keyState
    BY <1>1
  <2>2. Watched(c) \/ \E j \in DOMAIN queue : Clears(queue[j], c)
    BY <2>1, PendingClears DEF KeyInv, NoHangingKey, Watched, Post
  <2>. QED
    BY <2>1, <2>2, <1>2
<1>. QED
  BY <1>1, <1>3, <1>4 DEF KeyInv, QuitLeavesNothing

LEMMA NoPostKeeps ==
  ASSUME KeyInv, UNCHANGED <<queue, quitting, keyState>>,
         \A c \in Codes : Watched(c) => Watched(c)', keyState \subseteq Codes
  PROVE  KeyInv'
<1>1. NoHangingPress'
  BY DEF KeyInv, NoHangingPress
<1>2. NoHangingKey'
  BY DEF KeyInv, NoHangingKey, ReleasePending, Watched
<1>. QED
  BY <1>1, <1>2 DEF KeyInv, QuitLeavesNothing

\* A press that is dispatched hands its key from the queue to the key state.
LEMMA DispatchKeeps ==
  ASSUME TypeOK, KeyInv, DispatchMessage
  PROVE  KeyInv'
<1>. DEFINE h == Head(queue)
<1>1. /\ queue \in Seq(Messages) /\ queue # <<>> /\ keyState \subseteq Codes
      /\ quitting' = (h[1] = "Close")
      /\ queue' = IF h[1] = "Close" THEN <<>> ELSE Tail(queue)
      /\ focus' = focus /\ held' = held /\ unreported' = unreported
  BY DEF TypeOK, DispatchMessage, environment
<1>2. h \in Messages /\ h = queue[1]
  BY <1>1, TailFacts
<1>3. CASE h[1] = "Close"
  <2>1. quitting' /\ queue' = <<>>
    BY <1>1, <1>3
  <2>. QED
    BY <2>1 DEF KeyInv, QuitLeavesNothing, NoHangingPress, NoHangingKey
<1>4. CASE h[1] # "Close"
  <2>1. ~quitting' /\ queue' = Tail(queue)
    BY <1>1, <1>4
  <2>2. \A i \in DOMAIN queue' : i + 1 \in DOMAIN queue /\ queue'[i] = queue[i + 1] /\ i \in Nat
    BY <1>1, <2>1, TailFacts
  <2>3. \A i \in DOMAIN queue : /\ i \in Nat
                                /\ i = 1 \/ i > 1
                                /\ i > 1 => i - 1 \in DOMAIN queue' /\ queue'[i - 1] = queue[i]
    BY <1>1, <2>1, TailFacts
  <2>4. \A c : Watched(c)' <=> Watched(c)
    BY <1>1 DEF Watched, HeldCodes
  <2>5. NoHangingPress'
    <3>. SUFFICES ASSUME NEW c \in Codes, NEW i \in DOMAIN queue', Sets(queue'[i], c)
                  PROVE  Watched(c)' \/ \E j \in DOMAIN queue' : j > i /\ Clears(queue'[j], c)
      BY DEF NoHangingPress, Sets, Clears
    <3>1. Watched(c) \/ \E j \in DOMAIN queue : j > i + 1 /\ Clears(queue[j], c)
      BY <2>2 DEF KeyInv, NoHangingPress
    <3>2. ASSUME NEW j \in DOMAIN queue, j > i + 1, Clears(queue[j], c)
          PROVE  j - 1 \in DOMAIN queue' /\ j - 1 > i /\ Clears(queue'[j - 1], c)
      BY <3>2, <2>2, <2>3
    <3>. QED
      BY <3>1, <3>2, <2>4
  <2>6. NoHangingKey'
    <3>. SUFFICES ASSUME NEW c \in keyState'
                  PROVE  Watched(c) \/ \E j \in DOMAIN queue' : Clears(queue'[j], c)
      BY <2>4 DEF NoHangingKey, ReleasePending, Watched, Clears
    <3>1. CASE h[1] \in {"KillFocus", "MouseLeave"}
      BY <3>1 DEF DispatchMessage, ClearCurInputState
    <3>2. CASE h[1] = "SysKey"
      <4>1. c \in keyState /\ ~Clears(h, c) /\ ~quitting
        BY <3>2, <1>1 DEF DispatchMessage, Clears, KeyInv, QuitLeavesNothing
      <4>2. Watched(c) \/ \E j \in DOMAIN queue : Clears(queue[j], c)
        BY <4>1, PendingClears DEF KeyInv, NoHangingKey, Watched
      <4>. QED
        BY <4>1, <4>2, <1>2, <2>3
    <3>3. CASE h[1] = "KeyDown" \/ h[1] = "KeyUp"
      <4>1. keyState' = IF h[1] = "KeyDown" THEN keyState \cup {Code[h[2]]}
                                            ELSE keyState \ {Code[h[2]]}
        BY <3>3 DEF DispatchMessage, ProcessInputEvent
      <4>2. h[2] \in Keys /\ Code[h[2]] \in Codes
        BY <3>3, <1>2, MessageKinds
      <4>3. c \in Codes
        BY <4>1, <4>2, <1>1
      <4>4. CASE Sets(h, c)
        <5>1. Watched(c) \/ \E j \in DOMAIN queue : j > 1 /\ Clears(queue[j], c)
          BY <4>3, <4>4, <1>1, <1>2, TailFacts DEF KeyInv, NoHangingPress
        <5>. QED
          BY <5>1, <2>3
      <4>5. CASE ~Sets(h, c)
        <5>1. c \in keyState /\ ~Clears(h, c)
          BY <4>1, <4>5, <3>3 DEF Sets, Clears
        <5>2. ~quitting
          BY <1>1 DEF KeyInv, QuitLeavesNothing
        <5>3. Watched(c) \/ \E j \in DOMAIN queue : Clears(queue[j], c)
          BY <5>1, <5>2, PendingClears DEF KeyInv, NoHangingKey, Watched
        <5>. QED
          BY <5>1, <5>3, <1>2, <2>3
      <4>. QED
        BY <4>4, <4>5
    <3>. QED
      BY <3>1, <3>2, <3>3, <1>2, <1>4, MessageKinds
  <2>. QED
    BY <2>1, <2>5, <2>6 DEF KeyInv, QuitLeavesNothing
<1>. QED
  BY <1>3, <1>4

-----------------------------------------------------------------------------
LEMMA PressKeeps ==
  ASSUME IInv, NEW k \in Keys, Press(k) PROVE KeyInv'
<1>. DEFINE down == <<"KeyDown", k>>
<1>1. focus => \A c : Watched(c) => Watched(c)'
  BY DEF Press, Watched, HeldCodes
<1>2. down \in Messages /\ <<"SysKey">> \in Messages
  BY DEF Messages
<1>3. \A c : ~Sets(<<"SysKey">>, c)
  BY DEF Sets
<1>4. CASE focus /\ Post(down)
  <2>1. \A c : Sets(down, c) => Watched(c)'
    BY <1>4 DEF Sets, Press, Watched, HeldCodes
  <2>. QED
    BY <1>1, <1>2, <1>4, <2>1, PostKeeps DEF IInv
<1>5. CASE focus /\ Post(<<"SysKey">>)
  BY <1>1, <1>2, <1>3, <1>5, PostKeeps DEF IInv
<1>6. CASE ~focus /\ UNCHANGED <<queue, quitting, keyState>>
  <2>1. unreported = {}
    BY <1>6 DEF IInv, HiddenWithFocus
  <2>2. \A c : Watched(c) => Watched(c)'
    BY <2>1, <1>6 DEF Watched
  <2>. QED
    BY <2>2, <1>6, NoPostKeeps DEF IInv, TypeOK
<1>. QED
  BY <1>4, <1>5, <1>6 DEF Press, PostIfFocused

LEMMA RepeatKeeps ==
  ASSUME IInv, NEW k \in Keys, Repeat(k) PROVE KeyInv'
<1>1. \A c : Watched(c) => Watched(c)'
  BY DEF Repeat, environment, Watched, HeldCodes
<1>2. <<"KeyDown", k>> \in Messages /\ <<"SysKey">> \in Messages
  BY DEF Messages
<1>3. /\ \A c : Sets(<<"KeyDown", k>>, c) => Watched(c)'
      /\ \A c : ~Sets(<<"SysKey">>, c)
  BY DEF Sets, Repeat, environment, Watched, HeldCodes
<1>4. CASE Post(<<"KeyDown", k>>)
  BY <1>1, <1>2, <1>3, <1>4, PostKeeps DEF IInv
<1>5. CASE Post(<<"SysKey">>)
  BY <1>1, <1>2, <1>3, <1>5, PostKeeps DEF IInv
<1>. QED
  BY <1>4, <1>5 DEF Repeat

LEMMA ReleaseKeeps ==
  ASSUME IInv, NEW k \in Keys, Release(k) PROVE KeyInv'
<1>. DEFINE up == <<"KeyUp", k>>
            hidden == <<"SysKey">>
<1>1. /\ up \in Messages /\ hidden \in Messages
      /\ \A c : ~Sets(up, c) /\ ~Sets(hidden, c)
  BY DEF Messages, Sets
<1>2. CASE focus /\ Post(up) /\ unreported' = unreported \ {Code[k]}
  <2>1. \A c : Watched(c) => Watched(c)' \/ Clears(up, c)
    BY <1>2 DEF Release, Watched, HeldCodes, Clears
  <2>. QED
    BY <1>1, <1>2, <2>1, PostKeeps DEF IInv
<1>3. CASE focus /\ Post(hidden) /\ unreported' = unreported \cup {Code[k]}
  <2>1. \A c : Watched(c) => Watched(c)'
    BY <1>3 DEF Release, Watched, HeldCodes
  <2>. QED
    BY <1>1, <1>3, <2>1, PostKeeps DEF IInv
<1>4. CASE ~focus /\ UNCHANGED <<queue, quitting, keyState>>
  <2>1. \A c : ~Watched(c)
    BY <1>4 DEF Watched, IInv, HiddenWithFocus
  <2>. QED
    BY <1>4, <2>1, NoPostKeeps DEF IInv, TypeOK
<1>. QED
  BY <1>2, <1>3, <1>4 DEF Release, PostIfFocused

\* The messages that clear everything.
LEMMA ClearingKeeps ==
  ASSUME IInv, NEW m \in {<<"KillFocus">>, <<"MouseLeave">>, <<"Close">>}, Post(m)
  PROVE  KeyInv'
<1>1. m \in Messages
  BY DEF Messages
<1>2. \A c : Clears(m, c) /\ ~Sets(m, c)
  BY DEF Clears, Sets
<1>. QED
  BY <1>1, <1>2, PostKeeps DEF IInv

LEMMA KeyStep == IInv /\ [Next]_vars => KeyInv'
<1>. SUFFICES ASSUME IInv, [Next]_vars PROVE KeyInv'
  OBVIOUS
<1>. USE DEF IInv
<1>1. ASSUME NEW k \in Keys, Press(k) \/ Release(k) PROVE KeyInv'
  BY <1>1, PressKeeps, ReleaseKeeps
<1>2. ASSUME NEW k \in Keyboard, Repeat(k) PROVE KeyInv'
  BY <1>2, RepeatKeeps, KeysAssumption
<1>3. CASE LoseFocus \/ PointerLeaves \/ CloseWindow
  BY <1>3, ClearingKeeps DEF LoseFocus, PointerLeaves, CloseWindow
<1>4. CASE DispatchMessage
  BY <1>4, DispatchKeeps
<1>5. CASE GainFocus \/ LeaveMenu
  <2>1. \A c : Watched(c) => Watched(c)'
    BY <1>5 DEF GainFocus, LeaveMenu, Watched, HeldCodes
  <2>. QED
    BY <1>5, <2>1, NoPostKeeps DEF GainFocus, LeaveMenu, TypeOK
<1>6. CASE LeaveLoop \/ PerFrame \/ ProcessInputEndOfFrame \/ UNCHANGED vars
  <2>1. UNCHANGED <<queue, quitting, keyState, held, focus, unreported>>
    BY <1>6 DEF LeaveLoop, PerFrame, ProcessInputEndOfFrame, vars, environment
  <2>2. \A c : Watched(c) => Watched(c)'
    BY <2>1 DEF Watched, HeldCodes
  <2>. QED
    BY <2>1, <2>2, NoPostKeeps DEF TypeOK
<1>. QED
  BY <1>1, <1>2, <1>3, <1>4, <1>5, <1>6 DEF Next, Loop, Environment

-----------------------------------------------------------------------------
LEMMA PostTypes ==
  ASSUME TypeOK, NEW m \in Messages, Post(m)
  PROVE  /\ queue' \in Seq(Messages) /\ Len(queue') <= MaxQueue
         /\ UNCHANGED <<quitting, pc, keyState, prevKeyState, shown>>
<1>1. queue \in Seq(Messages) /\ Len(queue) < MaxQueue /\ queue' = Append(queue, m)
  BY DEF TypeOK, Post
<1>2. queue' \in Seq(Messages) /\ Len(queue') = Len(queue) + 1
  BY <1>1, AppendFacts
<1>3. Len(queue) \in Nat /\ MaxQueue \in Nat
  BY <1>1, KeysAssumption
<1>. QED
  BY <1>1, <1>2, <1>3 DEF Post

LEMMA HiddenStep == HiddenWithFocus /\ [Next]_vars => HiddenWithFocus'
<1>. SUFFICES ASSUME HiddenWithFocus, [Next]_vars PROVE HiddenWithFocus'
  OBVIOUS
<1>. USE DEF HiddenWithFocus
<1>1. ASSUME NEW k \in Keys, Press(k) \/ Release(k) \/ Repeat(k) PROVE HiddenWithFocus'
  BY <1>1 DEF Press, Release, Repeat, environment
<1>2. CASE LeaveMenu \/ LoseFocus \/ GainFocus \/ PointerLeaves \/ CloseWindow
  BY <1>2 DEF LeaveMenu, LoseFocus, GainFocus, PointerLeaves, CloseWindow
<1>3. CASE Loop \/ UNCHANGED vars
  BY <1>3 DEF Loop, DispatchMessage, LeaveLoop, PerFrame, ProcessInputEndOfFrame, vars,
              environment
<1>. QED
  BY <1>1, <1>2, <1>3, KeysAssumption DEF Next, Environment

LEMMA TypeStep == TypeOK /\ [Next]_vars => TypeOK'
<1>. SUFFICES ASSUME TypeOK, [Next]_vars PROVE TypeOK'
  OBVIOUS
<1>1. ASSUME NEW m \in Messages, Post(m) \/ PostIfFocused(m),
             held' \subseteq Keys, focus' \in BOOLEAN, menu' \in BOOLEAN,
             unreported' \subseteq Codes
      PROVE  TypeOK'
  <2>1. CASE Post(m)
    BY <1>1, <2>1, PostTypes DEF TypeOK
  <2>2. CASE UNCHANGED <<queue, quitting, pc, keyState, prevKeyState, shown>>
    BY <1>1, <2>2 DEF TypeOK
  <2>. QED
    BY <1>1, <2>1, <2>2 DEF PostIfFocused
<1>2. ASSUME NEW k \in Keys, Press(k) \/ Release(k) \/ Repeat(k) PROVE TypeOK'
  <2>1. {<<"KeyDown", k>>, <<"KeyUp", k>>, <<"SysKey">>} \subseteq Messages
    BY DEF Messages
  <2>2. held' \subseteq Keys /\ focus' \in BOOLEAN /\ menu' \in BOOLEAN
    BY <1>2 DEF TypeOK, Press, Release, Repeat, environment
  <2>3. unreported' \subseteq Codes
    <3>1. unreported \subseteq Codes /\ Code[k] \in Codes
      BY KeysAssumption DEF TypeOK
    <3>. QED
      BY <1>2, <3>1 DEF Press, Release, Repeat, environment
  <2>. QED
    BY <1>1, <1>2, <2>1, <2>2, <2>3 DEF Press, Release, Repeat
<1>3. CASE LoseFocus \/ PointerLeaves \/ CloseWindow
  <2>1. {<<"KillFocus">>, <<"MouseLeave">>, <<"Close">>} \subseteq Messages
    BY DEF Messages
  <2>2. /\ held' \subseteq Keys /\ focus' \in BOOLEAN /\ menu' \in BOOLEAN
        /\ unreported' \subseteq Codes
    BY <1>3 DEF TypeOK, LoseFocus, PointerLeaves, CloseWindow, environment
  <2>. QED
    BY <1>1, <1>3, <2>1, <2>2 DEF LoseFocus, PointerLeaves, CloseWindow
<1>4. CASE DispatchMessage
  <2>1. queue \in Seq(Messages) /\ queue # <<>> /\ Len(queue) <= MaxQueue
    BY <1>4 DEF TypeOK, DispatchMessage
  <2>2. /\ Head(queue) \in Messages
        /\ Tail(queue) \in Seq(Messages) /\ Len(Tail(queue)) = Len(queue) - 1
    BY <2>1, TailFacts
  <2>3. queue' = <<>> \/ queue' = Tail(queue)
    BY <1>4 DEF DispatchMessage
  <2>4. queue' \in Seq(Messages) /\ Len(queue') <= MaxQueue
    <3>1. Len(queue) \in Nat /\ MaxQueue \in Nat
      BY <2>1, KeysAssumption
    <3>2. CASE queue' = <<>>
      BY <3>1, <3>2, EmptyFacts
    <3>3. CASE queue' = Tail(queue)
      BY <3>1, <3>3, <2>1, <2>2
    <3>. QED
      BY <2>3, <3>2, <3>3
  <2>5. keyState' \subseteq Codes /\ prevKeyState' = prevKeyState
    BY <1>4, <2>2, MessageKinds
       DEF TypeOK, DispatchMessage, ProcessInputEvent, ClearCurInputState
  <2>6. UNCHANGED <<held, focus, menu, unreported, pc, shown>> /\ quitting' \in BOOLEAN
    BY <1>4 DEF DispatchMessage, environment
  <2>. QED
    BY <2>4, <2>5, <2>6 DEF TypeOK
<1>5. CASE \/ GainFocus \/ LeaveMenu \/ LeaveLoop \/ PerFrame \/ ProcessInputEndOfFrame
           \/ UNCHANGED vars
  BY <1>5 DEF TypeOK, GainFocus, LeaveMenu, LeaveLoop, PerFrame, ProcessInputEndOfFrame, vars, environment
<1>. QED
  BY <1>2, <1>3, <1>4, <1>5, KeysAssumption DEF Next, Loop, Environment

LEMMA Initially == Init => IInv
<1>. SUFFICES ASSUME Init PROVE IInv
  OBVIOUS
<1>1. TypeOK
  <2>1. queue \in Seq(Messages) /\ Len(queue) <= MaxQueue
    BY EmptyFacts, KeysAssumption DEF Init
  <2>. QED
    BY <2>1 DEF Init, TypeOK
<1>2. KeyInv
  BY DEF Init, KeyInv, QuitLeavesNothing, NoHangingPress, NoHangingKey
<1>3. HiddenWithFocus
  BY DEF Init, HiddenWithFocus
<1>. QED
  BY <1>1, <1>2, <1>3 DEF IInv

-----------------------------------------------------------------------------
\* The inductive invariant: neither a key that is down in the key state nor a press
\* that WndProc has still to dispatch can hang.
THEOREM Inductive == Spec => []IInv
<1>1. IInv /\ [Next]_vars => IInv'
  BY TypeStep, KeyStep, HiddenStep DEF IInv
<1>. QED
  BY Initially, <1>1, PTL DEF Spec

\* The key state holds codes only, and the queue the messages of the window.
THEOREM TypeCorrect == Spec => []TypeOK
<1>1. IInv => TypeOK
  BY DEF IInv
<1>. QED
  BY <1>1, Inductive, PTL

\* ClearCurInputState on WM_KILLFOCUS and WM_MOUSELEAVE makes up for every release
\* that is never reported, but for those that Alt keeps from WndProc: the property
\* NoHangingKey.
THEOREM KeysNeverHang == Spec => []NoHangingKey
<1>1. IInv => NoHangingKey
  BY DEF IInv, KeyInv
<1>. QED
  BY <1>1, Inductive, PTL

\* Between frames _prevFrameKeyState is what the last frame has shown.  Messages are
\* dispatched only then, and clearing the current state leaves it alone.
LastFrameKept ==
  /\ pc # "EndOfFrame" => prevKeyState = shown
  /\ pc = "EndOfFrame" => keyState = shown

LEMMA LastFrameStays == LastFrameKept /\ [Next]_vars => LastFrameKept'
<1> SUFFICES ASSUME LastFrameKept, [Next]_vars
             PROVE  LastFrameKept'
  OBVIOUS
<1> USE DEF LastFrameKept
<1>1. CASE DispatchMessage
  <2>1. pc = "Peek" /\ UNCHANGED <<pc, shown>>
    BY <1>1 DEF DispatchMessage
  <2>2. UNCHANGED prevKeyState
    BY <1>1 DEF DispatchMessage, ProcessInputEvent, ClearCurInputState
  <2> QED
    BY <2>1, <2>2
<1>2. CASE LeaveLoop
  BY <1>2 DEF LeaveLoop
<1>3. CASE PerFrame
  BY <1>3 DEF PerFrame
<1>4. CASE ProcessInputEndOfFrame
  BY <1>4 DEF ProcessInputEndOfFrame
<1>5. CASE Environment
  <2>1. UNCHANGED <<pc, keyState, prevKeyState, shown>>
    BY <1>5 DEF Environment, Press, Release, Repeat, LoseFocus, GainFocus, PointerLeaves,
       LeaveMenu, CloseWindow, PostIfFocused, Post
  <2> QED
    BY <2>1
<1>6. CASE UNCHANGED vars
  BY <1>6 DEF vars
<1> QED
  BY <1>1, <1>2, <1>3, <1>4, <1>5, <1>6 DEF Next, Loop

\* GetKeyDown and GetKeyUp report what changed since the frame before, for all keys and
\* every order of messages, clearings and frames: the property EdgesBetweenFrames.
THEOREM EdgesAreChanges == Spec => EdgesBetweenFrames
<1>1. Init => LastFrameKept
  BY DEF Init, LastFrameKept
<1>2. LastFrameKept /\ [Next]_vars =>
        [pc = "Peek" /\ pc' = "EndOfFrame" =>
           \A c \in Codes : /\ GetKeyDown(c) <=> c \notin shown /\ c \in shown'
                            /\ GetKeyUp(c) <=> c \in shown /\ c \notin shown']_vars
  <2> SUFFICES ASSUME LastFrameKept, [Next]_vars, pc = "Peek", pc' = "EndOfFrame"
               PROVE  \A c \in Codes : /\ GetKeyDown(c) <=> c \notin shown /\ c \in shown'
                                       /\ GetKeyUp(c) <=> c \in shown /\ c \notin shown'
    OBVIOUS
  <2>1. PerFrame
    BY DEF Next, Loop, Environment, DispatchMessage, LeaveLoop, ProcessInputEndOfFrame, Press,
       Release, Repeat, LeaveMenu, LoseFocus, GainFocus, PointerLeaves, CloseWindow,
       PostIfFocused, Post,
       vars
  <2>2. shown' = keyState /\ prevKeyState = shown
    BY <2>1 DEF PerFrame, LastFrameKept
  <2> QED
    BY <2>2 DEF GetKeyDown, GetKeyUp
<1> QED
  BY <1>1, <1>2, LastFrameStays, PTL DEF Spec, EdgesBetweenFrames

------------------------------------------------------------------------------
\* The clock and the playback.

\* The stopwatch and the count are those of the time since the mark.
StopwatchInv ==
  /\ elapsed \in Nat /\ frameCount \in Nat /\ delta \in Nat
  /\ mark \in [frame : Nat, elapsed : Nat]
  /\ stopwatch \in Nat /\ since \in Nat
  /\ stopwatch = elapsed - mark.elapsed
  /\ stopwatch <= Second
  /\ since = frameCount - mark.frame

Sizes == bones \in Nat \ {0} /\ frames \in Nat \ {0}

PlaybackInv == Sizes /\ StopwatchInv /\ ReadsInside

-----------------------------------------------------------------------------
LEMMA TimesMonotone ==
  ASSUME NEW a \in Nat, NEW b \in Nat, NEW c \in Nat, a <= b
  PROVE  a * c <= b * c /\ c * a <= c * b
<1>1. b * c = a * c + (b - a) * c
  BY SMT
<1>2. (b - a) * c \in Nat
  <2>1. b - a \in Nat
    OBVIOUS
  <2>. QED
    BY <2>1
<1>3. a * c \in Nat /\ b * c \in Nat
  OBVIOUS
<1>4. a * c <= b * c
  BY <1>1, <1>2, <1>3
<1>5. c * a = a * c /\ c * b = b * c
  OBVIOUS
<1>. QED
  BY <1>4, <1>5

LEMMA DivFacts ==
  ASSUME NEW z \in Nat, NEW p \in Nat \ {0}
  PROVE  /\ z \div p \in Nat
         /\ (z \div p) * p <= z
OBVIOUS

\* A time within n frames of p parts is in one of those n frames.
LEMMA FrameInCycle ==
  ASSUME NEW z \in Nat, NEW n \in Nat \ {0}, NEW p \in Nat \ {0}, z < n * p
  PROVE  z \div p \in 0 .. n - 1
<1>. DEFINE q == z \div p
<1>1. q \in Nat /\ q * p <= z
  BY DivFacts
<1>2. ASSUME q >= n PROVE FALSE
  <2>1. n * p <= q * p
    BY <1>1, <1>2, TimesMonotone
  <2>2. n * p \in Nat /\ q * p \in Nat
    BY <1>1
  <2>. QED
    BY <1>1, <2>1, <2>2
<1>. QED
  BY <1>1, <1>2

LEMMA ModFacts ==
  ASSUME NEW x \in Nat, NEW m \in Nat \ {0}
  PROVE  x % m \in 0 .. m - 1
OBVIOUS

LEMMA TimesNat == ASSUME NEW a \in Nat, NEW b \in Nat PROVE a * b \in Nat
OBVIOUS

LEMMA TimesPositive ==
  ASSUME NEW a \in Nat \ {0}, NEW b \in Nat \ {0}
  PROVE  a * b \in Nat \ {0}
<1>1. 1 * b <= a * b
  BY TimesMonotone
<1>. QED
  BY <1>1

-----------------------------------------------------------------------------
LEMMA TickCounts ==
  ASSUME StopwatchInv, NEW t \in Ticks, Tick(t)
  PROVE  /\ StopwatchInv'
         /\ frameCount' > 0
         /\ mark' # mark => /\ fps' = frameCount' - mark.frame
                            /\ elapsed' - mark.elapsed > Second
                            /\ elapsed' - mark.elapsed <= Second + delta'
<1>. DEFINE d == IF t = 0 THEN LowLimit ELSE t
<1>1. d \in Nat \ {0} /\ Second \in Nat
  BY ClockAssumption
<1>2. /\ delta' = d /\ elapsed' = elapsed + d /\ frameCount' = frameCount + 1
      /\ elapsed' \in Nat /\ frameCount' \in Nat /\ delta' \in Nat
  BY <1>1 DEF Tick, StopwatchInv
<1>3. CASE stopwatch + d > Second
  <2>1. /\ stopwatch' = 0 /\ since' = 0 /\ fps' = since + 1
        /\ mark' = [frame |-> frameCount', elapsed |-> elapsed']
    BY <1>3 DEF Tick, CountAfterCheck
  <2>. QED
    BY <1>1, <1>2, <1>3, <2>1 DEF StopwatchInv
<1>4. CASE ~(stopwatch + d > Second)
  <2>1. stopwatch' = stopwatch + d /\ since' = since + 1 /\ mark' = mark
    BY <1>4 DEF Tick
  <2>. QED
    BY <1>1, <1>2, <1>4, <2>1 DEF StopwatchInv
<1>. QED
  BY <1>3, <1>4

LEMMA PoseInside ==
  ASSUME Sizes, elapsed' \in Nat, UpdatePose
  PROVE  /\ pose'.first \in 0 .. frames - 1
         /\ pose'.second \in {pose'.first, pose'.first + 1} /\ pose'.second < frames
         /\ pose'.second = pose'.first => pose'.first = frames - 1
<1>. DEFINE time == (elapsed' * Rate) % Cycle
            first == time \div Parts
            second == IF first + 1 >= frames THEN first ELSE first + 1
<1>1. Parts \in Nat \ {0} /\ frames \in Nat \ {0} /\ Rate \in Nat
  BY ClockAssumption DEF Parts, Sizes
<1>2. Cycle = frames * Parts /\ Cycle \in Nat \ {0}
  BY <1>1, TimesPositive DEF Cycle
<1>3. elapsed' * Rate \in Nat
  BY <1>1, TimesNat
<1>4. time \in Nat /\ time < Cycle
  <2>1. time \in 0 .. Cycle - 1
    BY <1>2, <1>3, ModFacts, Zenon
  <2>. HIDE DEF time
  <2>. QED
    BY <1>2, <2>1
<1>5. first \in 0 .. frames - 1
  BY <1>1, <1>2, <1>4, FrameInCycle
<1>6. PICK weight : pose' = [first |-> first, second |-> second, weight |-> weight]
  BY ZenonT(60) DEF UpdatePose
<1>7. pose'.first = first /\ pose'.second = second
  BY <1>6
<1>. HIDE DEF first
<1>. QED
  BY <1>1, <1>5, <1>7

LEMMA DrawnInside ==
  ASSUME Sizes, elapsed' \in Nat, drawnFrom' = DrawnBones * DrawnFrame(elapsed'), StackHasRoom
  PROVE  drawnFrom' + bones <= bones * frames
<1>. DEFINE f == DrawnFrame(elapsed')
<1>1. /\ Second \in Nat \ {0} /\ Rate \in Nat /\ DrawnFrames \in Nat \ {0}
      /\ DrawnBones \in Nat /\ bones \in Nat /\ frames \in Nat
  BY ClockAssumption, StackAssumption DEF Sizes
<1>2. elapsed' * Rate \in Nat
  BY <1>1, TimesNat
<1>3. (elapsed' * Rate) \div Second \in Nat
  BY <1>1, <1>2, DivFacts
<1>4. f \in 0 .. DrawnFrames - 1
  BY <1>1, <1>3, ModFacts DEF DrawnFrame
<1>5. f \in Nat /\ DrawnFrames - 1 \in Nat /\ f <= DrawnFrames - 1
  BY <1>1, <1>4
<1>6. DrawnBones * f <= DrawnBones * (DrawnFrames - 1)
  BY <1>1, <1>5, TimesMonotone
<1>7. /\ DrawnBones * f \in Nat /\ DrawnBones * (DrawnFrames - 1) \in Nat
      /\ bones * frames \in Nat
  BY <1>1, <1>5
<1>8. DrawnBones * (DrawnFrames - 1) + bones <= bones * frames
  BY DEF StackHasRoom
<1>9. drawnFrom' = DrawnBones * f
  OBVIOUS
<1>. HIDE DEF f
<1>. QED
  BY <1>1, <1>6, <1>7, <1>8, <1>9

-----------------------------------------------------------------------------
LEMMA StepKeeps ==
  ASSUME PlaybackInv, [PlaybackNext]_playbackVars
  PROVE  /\ PlaybackInv'
         /\ mark' # mark => /\ fps' = frameCount' - mark.frame
                            /\ elapsed' - mark.elapsed > Second
                            /\ elapsed' - mark.elapsed <= Second + delta'
<1>1. ASSUME NEW t \in Ticks, PlayFrame(t)
      PROVE  /\ PlaybackInv'
             /\ mark' # mark => /\ fps' = frameCount' - mark.frame
                                /\ elapsed' - mark.elapsed > Second
                                /\ elapsed' - mark.elapsed <= Second + delta'
  <2>1. /\ StopwatchInv' /\ frameCount' > 0
        /\ mark' # mark => /\ fps' = frameCount' - mark.frame
                           /\ elapsed' - mark.elapsed > Second
                           /\ elapsed' - mark.elapsed <= Second + delta'
    BY <1>1, TickCounts DEF PlaybackInv, PlayFrame
  <2>2. UNCHANGED stack /\ Sizes /\ Sizes' /\ elapsed' \in Nat
    BY <1>1, <2>1 DEF PlayFrame, stack, PlaybackInv, Sizes, StopwatchInv
  <2>3. /\ pose'.first \in 0 .. frames' - 1
        /\ pose'.second \in {pose'.first, pose'.first + 1} /\ pose'.second < frames'
        /\ pose'.second = pose'.first => pose'.first = frames' - 1
    BY <1>1, <2>2, PoseInside DEF PlayFrame, stack
  <2>4. StackHasRoom' => drawnFrom' + bones' <= bones' * frames'
    BY <1>1, <2>2, DrawnInside DEF PlayFrame, StackHasRoom, stack
  <2>5. ReadsInside'
    BY <2>3, <2>4 DEF ReadsInside
  <2>. QED
    BY <2>1, <2>2, <2>5 DEF PlaybackInv
<1>2. ASSUME UNCHANGED <<stack, clock, pose, drawnFrom>>
      PROVE  PlaybackInv' /\ mark' = mark
  BY <1>2 DEF stack, clock, PlaybackInv, Sizes, StopwatchInv, ReadsInside, StackHasRoom
<1>. QED
  BY <1>1, <1>2 DEF PlaybackNext, Break, playbackVars

LEMMA InitCounts == PlaybackInit => PlaybackInv
<1>. SUFFICES ASSUME PlaybackInit PROVE PlaybackInv
  OBVIOUS
<1>1. Sizes
  BY StackAssumption DEF PlaybackInit, Sizes
<1>2. StopwatchInv
  BY ClockAssumption DEF PlaybackInit, StopwatchInv
<1>3. StackHasRoom => bones <= bones * frames
  <2>1. DrawnBones * (DrawnFrames - 1) \in Nat
    BY StackAssumption
  <2>2. bones \in Nat /\ bones * frames \in Nat
    BY <1>1 DEF Sizes
  <2>. QED
    BY <2>1, <2>2 DEF StackHasRoom
<1>4. ReadsInside
  BY <1>1, <1>3 DEF PlaybackInit, Sizes, ReadsInside
<1>. QED
  BY <1>1, <1>2, <1>4 DEF PlaybackInv

\* Neither reader of an animation reads beyond its stack, the drawing of the bones if the
\* stack has room for the numbers in the code.
THEOREM NoReadBeyondStack == PlaybackSpec => []ReadsInside
<1>1. PlaybackInv /\ [PlaybackNext]_playbackVars => PlaybackInv'
  BY StepKeeps
<1>2. PlaybackInv => ReadsInside
  BY DEF PlaybackInv
<1>. QED
  BY <1>1, <1>2, InitCounts, PTL DEF PlaybackSpec

\* The frames per second that are shown count every frame once, over a window of a second
\* and at most one frame more.
THEOREM FramesCountedOnce == PlaybackSpec => FPSCountsFrames
<1>1. PlaybackInv /\ [PlaybackNext]_playbackVars => PlaybackInv'
  BY StepKeeps
<1>2. PlaybackInv /\ [PlaybackNext]_playbackVars =>
        [mark' # mark => /\ fps' = frameCount' - mark.frame
                         /\ elapsed' - mark.elapsed > Second
                         /\ elapsed' - mark.elapsed <= Second + delta']_playbackVars
  BY StepKeeps
<1>. QED
  BY <1>1, <1>2, InitCounts, PTL DEF PlaybackSpec, FPSCountsFrames

=============================================================================
