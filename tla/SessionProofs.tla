----------------------------- MODULE SessionProofs -----------------------------
(***************************************************************************)
(* Proofs about DebugSession, for any breakpoints and watchpoints and any  *)
(* number of unread stops: the registry agrees with the stub, gdb_lock     *)
(* belongs to whoever is inside it, a trace leaves nothing behind, and the *)
(* foreground tools never mistake a running CPU for a halted one.          *)
(***************************************************************************)
EXTENDS DebugSession, SequenceTheorems, TLAPS

-----------------------------------------------------------------------------
(* Types                                                                   *)

ModifyLabels == {"acq_modify", "m_probe", "m_intr", "m_collect", "m_drain", "m_fence",
                 "m_drain2", "modify", "m_drain3", "m_resume"}

\* TypeOK is not inductive: a tool modifies and registers the breakpoint it was
\* called for, pause has an interrupt left when it is about to send one, and the
\* watcher reads registers for a breakpoint it has matched.
CallShape ==
  /\ call.tool \in Creators \cup ById => call.arg \in Bp
  /\ tp \in ModifyLabels \cup {"register"} => call.arg \in Bp
  /\ tp \in {"acq_pause", "probe", "pause_drain", "pause_intr"} => frame.tries < 2
  /\ tp # "idle" => frame.packet # None
  /\ wp = "match" => hit.why \in Cause
  /\ wp \in {"read", "resume"} => hit.why \in Cause /\ hit.id \in Bp

Typed == TypeOK /\ CallShape

\* A stop put aside is in the stream again.
LEMMA InsertLemma ==
  ASSUME NEW S, NEW s \in Seq(S), NEW c \in S, NEW i \in 1..(Len(s) + 1)
  PROVE  InsertAt(s, i, c) \in Seq(S) /\ Len(InsertAt(s, i, c)) = Len(s) + 1
  <1> DEFINE A == SubSeq(s, 1, i - 1) \o <<c>>
             B == SubSeq(s, i, Len(s))
  <1>1. SubSeq(s, 1, i - 1) \in Seq(S) /\ Len(SubSeq(s, 1, i - 1)) = i - 1
    BY SubSeqProperties, ElementOfSeq, LenProperties
  <1>2. <<c>> \in Seq(S) /\ Len(<<c>>) = 1
    OBVIOUS
  <1>3. A \in Seq(S) /\ Len(A) = i
    BY <1>1, <1>2, ConcatProperties
  <1>4. B \in Seq(S) /\ Len(B) = Len(s) - i + 1
    BY SubSeqProperties, ElementOfSeq, LenProperties
  <1>5. Len(s) \in Nat /\ InsertAt(s, i, c) = A \o B
    BY DEF InsertAt
  <1> HIDE DEF A, B
  <1>6. A \o B \in Seq(S) /\ Len(A \o B) = Len(A) + Len(B)
    BY <1>3, <1>4, ConcatProperties
  <1> QED BY <1>3, <1>4, <1>5, <1>6

\* What the stream's operations do to the stops, and to what is buffered of them.
LEMMA StreamLemma ==
  ASSUME StreamTypeOK, buf \in 0..Len(stops)
  PROVE  /\ Command => StreamTypeOK' /\ buf' \in 0..Len(stops')
         /\ ContinueAsync => StreamTypeOK' /\ buf' \in 0..Len(stops')
         /\ DrainAll => StreamTypeOK' /\ buf' \in 0..Len(stops')
         /\ TakeOne => StreamTypeOK' /\ buf' \in 0..Len(stops') /\ Head(stops) \in Cause
         /\ Interrupt /\ buf' = buf => StreamTypeOK' /\ buf' \in 0..Len(stops')
         /\ ServeInterrupt /\ buf' = buf => StreamTypeOK' /\ buf' \in 0..Len(stops')
         /\ DropInterrupt /\ buf' = buf => StreamTypeOK' /\ buf' \in 0..Len(stops')
         /\ \A b \in Bp : Hit(b) /\ buf' = buf => StreamTypeOK' /\ buf' \in 0..Len(stops')
         /\ StepInsn /\ buf' = Len(stops) => StreamTypeOK' /\ buf' \in 0..Len(stops')
         /\ UNCHANGED <<streamVars, buf>> => StreamTypeOK' /\ buf' \in 0..Len(stops')
  <1> USE DEF StreamTypeOK
  <1>1. Len(stops) \in Nat /\ {"int", "step"} \cup Bp \subseteq Cause
    BY DEF Cause
  <1>2. \A c \in Cause : Append(stops, c) \in Seq(Cause) /\ Len(Append(stops, c)) = Len(stops) + 1
    BY AppendProperties
  <1>3. Command => StreamTypeOK' /\ buf' \in 0..Len(stops')
    BY <1>1 DEF Command, RoundTrip
  <1>4. ContinueAsync => StreamTypeOK' /\ buf' \in 0..Len(stops')
    BY <1>1 DEF ContinueAsync, RoundTrip, Continue
  <1>5. DrainAll => StreamTypeOK' /\ buf' \in 0..Len(stops')
    BY <1>1 DEF DrainAll
  <1>6. ASSUME TakeOne PROVE StreamTypeOK' /\ buf' \in 0..Len(stops') /\ Head(stops) \in Cause
    <2>1. 1 \in 1..Len(stops) /\ stops' = SubSeq(stops, 2, Len(stops)) /\ UNCHANGED <<cpu, intr>>
      BY <1>6 DEF TakeOne, Take
    <2>2. stops # <<>> /\ stops' = Tail(stops)
      BY <1>1, <2>1, TailIsSubSeq
    <2>3. stops' \in Seq(Cause) /\ Len(stops') = Len(stops) - 1 /\ Head(stops) \in Cause
      BY <2>2, HeadTailProperties
    <2> QED BY <1>1, <1>6, <2>1, <2>3 DEF TakeOne
  <1>7. Interrupt /\ buf' = buf => StreamTypeOK' /\ buf' \in 0..Len(stops')
    BY <1>1 DEF Interrupt
  <1>8. ServeInterrupt /\ buf' = buf => StreamTypeOK' /\ buf' \in 0..Len(stops')
    BY <1>1, <1>2 DEF ServeInterrupt
  <1>9. DropInterrupt /\ buf' = buf => StreamTypeOK' /\ buf' \in 0..Len(stops')
    BY <1>1 DEF DropInterrupt
  <1>10. \A b \in Bp : Hit(b) /\ buf' = buf => StreamTypeOK' /\ buf' \in 0..Len(stops')
    BY <1>1, <1>2 DEF Hit
  <1>11. StepInsn /\ buf' = Len(stops) => StreamTypeOK' /\ buf' \in 0..Len(stops')
    BY <1>1, <1>2 DEF StepInsn
  <1>12. UNCHANGED <<streamVars, buf>> => StreamTypeOK' /\ buf' \in 0..Len(stops')
    BY DEF streamVars
  <1> QED BY <1>3, <1>4, <1>5, <1>6, <1>7, <1>8, <1>9, <1>10, <1>11, <1>12

\* What TypeOK and CallShape say beyond the stream.
Threads ==
  /\ armed \subseteq Bp /\ bps \subseteq Bp /\ auto \subseteq bps
  /\ state \in {"paused", "running"}
  /\ glock \in {"free", "tool", "watcher"}
  /\ tp \in ToolLabels /\ wp \in WatcherLabels
  /\ call \in [tool : Tools \cup {None}, arg : Bp \cup {None}, before : {"paused", "running"}]
  /\ frame \in [packet : {None, "Z", "z"}, was : BOOLEAN, seen : BOOLEAN,
                ok : BOOLEAN, tries : 0..2]
  /\ out \in {"ok", "busy", "wrong_state", "timeout", "error"}
  /\ hit \in [why : Cause \cup {None}, id : Bp \cup {None}]
  /\ stopping \in BOOLEAN
  /\ logged \subseteq [why : Cause, id : Bp]
  /\ CallShape

\* Every step of the tool thread leaves the threads' variables well typed.
LEMMA ToolTypes ==
  ASSUME Threads, ToolWaits \/ ToolSteps
  PROVE  Threads'
  <1> USE DEF Threads, CallShape, ToolLabels, LockedLabels, UnlockedLabels, Locked,
              WatcherLabels, WatcherOwns, ModifyLabels, Creators, ById, None,
              sessVars, watchVars, toolVars, Goto, Return, Release
  <1>1. CASE Acquire
    BY <1>1 DEF Acquire
  <1>2. CASE ModifyBegin
    <2>1. (state = "running") \in BOOLEAN
      OBVIOUS
    <2>2. /\ frame' \in [packet : {None, "Z", "z"}, was : BOOLEAN, seen : BOOLEAN,
                         ok : BOOLEAN, tries : 0..2]
          /\ frame'.packet = frame.packet /\ frame'.tries = frame.tries
      BY <1>2, <2>1 DEF ModifyBegin
    <2> QED BY <1>2, <2>2 DEF ModifyBegin
  <1>3. CASE Query
    BY <1>3 DEF Query
  <1>4. CASE Resume
    BY <1>4 DEF Resume, AfterResume
  <1>5. CASE Step
    BY <1>5 DEF Step
  <1>6. CASE WaitForStop
    BY <1>6 DEF WaitForStop, AfterWait
  <1>7. CASE WaitTimeout
    BY <1>7 DEF WaitTimeout, AfterWait
  <1>8. CASE Mem
    BY <1>8 DEF Mem
  <1>9. CASE PauseProbe
    BY <1>9 DEF PauseProbe
  <1>10. CASE PauseDrain
    BY <1>10 DEF PauseDrain
  <1>11. CASE PauseInterrupt
    BY <1>11 DEF PauseInterrupt
  <1>12. CASE PauseTake
    BY <1>12 DEF PauseTake
  <1>13. CASE PauseTimeout
    BY <1>13 DEF PauseTimeout
  <1>14. CASE ModifyProbe
    BY <1>14 DEF ModifyProbe
  <1>15. CASE QuiesceInterrupt
    BY <1>15 DEF QuiesceInterrupt
  <1>16. CASE QuiesceCollect
    <2>1. /\ frame' \in [packet : {None, "Z", "z"}, was : BOOLEAN, seen : BOOLEAN,
                         ok : BOOLEAN, tries : 0..2]
          /\ frame'.packet = frame.packet /\ frame'.tries = frame.tries
      BY <1>16 DEF QuiesceCollect
    <2> QED BY <1>16, <2>1 DEF QuiesceCollect
  <1>17. CASE QuiesceSilence
    BY <1>17 DEF QuiesceSilence
  <1>18. CASE QuiesceDrain
    BY <1>18 DEF QuiesceDrain
  <1>19. CASE QuiesceFence
    BY <1>19 DEF QuiesceFence
  <1>20. CASE ModifyDrain
    BY <1>20 DEF ModifyDrain
  <1>21. CASE ModifyPacket(TRUE) \/ ModifyPacket(FALSE)
    <2>1. PICK ok \in BOOLEAN : ModifyPacket(ok)
      BY <1>21
    <2>2. /\ frame' \in [packet : {None, "Z", "z"}, was : BOOLEAN, seen : BOOLEAN,
                         ok : BOOLEAN, tries : 0..2]
          /\ frame'.packet = frame.packet /\ frame'.tries = frame.tries
      BY <2>1 DEF ModifyPacket
    <2>3. armed' \subseteq Bp /\ glock' \in {"free", "tool", "watcher"}
      BY <2>1 DEF ModifyPacket
    <2> QED BY <2>1, <2>2, <2>3 DEF ModifyPacket, AfterModify
  <1>22. CASE ModifyDrainAgain
    BY <1>22 DEF ModifyDrainAgain
  <1>23. CASE ModifyResume
    BY <1>23 DEF ModifyResume, AfterModify
  <1>24. CASE Register
    BY <1>24 DEF Register, RegistryResized
  <1>25. CASE Unregister
    BY <1>25 DEF Unregister, Modify, RegistryResized
  <1>26. CASE UnregisterUnknown
    BY <1>26 DEF UnregisterUnknown
  <1>27. CASE UnknownId
    BY <1>27 DEF UnknownId
  <1>28. CASE CaptureOnHit
    BY <1>28 DEF CaptureOnHit
  <1>29. CASE CaptureResume
    BY <1>29 DEF CaptureResume
  <1>30. CASE StartWatcher
    <2>1. stopping' \in BOOLEAN
      BY <1>30 DEF StartWatcher
    <2>2. wp' \in WatcherLabels /\ UNCHANGED hit /\ (wp' = wp \/ wp' = "scan")
      BY <1>30 DEF StartWatcher
    <2>3. CallShape'
      BY <1>30, <2>2 DEF StartWatcher
    <2> QED BY <1>30, <2>1, <2>2, <2>3 DEF StartWatcher
  <1>31. CASE Sleep
    BY <1>31 DEF Sleep
  <1>32. CASE StopCapturing
    BY <1>32 DEF StopCapturing, AfterStop
  <1>33. CASE SignalWatcher
    BY <1>33 DEF SignalWatcher, Alive
  <1>34. CASE JoinWatcher
    BY <1>34 DEF JoinWatcher, AfterStop
  <1> QED
    BY <1>1, <1>2, <1>3, <1>4, <1>5, <1>6, <1>7, <1>8, <1>9, <1>10, <1>11, <1>12,
       <1>13, <1>14, <1>15, <1>16, <1>17, <1>18, <1>19, <1>20, <1>21, <1>22, <1>23,
       <1>24, <1>25, <1>26, <1>27, <1>28, <1>29, <1>30, <1>31, <1>32, <1>33, <1>34 DEF ToolWaits, ToolSteps

\* So does every step of the watcher.
LEMMA WatcherTypes ==
  ASSUME Threads, StreamTypeOK, buf \in 0..Len(stops), Watcher
  PROVE  Threads'
  <1> USE DEF Threads, CallShape, WatcherLabels, WatcherOwns, sessVars, watchVars,
              toolVars, Release
  <1>1. CASE WatcherScan
    BY <1>1 DEF WatcherScan
  <1>2. CASE WatcherExit
    BY <1>2 DEF WatcherExit
  <1>3. CASE WatcherAcquire
    BY <1>3 DEF WatcherAcquire
  <1>4. CASE WatcherStop
    <2>1. Head(stops) \in Cause
      BY <1>4, StreamLemma DEF WatcherStop
    <2> QED BY <1>4, <2>1 DEF WatcherStop, None
  <1>5. CASE WatcherTimeout
    BY <1>5 DEF WatcherTimeout
  <1>6. CASE WatcherMatch
    BY <1>6 DEF WatcherMatch
  <1>7. CASE WatcherSurface
    BY <1>7 DEF WatcherSurface
  <1>8. CASE WatcherCapture
    <2>1. hit \in [why : Cause, id : Bp]
      BY <1>8 DEF WatcherCapture
    <2> QED BY <1>8, <2>1 DEF WatcherCapture
  <1>9. CASE WatcherResume
    BY <1>9 DEF WatcherResume
  <1>10. CASE WatcherSleep
    BY <1>10 DEF WatcherSleep
  <1> QED BY <1>1, <1>2, <1>3, <1>4, <1>5, <1>6, <1>7, <1>8, <1>9, <1>10 DEF Watcher

\* Every step keeps the stream well formed.
LEMMA StreamTypes ==
  ASSUME StreamTypeOK, buf \in 0..Len(stops), CallShape, [Next]_vars
  PROVE  StreamTypeOK' /\ buf' \in 0..Len(stops')
  <1>1. CASE UNCHANGED vars
    BY <1>1, StreamLemma DEF vars
  <1>2. CASE \E t \in Tools : \E b \in Arg(t) : CallTool(t, b)
    BY <1>2, StreamLemma DEF CallTool
  <1>3. CASE ToolWaits
    BY <1>3, StreamLemma DEF ToolWaits, Acquire, ModifyBegin
  <1>4. CASE ToolSteps
    BY <1>4, StreamLemma DEF ToolSteps, Query, Resume, Step, WaitForStop, WaitTimeout, Mem,
         PauseProbe, PauseDrain, PauseInterrupt, PauseTake, PauseTimeout, ModifyProbe,
         QuiesceInterrupt, QuiesceCollect, QuiesceSilence, QuiesceDrain, QuiesceFence,
         ModifyDrain, ModifyPacket, ModifyDrainAgain, ModifyResume, Register, Unregister,
         UnregisterUnknown, UnknownId, CaptureOnHit, CaptureResume, StartWatcher, Sleep,
         StopCapturing, SignalWatcher, JoinWatcher
  <1>5. CASE WatcherSurface
    <2>1. hit.why \in Cause /\ buf + 1 \in 1..(Len(stops) + 1) /\ stops \in Seq(Cause)
      BY <1>5 DEF CallShape, WatcherSurface, StreamTypeOK
    <2>2. stops' \in Seq(Cause) /\ Len(stops') = Len(stops) + 1
      BY <1>5, <2>1, InsertLemma DEF WatcherSurface
    <2> QED BY <1>5, <2>1, <2>2 DEF WatcherSurface, StreamTypeOK
  <1>6. CASE Watcher /\ ~WatcherSurface
    BY <1>6, StreamLemma DEF Watcher, WatcherScan, WatcherExit, WatcherAcquire, WatcherStop,
         WatcherTimeout, WatcherMatch, WatcherCapture, WatcherResume, WatcherSleep
  <1>7. CASE Stub
    BY <1>7, StreamLemma DEF Stub, StubHit, StubInterrupt, StubDrop
  <1> QED BY <1>1, <1>2, <1>3, <1>4, <1>5, <1>6, <1>7 DEF Next

\* TypeOK and what makes it inductive hold in every execution.
LEMMA TypedAlways == Spec => []Typed
  <1>1. Init => Typed
    <2> SUFFICES ASSUME Init PROVE Typed
      OBVIOUS
    <2>1. StreamTypeOK /\ buf \in 0..Len(stops)
      BY EmptySeq DEF Init, StreamTypeOK
    <2>2. frame \in [packet : {None, "Z", "z"}, was : BOOLEAN, seen : BOOLEAN,
                     ok : BOOLEAN, tries : 0..2]
      BY DEF Init
    <2>3. stopping \in BOOLEAN
      BY DEF Init
    <2> QED BY <2>1, <2>2, <2>3 DEF Init, Typed, TypeOK, CallShape, ToolLabels,
               WatcherLabels, None, Creators, ById, ModifyLabels
  <1>2. Typed /\ [Next]_vars => Typed'
    <2> SUFFICES ASSUME Typed, [Next]_vars PROVE Typed'
      OBVIOUS
    <2>1. Threads /\ StreamTypeOK /\ buf \in 0..Len(stops) /\ CallShape
      BY DEF Typed, TypeOK, Threads
    <2>2. StreamTypeOK' /\ buf' \in 0..Len(stops')
      BY <2>1, StreamTypes
    <2>3. ASSUME ToolWaits \/ ToolSteps PROVE Threads'
      BY <2>1, <2>3, ToolTypes
    <2>4. ASSUME Watcher PROVE Threads'
      BY <2>1, <2>4, WatcherTypes
    <2>5. ASSUME \E t \in Tools : \E b \in Arg(t) : CallTool(t, b) PROVE Threads'
      BY <2>1, <2>5, ToolsAssumption DEF Threads, CallShape, CallTool, Arg, Entry, Modify,
           sessVars, watchVars, AllTools, Foreground, Creators, ById, ToolLabels, None,
           LockedLabels, UnlockedLabels, Locked, ModifyLabels
    <2>6. ASSUME Stub \/ UNCHANGED vars PROVE Threads'
      BY <2>1, <2>6 DEF Threads, CallShape, Stub, StubHit, StubInterrupt, StubDrop, vars,
           sessVars, watchVars, toolVars
    <2>7. Threads'
      BY <2>3, <2>4, <2>5, <2>6 DEF Next
    <2> QED BY <2>2, <2>7 DEF Typed, TypeOK, Threads
  <1> QED BY <1>1, <1>2, PTL DEF Spec

\* The variables of tool thread, watcher and stub hold what they are meant to,
\* whatever tools are called and whatever the stub does.
THEOREM TypeCorrect == Spec => []TypeOK
  <1>1. Typed => TypeOK
    BY DEF Typed
  <1> QED BY <1>1, TypedAlways, PTL

-----------------------------------------------------------------------------
(* The lock                                                                *)

\* gdb_lock belongs to the thread that is between its acquire and its release.
LockInv == /\ glock = "tool" <=> tp \in LockedLabels
           /\ glock = "watcher" <=> wp \in WatcherOwns

\* Which tools touch the stub without the lock: read_mem and write_mem through
\* the stub, and the resume of capture_on_hit.
Unlocked == /\ tp \in {"mark", "u_resume"} => call.tool \in {"capture", "capture_only", "trace"}
            /\ tp = "u_resume" => call.tool # "capture_only"
            /\ tp = "mem" => call.tool = "mem"

\* A step of the tool thread takes and releases the lock as the with blocks say.
LEMMA ToolLocks ==
  ASSUME Threads, LockInv, Unlocked, ToolWaits \/ ToolSteps
  PROVE  LockInv' /\ Unlocked'
  <1> USE DEF Threads, LockInv, Unlocked, LockedLabels, UnlockedLabels, ToolLabels, Locked,
              WatcherOwns, WatcherLabels, watchVars, Goto, Return, Release
  <1>1. CASE Acquire
    BY <1>1 DEF Acquire
  <1>2. CASE ModifyBegin
    BY <1>2 DEF ModifyBegin
  <1>3. CASE Query
    BY <1>3 DEF Query
  <1>4. CASE Resume
    BY <1>4 DEF Resume, AfterResume
  <1>5. CASE Step
    BY <1>5 DEF Step
  <1>6. CASE WaitForStop
    BY <1>6 DEF WaitForStop, AfterWait
  <1>7. CASE WaitTimeout
    BY <1>7 DEF WaitTimeout, AfterWait
  <1>8. CASE Mem
    BY <1>8 DEF Mem
  <1>9. CASE PauseProbe
    BY <1>9 DEF PauseProbe
  <1>10. CASE PauseDrain
    BY <1>10 DEF PauseDrain
  <1>11. CASE PauseInterrupt
    BY <1>11 DEF PauseInterrupt
  <1>12. CASE PauseTake
    BY <1>12 DEF PauseTake
  <1>13. CASE PauseTimeout
    BY <1>13 DEF PauseTimeout
  <1>14. CASE ModifyProbe
    BY <1>14 DEF ModifyProbe
  <1>15. CASE QuiesceInterrupt
    BY <1>15 DEF QuiesceInterrupt
  <1>16. CASE QuiesceCollect
    BY <1>16 DEF QuiesceCollect
  <1>17. CASE QuiesceSilence
    BY <1>17 DEF QuiesceSilence
  <1>18. CASE QuiesceDrain
    BY <1>18 DEF QuiesceDrain
  <1>19. CASE QuiesceFence
    BY <1>19 DEF QuiesceFence
  <1>20. CASE ModifyDrain
    BY <1>20 DEF ModifyDrain
  <1>21. CASE ModifyDrainAgain
    BY <1>21 DEF ModifyDrainAgain
  <1>22. CASE ModifyResume
    BY <1>22 DEF ModifyResume, AfterModify
  <1>23. CASE Register
    BY <1>23 DEF Register, RegistryResized, Iterating
  <1>24. CASE Unregister
    BY <1>24 DEF Unregister, RegistryResized, Iterating
  <1>25. CASE UnregisterUnknown
    BY <1>25 DEF UnregisterUnknown
  <1>26. CASE UnknownId
    BY <1>26 DEF UnknownId
  <1>27. CASE CaptureOnHit
    BY <1>27 DEF CaptureOnHit
  <1>28. CASE CaptureResume
    BY <1>28 DEF CaptureResume
  <1>29. CASE StartWatcher
    BY <1>29 DEF StartWatcher, Alive
  <1>30. CASE Sleep
    BY <1>30 DEF Sleep
  <1>31. CASE StopCapturing
    BY <1>31 DEF StopCapturing, AfterStop
  <1>32. CASE SignalWatcher
    BY <1>32 DEF SignalWatcher
  <1>33. CASE JoinWatcher
    BY <1>33 DEF JoinWatcher, AfterStop
  <1>34. CASE ModifyPacket(TRUE) \/ ModifyPacket(FALSE)
    BY <1>34 DEF ModifyPacket, AfterModify
  <1> QED
    BY <1>1, <1>2, <1>3, <1>4, <1>5, <1>6, <1>7, <1>8, <1>9, <1>10, <1>11, <1>12,
       <1>13, <1>14, <1>15, <1>16, <1>17, <1>18, <1>19, <1>20, <1>21, <1>22, <1>23,
       <1>24, <1>25, <1>26, <1>27, <1>28, <1>29, <1>30, <1>31, <1>32, <1>33, <1>34 DEF ToolWaits, ToolSteps

\* So does a step of the watcher.
LEMMA WatcherLocks ==
  ASSUME Threads, LockInv, Unlocked, Watcher
  PROVE  LockInv' /\ Unlocked'
  BY DEF Threads, LockInv, Unlocked, LockedLabels, UnlockedLabels, ToolLabels, Locked,
         WatcherOwns, WatcherLabels, toolVars, Release, Watcher, WatcherScan, WatcherExit,
         WatcherAcquire, WatcherStop, WatcherTimeout, WatcherMatch, WatcherSurface,
         WatcherCapture, WatcherResume, WatcherSleep

\* The lock is held as LockInv says, in every execution.
LEMMA LockIsHeld == Spec => [](LockInv /\ Unlocked)
  <1>1. Init => LockInv /\ Unlocked
    BY DEF Init, LockInv, Unlocked, LockedLabels, WatcherOwns
  <1>2. Typed /\ LockInv /\ Unlocked /\ [Next]_vars => (LockInv /\ Unlocked)'
    <2> SUFFICES ASSUME Typed, LockInv, Unlocked, [Next]_vars PROVE LockInv' /\ Unlocked'
      OBVIOUS
    <2>1. Threads
      BY DEF Typed, TypeOK, Threads
    <2>2. CASE ToolWaits \/ ToolSteps
      BY <2>1, <2>2, ToolLocks
    <2>3. CASE Watcher
      BY <2>1, <2>3, WatcherLocks
    <2>4. CASE \E t \in Tools : \E b \in Arg(t) : CallTool(t, b)
      BY <2>1, <2>4, ToolsAssumption DEF Threads, LockInv, Unlocked, CallTool, Entry,
         watchVars, AllTools, Foreground, LockedLabels, ToolLabels
    <2>5. CASE Stub \/ UNCHANGED vars
      BY <2>5 DEF LockInv, Unlocked, Stub, StubHit, StubInterrupt, StubDrop, vars, watchVars,
         toolVars
    <2> QED BY <2>2, <2>3, <2>4, <2>5 DEF Next
  <1> QED BY <1>1, <1>2, TypedAlways, PTL DEF Spec

\* When both threads are in a call of the stub, the tool thread is in one of the
\* two calls made without the lock.
THEOREM OnlyUnlockedCallsCollide ==
  Spec => [](ToolOnSocket /\ WatcherOnSocket => tp \in UnlockedLabels)
  <1>1. LockInv => (ToolOnSocket /\ WatcherOnSocket => tp \in UnlockedLabels)
    BY DEF LockInv, ToolOnSocket, WatcherOnSocket
  <1> QED BY <1>1, LockIsHeld, PTL

\* Without those tools, tool thread and watcher are never both in a call.
THEOREM LockExcludes ==
  ASSUME Tools \cap {"mem", "capture", "trace"} = {}
  PROVE  Spec => []SocketExclusive
  <1>1. Typed /\ LockInv /\ Unlocked => SocketExclusive
    BY DEF Typed, TypeOK, LockInv, Unlocked, SocketExclusive, ToolOnSocket, WatcherOnSocket,
           UnlockedLabels, None
  <1> QED BY <1>1, TypedAlways, LockIsHeld, PTL

-----------------------------------------------------------------------------
(* The registry                                                            *)

BeforePacket == {"acq_modify", "m_probe", "m_intr", "m_collect", "m_drain", "m_fence",
                 "m_drain2", "modify"}

\* the breakpoint the stub has set but the tool has not registered yet, and the
\* one it has unregistered but the stub has not yet removed
Landing == {b \in {call.arg} : \/ tp = "register"
                               \/ /\ tp \in {"m_drain3", "m_resume"}
                                  /\ frame.packet = "Z" /\ frame.ok}
Leaving == {b \in {call.arg} : tp \in BeforePacket /\ frame.packet = "z"}

\* RegistryMatchesStub is about idle moments; in between the two sides differ by
\* exactly the breakpoint on its way.
RegInv == /\ bps \cup Landing \subseteq armed
          /\ tp \in ModifyLabels /\ frame.packet = "z" => call.arg \notin bps
          /\ tp \in {"acq_query", "query"} => frame.packet = "Z"
          /\ ~MayReject => /\ armed = bps \cup Landing \cup Leaving
                           /\ tp \in {"m_drain3", "m_resume"} => frame.ok

\* The packet itself: Z adds the breakpoint to the stub's, z takes it out, and
\* a refusal leaves them alone.
LEMMA PacketKeepsRegistry ==
  ASSUME Threads, RegInv, NEW ok \in BOOLEAN, ModifyPacket(ok), ok \/ MayReject
  PROVE  RegInv'
  <1> USE DEF Threads, sessVars, Goto, Return
  <1>1. /\ tp = "modify" /\ frame'.ok = ok /\ frame'.packet = frame.packet
        /\ UNCHANGED <<bps, call>> /\ frame.packet \in {"Z", "z"}
        /\ bps \subseteq armed
    <2>1. frame' = [frame EXCEPT !.ok = ok] /\ UNCHANGED bps /\ tp = "modify"
      BY DEF ModifyPacket
    <2>2. UNCHANGED call
      BY DEF ModifyPacket, AfterModify
    <2>3. frame'.ok = ok /\ frame'.packet = frame.packet
      BY <2>1
    <2>4. frame.packet \in {"Z", "z"}
      BY <2>1 DEF CallShape, None
    <2> QED BY <2>1, <2>2, <2>3, <2>4 DEF RegInv
  <1>2. CASE frame.packet = "Z"
    <2>1. Leaving = {} /\ Landing = {} /\ Leaving' = {}
      BY <1>1, <1>2 DEF Leaving, Landing, BeforePacket
    <2>2. CASE ok
      <3>1. armed' = armed \cup {call.arg} /\ tp' \in {"m_drain3", "register"}
        BY <1>1, <1>2, <2>2 DEF ModifyPacket, AfterModify
      <3>2. Landing' = {call.arg}
        BY <1>1, <1>2, <2>2, <3>1 DEF Landing
      <3> QED BY <1>1, <1>2, <2>1, <2>2, <3>1, <3>2 DEF RegInv, ModifyLabels
    <2>3. CASE ~ok
      <3>1. armed' = armed /\ tp' \in {"m_drain3", "idle"}
        <4>1. armed' = armed
          BY <2>3 DEF ModifyPacket
        <4>2. tp' \in {"m_drain3", "idle"}
          BY <1>2, <2>3 DEF ModifyPacket, AfterModify
        <4> QED BY <4>1, <4>2
      <3>2. Landing' = {}
        BY <1>1, <1>2, <2>3, <3>1 DEF Landing
      <3> QED BY <1>1, <1>2, <2>1, <2>3, <3>1, <3>2 DEF RegInv, ModifyLabels
    <2> QED BY <2>2, <2>3
  <1>3. CASE frame.packet = "z"
    <2>1. Leaving = {call.arg} /\ Landing = {} /\ tp' \in {"m_drain3", "idle"}
      BY <1>1, <1>3 DEF Leaving, Landing, BeforePacket, ModifyPacket, AfterModify
    <2>2. Leaving' = {} /\ Landing' = {}
      BY <1>1, <1>3, <2>1 DEF Leaving, Landing, BeforePacket
    <2>3. armed' = IF ok THEN armed \ {call.arg} ELSE armed
      BY <1>1, <1>3 DEF ModifyPacket
    <2> QED BY <1>1, <1>3, <2>1, <2>2, <2>3 DEF RegInv, ModifyLabels
  <1> QED BY <1>1, <1>2, <1>3

\* Every other step of the tool thread keeps the account of the two sides.
LEMMA ToolRegistry ==
  ASSUME Threads, RegInv, ToolWaits \/ ToolSteps
  PROVE  RegInv'
  <1> USE DEF Threads, CallShape, RegInv, Landing, Leaving, BeforePacket, ModifyLabels, None,
              Locked, sessVars, Goto, Return
  <1>1. CASE Acquire
    BY <1>1 DEF Acquire
  <1>2. CASE ModifyBegin
    BY <1>2 DEF ModifyBegin
  <1>3. CASE Query
    BY <1>3 DEF Query
  <1>4. CASE Resume
    BY <1>4 DEF Resume, AfterResume
  <1>5. CASE Step
    BY <1>5 DEF Step
  <1>6. CASE WaitForStop
    BY <1>6 DEF WaitForStop, AfterWait
  <1>7. CASE WaitTimeout
    BY <1>7 DEF WaitTimeout, AfterWait
  <1>8. CASE Mem
    BY <1>8 DEF Mem
  <1>9. CASE PauseProbe
    BY <1>9 DEF PauseProbe
  <1>10. CASE PauseDrain
    BY <1>10 DEF PauseDrain
  <1>11. CASE PauseInterrupt
    BY <1>11 DEF PauseInterrupt
  <1>12. CASE PauseTake
    BY <1>12 DEF PauseTake
  <1>13. CASE PauseTimeout
    BY <1>13 DEF PauseTimeout
  <1>14. CASE ModifyProbe
    BY <1>14 DEF ModifyProbe
  <1>15. CASE QuiesceInterrupt
    BY <1>15 DEF QuiesceInterrupt
  <1>16. CASE QuiesceCollect
    BY <1>16 DEF QuiesceCollect
  <1>17. CASE QuiesceSilence
    BY <1>17 DEF QuiesceSilence
  <1>18. CASE QuiesceDrain
    BY <1>18 DEF QuiesceDrain
  <1>19. CASE QuiesceFence
    BY <1>19 DEF QuiesceFence
  <1>20. CASE ModifyDrain
    BY <1>20 DEF ModifyDrain
  <1>21. CASE ModifyDrainAgain
    BY <1>21 DEF ModifyDrainAgain
  <1>22. CASE ModifyResume
    BY <1>22 DEF ModifyResume, AfterModify
  <1>23. CASE Register
    BY <1>23 DEF Register, RegistryResized
  <1>24. CASE Unregister
    BY <1>24 DEF Unregister, RegistryResized, Modify
  <1>25. CASE UnregisterUnknown
    BY <1>25 DEF UnregisterUnknown
  <1>26. CASE UnknownId
    BY <1>26 DEF UnknownId
  <1>27. CASE CaptureOnHit
    BY <1>27 DEF CaptureOnHit
  <1>28. CASE CaptureResume
    BY <1>28 DEF CaptureResume
  <1>29. CASE StartWatcher
    BY <1>29 DEF StartWatcher
  <1>30. CASE Sleep
    BY <1>30 DEF Sleep
  <1>31. CASE StopCapturing
    BY <1>31 DEF StopCapturing, AfterStop
  <1>32. CASE SignalWatcher
    BY <1>32 DEF SignalWatcher
  <1>33. CASE JoinWatcher
    BY <1>33 DEF JoinWatcher, AfterStop
  <1>34. CASE ModifyPacket(TRUE)
    BY <1>34, PacketKeepsRegistry
  <1>35. CASE MayReject /\ ModifyPacket(FALSE)
    BY <1>35, PacketKeepsRegistry
  <1> QED
    BY <1>1, <1>2, <1>3, <1>4, <1>5, <1>6, <1>7, <1>8, <1>9, <1>10, <1>11, <1>12,
       <1>13, <1>14, <1>15, <1>16, <1>17, <1>18, <1>19, <1>20, <1>21, <1>22, <1>23,
       <1>24, <1>25, <1>26, <1>27, <1>28, <1>29, <1>30, <1>31, <1>32, <1>33, <1>34,
       <1>35
    DEF ToolWaits, ToolSteps

\* The account balances in every execution.
LEMMA RegistryBalances == Spec => []RegInv
  <1>1. Init => RegInv
    BY DEF Init, RegInv, Landing, Leaving, BeforePacket, ModifyLabels
  <1>2. Typed /\ RegInv /\ [Next]_vars => RegInv'
    <2> SUFFICES ASSUME Typed, RegInv, [Next]_vars PROVE RegInv'
      OBVIOUS
    <2>1. Threads
      BY DEF Typed, TypeOK, Threads
    <2>2. CASE ToolWaits \/ ToolSteps
      BY <2>1, <2>2, ToolRegistry
    <2>3. CASE Watcher
      <3>1. UNCHANGED <<armed, bps, tp, call, frame>>
        BY <2>3 DEF Watcher, WatcherScan, WatcherExit, WatcherAcquire, WatcherStop,
           WatcherTimeout, WatcherMatch, WatcherSurface, WatcherCapture, WatcherResume,
           WatcherSleep, toolVars, sessVars
      <3> QED BY <3>1 DEF RegInv, Landing, Leaving
    <2>4. CASE \E t \in Tools : \E b \in Arg(t) : CallTool(t, b)
      <3>1. UNCHANGED <<armed, bps>> /\ tp = "idle" /\ frame'.packet = "Z"
            /\ tp' \notin {"register", "m_drain3", "m_resume"}
        BY <2>4, ToolsAssumption DEF CallTool, Entry, Modify, sessVars, AllTools, Foreground
      <3> QED BY <3>1 DEF RegInv, Landing, Leaving, BeforePacket
    <2>5. CASE Stub \/ UNCHANGED vars
      <3>1. UNCHANGED <<armed, bps, tp, call, frame>>
        BY <2>5 DEF Stub, StubHit, StubInterrupt, StubDrop, vars, toolVars, sessVars
      <3> QED BY <3>1 DEF RegInv, Landing, Leaving
    <2> QED BY <2>2, <2>3, <2>4, <2>5 DEF Next
  <1> QED BY <1>1, <1>2, TypedAlways, PTL DEF Spec

\* The registry lists what the stub has set, whatever is called and refused; and
\* nothing else is set there while no tool is running and nothing is refused.
THEOREM RegistryIsTheStubs == Spec => []RegistryMatchesStub
  <1>1. RegInv => RegistryMatchesStub
    BY DEF RegInv, RegistryMatchesStub, Landing, Leaving, BeforePacket
  <1> QED BY <1>1, RegistryBalances, PTL

-----------------------------------------------------------------------------
(* Traces                                                                  *)

TraceLabels == ModifyLabels \cup {"register", "mark", "u_resume", "start", "sleep", "unmark",
                                  "signal", "join", "unregister", "idle"}

\* A trace has its breakpoint registered until it takes it down; by then the
\* capture is ended, and the watcher with it when nothing else is captured.
TraceInv ==
  call.tool = "trace" =>
    /\ tp \in TraceLabels
    /\ tp \in {"mark", "u_resume", "start", "sleep", "unmark", "signal", "join",
              "unregister"} => call.arg \in bps
    /\ tp = "idle" => call.arg \notin bps
    /\ tp \in {"signal", "join"} => call.arg \notin auto
    /\ tp \in {"unregister", "idle"} \/ (tp \in ModifyLabels /\ frame.packet = "z")
         => call.arg \notin auto /\ (auto = {} => ~Alive)

\* The tool thread keeps it, as long as the stub refuses nothing.
LEMMA ToolTraces ==
  ASSUME Threads, RegInv, TraceInv, ~MayReject, ToolWaits \/ ToolSteps
  PROVE  TraceInv'
  <1> SUFFICES ASSUME call'.tool = "trace" PROVE TraceInv'
    BY DEF TraceInv
  <1> USE DEF Threads, TraceInv, TraceLabels, ModifyLabels, Alive, sessVars, watchVars, Goto,
              Return
  <1>1. UNCHANGED call /\ call.tool = "trace" /\ tp \in TraceLabels
    BY DEF ToolWaits, ToolSteps, Acquire, ModifyBegin, Query, Resume, Step, WaitForStop,
       WaitTimeout, AfterWait, Mem, PauseProbe, PauseDrain, PauseInterrupt, PauseTake,
       PauseTimeout, ModifyProbe, QuiesceInterrupt, QuiesceCollect, QuiesceSilence,
       QuiesceDrain, QuiesceFence, ModifyDrain, ModifyPacket, AfterModify, ModifyDrainAgain,
       ModifyResume, Register, Unregister, UnregisterUnknown, UnknownId, CaptureOnHit,
       CaptureResume, StartWatcher, Sleep, StopCapturing, SignalWatcher, JoinWatcher
  <1>2. CASE \/ Acquire \/ Query \/ Resume \/ Step \/ WaitForStop \/ WaitTimeout \/ Mem
             \/ PauseProbe \/ PauseDrain \/ PauseInterrupt \/ PauseTake \/ PauseTimeout
    BY <1>1, <1>2 DEF Acquire, Locked, Query, Resume, Step, WaitForStop, WaitTimeout, Mem,
       PauseProbe, PauseDrain, PauseInterrupt, PauseTake, PauseTimeout
  <1>3. CASE \/ ModifyBegin \/ ModifyProbe \/ QuiesceInterrupt \/ QuiesceCollect
             \/ QuiesceSilence \/ QuiesceDrain \/ QuiesceFence \/ ModifyDrain
             \/ ModifyDrainAgain
    <2>1. /\ UNCHANGED <<bps, auto, wp>> /\ frame'.packet = frame.packet
          /\ tp \in ModifyLabels /\ tp' \in ModifyLabels
      BY <1>3 DEF ModifyBegin, ModifyProbe, QuiesceInterrupt, QuiesceCollect, QuiesceSilence,
         QuiesceDrain, QuiesceFence, ModifyDrain, ModifyDrainAgain
    <2> QED BY <1>1, <2>1
  <1>4. CASE ModifyPacket(TRUE)
    <2>1. /\ UNCHANGED <<bps, auto, wp>> /\ frame'.packet = frame.packet /\ tp = "modify"
          /\ frame.packet \in {"Z", "z"}
      BY <1>4 DEF ModifyPacket, CallShape, None
    <2>2. frame.packet = "Z" => tp' \in {"m_drain3", "register"}
      BY <1>4 DEF ModifyPacket, AfterModify
    <2>3. frame.packet = "z" => tp' \in {"m_drain3", "idle"} /\ call.arg \notin bps
      BY <1>4, <2>1 DEF ModifyPacket, AfterModify, RegInv
    <2> QED BY <1>1, <2>1, <2>2, <2>3
  <1>5. CASE ModifyResume
    <2>1. /\ UNCHANGED <<bps, auto, wp, frame>> /\ tp = "m_resume" /\ frame.ok
          /\ frame.packet \in {"Z", "z"}
      BY <1>5 DEF ModifyResume, CallShape, None, RegInv
    <2>2. frame.packet = "Z" => tp' = "register"
      BY <1>5, <2>1 DEF ModifyResume, AfterModify
    <2>3. frame.packet = "z" => tp' = "idle" /\ call.arg \notin bps
      BY <1>5, <2>1 DEF ModifyResume, AfterModify, RegInv
    <2> QED BY <1>1, <2>1, <2>2, <2>3
  <1>6. CASE Register
    BY <1>1, <1>6 DEF Register
  <1>7. CASE Unregister
    BY <1>1, <1>7 DEF Unregister, Modify, RegistryResized, Iterating
  <1>8. CASE UnregisterUnknown \/ UnknownId
    BY <1>1, <1>8 DEF UnregisterUnknown, UnknownId
  <1>9. CASE CaptureOnHit \/ CaptureResume \/ StartWatcher \/ Sleep
    BY <1>1, <1>9 DEF CaptureOnHit, CaptureResume, StartWatcher, Sleep
  <1>10. CASE StopCapturing
    BY <1>1, <1>10 DEF StopCapturing, AfterStop
  <1>11. CASE SignalWatcher \/ JoinWatcher
    BY <1>1, <1>11 DEF SignalWatcher, JoinWatcher, AfterStop
  <1> QED BY <1>2, <1>3, <1>4, <1>5, <1>6, <1>7, <1>8, <1>9, <1>10, <1>11
          DEF ToolWaits, ToolSteps

\* As long as the stub refuses nothing, a trace of any length next to any other
\* captures leaves neither breakpoint nor capture behind, and no idle watcher.
THEOREM TraceCleansUp ==
  ASSUME ~MayReject
  PROVE  Spec => []TraceLeavesNothing
  <1>1. Init => TraceInv
    BY DEF Init, TraceInv, None
  <1>2. Typed /\ RegInv /\ TraceInv /\ [Next]_vars => TraceInv'
    <2> SUFFICES ASSUME Typed, RegInv, TraceInv, [Next]_vars PROVE TraceInv'
      OBVIOUS
    <2>1. Threads
      BY DEF Typed, TypeOK, Threads
    <2>2. CASE ToolWaits \/ ToolSteps
      BY <2>1, <2>2, ToolTraces
    <2>3. CASE Watcher
      <3>1. UNCHANGED <<bps, auto, tp, call, frame>> /\ Alive
        BY <2>3 DEF Watcher, WatcherScan, WatcherExit, WatcherAcquire, WatcherStop, Alive,
           WatcherTimeout, WatcherMatch, WatcherSurface, WatcherCapture, WatcherResume,
           WatcherSleep, toolVars, sessVars
      <3> QED BY <3>1 DEF TraceInv
    <2>4. CASE \E t \in Tools : \E b \in Arg(t) : CallTool(t, b)
      <3>1. PICK t \in Tools : \E b \in Arg(t) : CallTool(t, b)
        BY <2>4
      <3>2. call'.tool = t /\ (t = "trace" => tp' = "acq_modify" /\ frame'.packet = "Z")
        BY <3>1 DEF CallTool, Foreground, Entry, Modify
      <3> QED BY <3>2 DEF TraceInv, TraceLabels, ModifyLabels
    <2>5. CASE Stub \/ UNCHANGED vars
      <3>1. UNCHANGED <<bps, auto, tp, call, frame, wp>>
        BY <2>5 DEF Stub, StubHit, StubInterrupt, StubDrop, vars, toolVars, sessVars, watchVars
      <3> QED BY <3>1 DEF TraceInv, Alive
    <2> QED BY <2>2, <2>3, <2>4, <2>5 DEF Next
  <1>3. RegInv /\ TraceInv => TraceLeavesNothing
    BY DEF RegInv, TraceInv, TraceLeavesNothing, Landing, Leaving, BeforePacket
  <1> QED BY <1>1, <1>2, <1>3, TypedAlways, RegistryBalances, PTL DEF Spec

-----------------------------------------------------------------------------
(* Session state and CPU                                                   *)

\* The tools that neither interrupt the target to pause it, step it, nor start
\* the watcher.
Simple == {"get", "health", "mem", "resume", "wait", "add", "remove", "run_until", "stop",
           "stop_all"}
SimpleLabels == ModifyLabels \cup {"idle", "acq_query", "query", "mem", "acq_resume", "resume",
                                   "acq_wait", "wait", "register", "unregister", "unmark",
                                   "signal", "join"}
Quiescing == {"m_collect", "m_drain", "m_fence", "m_drain2"}

\* Outside the quiescing, a session in CONNECTED_PAUSED has a halted CPU and no
\* stop is unread; one in CONNECTED_RUNNING has a running CPU, or a halted one
\* whose stop is the only one unread.
Settled == /\ intr = 0
           /\ state = "paused" => cpu = "halted" /\ stops = <<>>
           /\ state = "running" => \/ cpu = "running" /\ stops = <<>>
                                   \/ cpu = "halted" /\ Len(stops) = 1

\* During it the CPU is halted as soon as a stop is seen or the interrupt is
\* served, and stays so.
Halting == /\ intr \in {0, 1}
           /\ tp = "m_collect" => (frame.seen \/ intr = 0 \/ stops # <<>> => cpu = "halted")
           /\ tp # "m_collect" => cpu = "halted"
           /\ tp = "m_drain2" => intr = 0

SimpleInv ==
  /\ call.tool \in Simple \cup {None} /\ wp = "off" /\ tp \in SimpleLabels
  /\ tp \in {"acq_resume", "resume", "m_drain2", "modify", "m_drain3", "m_resume"}
       => state = "paused"
  /\ tp \in {"acq_wait", "wait", "m_probe", "m_intr", "m_collect", "m_drain", "m_fence"}
       => state = "running"
  /\ tp \in {"m_probe", "m_intr"} => ~frame.seen
  /\ IF tp \in Quiescing THEN Halting ELSE Settled

\* The tool thread keeps session state and CPU together.
LEMMA SimpleTools ==
  ASSUME Threads, StreamTypeOK, SimpleInv, ToolWaits \/ ToolSteps
  PROVE  SimpleInv'
  <1> USE DEF Threads, StreamTypeOK, SimpleInv, Simple, SimpleLabels, ModifyLabels, Quiescing, Settled,
              Halting, None, Alive, sessVars, watchVars, streamVars, Goto, Return
  <1>0. ASSUME TakeOne
        PROVE  stops # <<>> /\ (Len(stops) = 1 => stops' = <<>>) /\ UNCHANGED <<cpu, intr>>
    <2>1. 1 \in 1..Len(stops) /\ stops' = SubSeq(stops, 2, Len(stops)) /\ UNCHANGED <<cpu, intr>>
      BY <1>0 DEF TakeOne, Take
    <2>2. stops # <<>> /\ Len(stops) \in Nat
      BY <2>1, LenProperties
    <2>3. ASSUME Len(stops) = 1 PROVE stops' = <<>>
      <3>1. SubSeq(stops, 2, 1) = <<>>
        BY SubSeqProperties
      <3> QED BY <2>1, <2>3, <3>1
    <2> QED BY <2>1, <2>2, <2>3
  <1>1. CASE Acquire
    BY <1>1 DEF Acquire, Locked
  <1>2. CASE ModifyBegin
    BY <1>2 DEF ModifyBegin
  <1>3. CASE Query
    BY <1>3 DEF Query, Command, RoundTrip
  <1>4. CASE Resume
    <2>1. cpu' = "running" /\ stops = <<>> /\ UNCHANGED <<intr, stops>> /\ state' = "running"
      BY <1>4 DEF Resume, ContinueAsync, Continue
    <2>2. tp' \in {"idle", "acq_wait"} /\ UNCHANGED <<call, frame, wp>> /\ intr = 0
      BY <1>4 DEF Resume, AfterResume
    <2>3. Settled'
      BY <2>1, <2>2 DEF Settled
    <2> QED BY <2>1, <2>2, <2>3
  <1>5. CASE WaitForStop
    BY <1>5, <1>0 DEF WaitForStop, AfterWait
  <1>6. CASE WaitTimeout
    BY <1>6 DEF WaitTimeout, AfterWait
  <1>7. CASE Mem
    BY <1>7 DEF Mem, Command, RoundTrip
  <1>8. CASE ModifyProbe
    BY <1>8 DEF ModifyProbe, Command, RoundTrip
  <1>9. CASE QuiesceInterrupt
    BY <1>9 DEF QuiesceInterrupt, Interrupt
  <1>10. CASE QuiesceCollect
    BY <1>10, <1>0 DEF QuiesceCollect
  <1>11. CASE QuiesceSilence
    BY <1>11 DEF QuiesceSilence
  <1>12. CASE QuiesceDrain
    BY <1>12 DEF QuiesceDrain, DrainAll
  <1>13. CASE QuiesceFence
    BY <1>13 DEF QuiesceFence, Command, RoundTrip
  <1>14. CASE ModifyDrain
    BY <1>14 DEF ModifyDrain, DrainAll
  <1>15. CASE ModifyDrainAgain
    BY <1>15 DEF ModifyDrainAgain, DrainAll
  <1>16. CASE ModifyResume
    <2>1. cpu' = "running" /\ stops = <<>> /\ UNCHANGED <<intr, stops>> /\ state' = "running"
      BY <1>16 DEF ModifyResume, ContinueAsync, Continue
    <2>2. tp' \in {"idle", "register"} /\ UNCHANGED <<call, frame, wp>> /\ intr = 0
      BY <1>16 DEF ModifyResume, AfterModify
    <2>3. Settled'
      BY <2>1, <2>2 DEF Settled
    <2> QED BY <2>2, <2>3
  <1>17. CASE Register
    BY <1>17 DEF Register, RegistryResized, Iterating
  <1>18. CASE Unregister
    BY <1>18 DEF Unregister, RegistryResized, Iterating, Modify
  <1>19. CASE UnregisterUnknown
    BY <1>19 DEF UnregisterUnknown
  <1>20. CASE UnknownId
    BY <1>20 DEF UnknownId
  <1>21. CASE StopCapturing
    BY <1>21 DEF StopCapturing, AfterStop
  <1>22. CASE SignalWatcher
    BY <1>22 DEF SignalWatcher
  <1>23. CASE JoinWatcher
    BY <1>23 DEF JoinWatcher, AfterStop
  <1>24. CASE ModifyPacket(TRUE) \/ ModifyPacket(FALSE)
    BY <1>24 DEF ModifyPacket, AfterModify, Command, RoundTrip
  <1>25. CASE \/ Step \/ PauseProbe \/ PauseDrain \/ PauseInterrupt \/ PauseTake \/ PauseTimeout
             \/ CaptureOnHit \/ CaptureResume \/ StartWatcher \/ Sleep
    BY <1>25 DEF Step, PauseProbe, PauseDrain, PauseInterrupt, PauseTake, PauseTimeout,
       CaptureOnHit, CaptureResume, StartWatcher, Sleep
  <1> QED
    BY <1>1, <1>2, <1>3, <1>4, <1>5, <1>6, <1>7, <1>8, <1>9, <1>10, <1>11, <1>12,
       <1>13, <1>14, <1>15, <1>16, <1>17, <1>18, <1>19, <1>20, <1>21, <1>22, <1>23,
       <1>24, <1>25
    DEF ToolWaits, ToolSteps

\* So does the stub, at whatever moment it halts the CPU.
LEMMA SimpleStub ==
  ASSUME StreamTypeOK, SimpleInv, Stub, MayDrop = FALSE
  PROVE  SimpleInv'
  <1> USE DEF StreamTypeOK, SimpleInv, Settled, Halting, sessVars, toolVars, watchVars, Quiescing
  <1>1. ASSUME NEW c \in Cause, stops' = Append(stops, c)
        PROVE  stops' # <<>> /\ Len(stops') = Len(stops) + 1 /\ Len(stops) \in Nat
    BY <1>1, AppendProperties, LenProperties
  <1>2. ASSUME NEW b \in Bp, StubHit(b) PROVE SimpleInv'
    <2>1. /\ cpu = "running" /\ cpu' = "halted" /\ stops' = Append(stops, b) /\ b \in Cause
          /\ UNCHANGED <<intr, tp, call, frame, state, wp>>
      BY <1>2 DEF StubHit, Hit, Cause
    <2> QED BY <2>1, <1>1
  <1>3. CASE StubInterrupt
    <2>1. /\ intr > 0 /\ intr' = intr - 1 /\ cpu' = "halted" /\ stops' = Append(stops, "int")
          /\ UNCHANGED <<tp, call, frame, state, wp>> /\ "int" \in Cause
      BY <1>3 DEF StubInterrupt, ServeInterrupt, Cause
    <2> QED BY <2>1, <1>1
  <1> QED BY <1>2, <1>3 DEF Stub, StubDrop

\* With these tools, any number of breakpoints and any hits and refusals, the
\* session knows when the CPU is halted, no halt goes unannounced and Z and z
\* are only sent to a quiet stub.
THEOREM SessionIsHonest ==
  ASSUME Tools \subseteq Simple, MayDrop = FALSE
  PROVE  Spec => [](PausedMeansHalted /\ HaltIsAnnounced /\ QuiescedForModify)
  <1>1. Init => SimpleInv
    <2> SUFFICES ASSUME Init PROVE SimpleInv
      OBVIOUS
    <2>1. Settled
      <3>1. CASE state = "running"
        BY <3>1 DEF Init, Settled
      <3>2. CASE state = "paused"
        BY <3>2 DEF Init, Settled
      <3> QED BY <3>1, <3>2 DEF Init
    <2>2. call.tool = None /\ wp = "off" /\ tp = "idle"
      BY DEF Init
    <2> QED BY <2>1, <2>2 DEF SimpleInv, SimpleLabels, Quiescing
  <1>2. Typed /\ SimpleInv /\ [Next]_vars => SimpleInv'
    <2> SUFFICES ASSUME Typed, SimpleInv, [Next]_vars PROVE SimpleInv'
      OBVIOUS
    <2>1. Threads /\ StreamTypeOK
      BY DEF Typed, TypeOK, Threads
    <2>2. CASE ToolWaits \/ ToolSteps
      BY <2>1, <2>2, SimpleTools
    <2>3. CASE Watcher
      BY <2>3 DEF SimpleInv, Watcher, WatcherScan, WatcherExit, WatcherAcquire, WatcherStop,
         WatcherTimeout, WatcherMatch, WatcherSurface, WatcherCapture, WatcherResume,
         WatcherSleep
    <2>4. CASE \E t \in Tools : \E b \in Arg(t) : CallTool(t, b)
      <3>1. PICK t \in Tools : \E b \in Arg(t) : CallTool(t, b)
        BY <2>4
      <3>2. /\ t \in Simple /\ call'.tool = t /\ tp = "idle" /\ ~frame'.seen
            /\ UNCHANGED <<cpu, intr, stops, state, wp>> /\ tp' = Entry(t)
        BY <3>1 DEF CallTool, Modify, Simple, SimpleInv, Alive, sessVars, watchVars, streamVars
      <3> QED BY <2>1, <3>2 DEF SimpleInv, Entry, Simple, SimpleLabels, ModifyLabels, Quiescing,
              Settled, Threads
    <2>5. CASE Stub
      BY <2>1, <2>5, SimpleStub
    <2>6. CASE UNCHANGED vars
      BY <2>6 DEF SimpleInv, Settled, Halting, vars, streamVars, sessVars, toolVars, watchVars
    <2> QED BY <2>2, <2>3, <2>4, <2>5, <2>6 DEF Next
  <1>3. SimpleInv => PausedMeansHalted /\ HaltIsAnnounced /\ QuiescedForModify
    <2> SUFFICES ASSUME SimpleInv
                 PROVE  PausedMeansHalted /\ HaltIsAnnounced /\ QuiescedForModify
      OBVIOUS
    <2>1. tp \in {"idle", "modify"} => Settled
      BY DEF SimpleInv, Quiescing
    <2>2. tp = "modify" => state = "paused"
      BY DEF SimpleInv
    <2>3. ASSUME Len(stops) = 1 PROVE stops # <<>>
      BY <2>3
    <2>4. PausedMeansHalted
      BY <2>1 DEF Settled, PausedMeansHalted
    <2>5. HaltIsAnnounced
      <3>1. cpu = "halted" => cpu # "running"
        OBVIOUS
      <3> QED BY <2>1, <2>3, <3>1 DEF Settled, HaltIsAnnounced
    <2>6. QuiescedForModify
      BY <2>1, <2>2 DEF Settled, QuiescedForModify
    <2> QED BY <2>4, <2>5, <2>6
  <1> QED BY <1>1, <1>2, <1>3, TypedAlways, PTL DEF Spec

================================================================================
