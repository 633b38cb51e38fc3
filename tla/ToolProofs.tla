------------------------------ MODULE ToolProofs ------------------------------
(***************************************************************************)
(* More proofs about DebugSession, for every set of tools, any stub and    *)
(* any breakpoints: a temporary breakpoint does not outlive its tool, a    *)
(* thread inside gdb_lock is not disturbed by the other, a stop is lost in *)
(* two ways only, what the quiescing and pause achieve, whose hits are     *)
(* logged for whom, and when the watcher ends.                             *)
(***************************************************************************)
EXTENDS SessionProofs, FiniteSetTheorems

-----------------------------------------------------------------------------
(* Temporary breakpoints                                                   *)

\* the tools that take down the breakpoint they have set
Temporary == {"run_until", "step_over", "trace"}

\* A tool that sets a breakpoint of its own leaves it neither registered nor
\* captured, nor, unless the stub may refuse to remove it, set in the stub.
TemporaryGone ==
  tp = "idle" /\ call.tool \in Temporary =>
    call.arg \notin bps \cup auto /\ (~MayReject => call.arg \notin armed)

TraceOnly == {"mark", "u_resume", "start", "sleep", "unmark", "signal", "join"}
TemporaryLabels ==
  ModifyLabels \cup TraceOnly \cup {"idle", "acq_query", "query", "acq_step", "step",
    "acq_resume", "resume", "acq_wait", "wait", "register", "unregister"}

\* Until its Z is accepted the breakpoint is not registered, and every way on from
\* there goes through the unregistering.
TemporaryInv ==
  call.tool \in Temporary =>
    /\ tp \in TemporaryLabels
    /\ tp \in TraceOnly => call.tool = "trace"
    /\ tp \in {"acq_query", "query"} => call.tool = "step_over"
    /\ tp \in ModifyLabels \cup {"idle", "acq_query", "query"} => call.arg \notin bps

\* No step of the tool thread ends such a call with the breakpoint registered,
\* whether the stub refuses Z, the wait times out or the trace is interrupted.
LEMMA ToolTakesDown ==
  ASSUME Threads, RegInv, TemporaryInv, ToolWaits \/ ToolSteps
  PROVE  TemporaryInv'
  <1> SUFFICES ASSUME call'.tool \in Temporary PROVE TemporaryInv'
    BY DEF TemporaryInv
  <1> USE DEF Threads, TemporaryInv, Temporary, TemporaryLabels, TraceOnly, ModifyLabels,
              sessVars, Goto, Return
  <1>1. UNCHANGED call /\ call.tool \in Temporary
    BY DEF ToolWaits, ToolSteps, Acquire, ModifyBegin, Query, Resume, Step, WaitForStop,
       WaitTimeout, AfterWait, Mem, PauseProbe, PauseDrain, PauseInterrupt, PauseTake,
       PauseTimeout, ModifyProbe, QuiesceInterrupt, QuiesceCollect, QuiesceSilence,
       QuiesceDrain, QuiesceFence, ModifyDrain, ModifyPacket, AfterModify, ModifyDrainAgain,
       ModifyResume, Register, Unregister, UnregisterUnknown, UnknownId, CaptureOnHit,
       CaptureResume, StartWatcher, Sleep, StopCapturing, SignalWatcher, JoinWatcher
  <1>2. CASE Acquire
    BY <1>1, <1>2 DEF Acquire, Locked
  <1>3. CASE Query
    BY <1>1, <1>3 DEF Query
  <1>4. CASE Resume
    BY <1>1, <1>4 DEF Resume, AfterResume
  <1>5. CASE Step
    BY <1>1, <1>5 DEF Step
  <1>6. CASE WaitForStop \/ WaitTimeout
    BY <1>1, <1>6 DEF WaitForStop, WaitTimeout, AfterWait
  <1>7. CASE Mem \/ PauseProbe \/ PauseDrain \/ PauseInterrupt \/ PauseTake \/ PauseTimeout
    BY <1>1, <1>7 DEF Mem, PauseProbe, PauseDrain, PauseInterrupt, PauseTake, PauseTimeout
  <1>8. CASE \/ ModifyBegin \/ ModifyProbe \/ QuiesceInterrupt \/ QuiesceCollect
             \/ QuiesceSilence \/ QuiesceDrain \/ QuiesceFence \/ ModifyDrain
             \/ ModifyDrainAgain
    <2>1. UNCHANGED bps /\ tp \in ModifyLabels /\ tp' \in ModifyLabels
      BY <1>8 DEF ModifyBegin, ModifyProbe, QuiesceInterrupt, QuiesceCollect, QuiesceSilence,
         QuiesceDrain, QuiesceFence, ModifyDrain, ModifyDrainAgain
    <2> QED BY <1>1, <2>1
  <1>9. CASE ModifyPacket(TRUE) \/ ModifyPacket(FALSE) \/ ModifyResume
    <2>1. UNCHANGED bps /\ tp \in ModifyLabels /\ tp' \in {"m_drain3", "register", "idle"}
      BY <1>9 DEF ModifyPacket, ModifyResume, AfterModify
    <2> QED BY <1>1, <2>1
  <1>10. CASE Register
    BY <1>1, <1>10 DEF Register
  <1>11. CASE Unregister
    BY <1>1, <1>11 DEF Unregister
  <1>12. CASE UnregisterUnknown \/ UnknownId
    BY <1>1, <1>12 DEF UnregisterUnknown, UnknownId
  <1>13. CASE CaptureOnHit \/ CaptureResume \/ StartWatcher \/ Sleep
    BY <1>1, <1>13 DEF CaptureOnHit, CaptureResume, StartWatcher, Sleep
  <1>14. CASE StopCapturing \/ SignalWatcher \/ JoinWatcher
    BY <1>1, <1>14 DEF StopCapturing, SignalWatcher, JoinWatcher, AfterStop
  <1> QED BY <1>2, <1>3, <1>4, <1>5, <1>6, <1>7, <1>8, <1>9, <1>10, <1>11, <1>12, <1>13,
             <1>14
          DEF ToolWaits, ToolSteps

\* A temporary breakpoint does not outlive its tool, for any tools called before,
\* any stub, and a watcher that may capture other breakpoints meanwhile.
THEOREM TemporariesAreTakenDown == Spec => []TemporaryGone
  <1>1. Init => TemporaryInv
    BY DEF Init, TemporaryInv, Temporary, None
  <1>2. Typed /\ RegInv /\ TemporaryInv /\ [Next]_vars => TemporaryInv'
    <2> SUFFICES ASSUME Typed, RegInv, TemporaryInv, [Next]_vars PROVE TemporaryInv'
      OBVIOUS
    <2>1. Threads
      BY DEF Typed, TypeOK, Threads
    <2>2. CASE ToolWaits \/ ToolSteps
      BY <2>1, <2>2, ToolTakesDown
    <2>3. CASE Watcher \/ Stub \/ UNCHANGED vars
      <3>1. UNCHANGED <<bps, tp, call>>
        BY <2>3 DEF Watcher, WatcherScan, WatcherExit, WatcherAcquire, WatcherStop,
           WatcherTimeout, WatcherMatch, WatcherSurface, WatcherCapture, WatcherResume,
           WatcherSleep, toolVars, sessVars, Stub, StubHit, StubInterrupt, StubDrop, vars
      <3> QED BY <3>1 DEF TemporaryInv
    <2>4. CASE \E t \in Tools : \E b \in Arg(t) : CallTool(t, b)
      <3>1. PICK t \in Tools : \E b \in Arg(t) : CallTool(t, b)
        BY <2>4
      <3>2. call'.tool = t /\ UNCHANGED bps
        BY <3>1 DEF CallTool, sessVars
      <3>3. ASSUME t \in Temporary
            PROVE  /\ call'.arg \notin bps
                   /\ tp' = "idle" \/ tp' = "acq_modify" \/ (t = "step_over" /\ tp' = "acq_query")
        BY <3>1, <3>3 DEF CallTool, Arg, Creators, ById, Entry, Temporary
      <3> QED BY <3>2, <3>3 DEF TemporaryInv, TemporaryLabels, TraceOnly, ModifyLabels
    <2> QED BY <2>2, <2>3, <2>4 DEF Next
  <1>3. Typed /\ RegInv /\ TemporaryInv => TemporaryGone
    BY DEF Typed, TypeOK, RegInv, TemporaryInv, TemporaryGone, Landing, Leaving, BeforePacket
  <1> QED BY <1>1, <1>2, <1>3, TypedAlways, RegistryBalances, PTL DEF Spec

-----------------------------------------------------------------------------
(* What a thread inside gdb_lock can rely on                               *)

\* Nothing happens to the stub and the session but that the target stops, or an
\* interrupt byte is answered or overlooked: a stop is added at the end, none is
\* taken, and where the target is halted and nothing is on its way nothing comes.
OnlyStops ==
  /\ UNCHANGED stops \/ (cpu' = "halted" /\ \E c \in Cause : stops' = Append(stops, c))
  /\ cpu = "halted" => cpu' = "halted"
  /\ cpu = "halted" /\ intr = 0 => UNCHANGED stops
  /\ intr' <= intr
  /\ intr' # intr => MayDrop \/ (cpu' = "halted" /\ stops' = Append(stops, "int"))
  /\ UNCHANGED <<buf, armed, sessVars, glock, toolVars>>

\* the steps of the other thread and of the stub while a thread is inside the lock
LockProtects ==
  /\ glock = "tool" /\ (Watcher \/ Stub) => OnlyStops
  /\ glock = "watcher" /\ tp \notin UnlockedLabels /\ (ToolWaits \/ ToolSteps) =>
       UNCHANGED <<streamVars, buf, armed, state>>

\* The watcher outside the lock touches its own variables only.
LEMMA ToolIsProtected ==
  ASSUME Typed, LockInv, glock = "tool", Watcher \/ Stub
  PROVE  OnlyStops
  <1>1. intr \in Nat
    BY DEF Typed, TypeOK, StreamTypeOK
  <1>2. CASE Watcher
    <2>1. wp \notin WatcherOwns
      BY DEF LockInv
    <2>2. WatcherScan \/ WatcherExit \/ WatcherSleep
      BY <1>2, <2>1 DEF Watcher, WatcherOwns, WatcherAcquire, WatcherStop, WatcherTimeout,
         WatcherMatch, WatcherSurface, WatcherCapture, WatcherResume
    <2> QED BY <1>1, <2>2 DEF WatcherScan, WatcherExit, WatcherSleep, OnlyStops, streamVars
  <1>3. ASSUME NEW b \in Bp, StubHit(b) PROVE OnlyStops
    BY <1>1, <1>3 DEF StubHit, Hit, OnlyStops, Cause
  <1>4. CASE StubInterrupt
    BY <1>1, <1>4 DEF StubInterrupt, ServeInterrupt, OnlyStops, Cause
  <1>5. CASE StubDrop
    BY <1>1, <1>5 DEF StubDrop, DropInterrupt, OnlyStops
  <1> QED BY <1>2, <1>3, <1>4, <1>5 DEF Stub

\* So does the tool thread, except in the calls it makes without the lock.
LEMMA WatcherIsProtected ==
  ASSUME LockInv, glock = "watcher", tp \notin UnlockedLabels, ToolWaits \/ ToolSteps
  PROVE  UNCHANGED <<streamVars, buf, armed, state>>
  <1>1. tp \notin LockedLabels
    BY DEF LockInv
  <1>2. \/ Register \/ Unregister \/ UnregisterUnknown \/ UnknownId \/ CaptureOnHit
        \/ StartWatcher \/ Sleep \/ StopCapturing \/ SignalWatcher \/ JoinWatcher
    BY <1>1 DEF LockedLabels, UnlockedLabels, ToolWaits, ToolSteps, Acquire, ModifyBegin, Query,
       Resume, Step, WaitForStop, WaitTimeout, Mem, PauseProbe, PauseDrain, PauseInterrupt,
       PauseTake, PauseTimeout, ModifyProbe, QuiesceInterrupt, QuiesceCollect, QuiesceSilence,
       QuiesceDrain, QuiesceFence, ModifyDrain, ModifyPacket, ModifyDrainAgain, ModifyResume,
       CaptureResume
  <1> QED BY <1>2 DEF Register, Unregister, UnregisterUnknown, UnknownId, CaptureOnHit,
       StartWatcher, Sleep, StopCapturing, SignalWatcher, JoinWatcher, sessVars

\* session.gdb_lock, "Serializes ALL GDB stub access": while a tool is inside the
\* lock the watcher takes no stop, resumes nothing and changes no session state,
\* and the other way round but for the two calls made without the lock.
THEOREM TheLockProtects == Spec => [][LockProtects]_vars
  <1>1. Typed /\ LockInv => [LockProtects]_vars
    BY ToolIsProtected, WatcherIsProtected DEF LockProtects
  <1> QED BY <1>1, TypedAlways, LockIsHeld, PTL

\* The watcher that stop_watcher joins has been told to stop, and the tool that
\* joins it does not hold the lock the watcher may be waiting for.
JoinEnds == tp = "join" /\ Alive => stopping /\ glock # "tool"

\* stop_watcher never waits for a watcher that waits for it, or that was started
\* anew: what ToolReturns needs besides the scheduling.
THEOREM JoinIsAwaited == Spec => []JoinEnds
  <1> DEFINE Signalled == tp = "join" /\ Alive => stopping
  <1>1. Init => Signalled
    BY DEF Init, Alive
  <1>2. Signalled /\ [Next]_vars => Signalled'
    <2> SUFFICES ASSUME Signalled, [Next]_vars, tp' = "join", Alive' PROVE stopping'
      OBVIOUS
    <2>1. CASE ToolWaits \/ ToolSteps
      <3>1. SignalWatcher
        BY <2>1 DEF ToolWaits, ToolSteps, Acquire, ModifyBegin, Query, Resume, AfterResume,
           Step, WaitForStop, WaitTimeout, AfterWait, Mem, PauseProbe, PauseDrain,
           PauseInterrupt, PauseTake, PauseTimeout, ModifyProbe, QuiesceInterrupt,
           QuiesceCollect, QuiesceSilence, QuiesceDrain, QuiesceFence, ModifyDrain,
           ModifyPacket, AfterModify, ModifyDrainAgain, ModifyResume, Register, Unregister,
           UnregisterUnknown, UnknownId, CaptureOnHit, CaptureResume, StartWatcher, Sleep,
           StopCapturing, AfterStop, JoinWatcher, Goto, Return, Locked
      <3> QED BY <3>1 DEF SignalWatcher, Alive
    <2>2. CASE Watcher
      BY <2>2 DEF Watcher, WatcherScan, WatcherExit, WatcherAcquire, WatcherStop,
         WatcherTimeout, WatcherMatch, WatcherSurface, WatcherCapture, WatcherResume,
         WatcherSleep, toolVars, Alive
    <2>3. CASE \E t \in Tools : \E b \in Arg(t) : CallTool(t, b)
      <3>1. tp' # "join"
        BY <2>3, ToolsAssumption DEF CallTool, Entry, AllTools, Foreground
      <3> QED BY <3>1
    <2>4. CASE Stub \/ UNCHANGED vars
      BY <2>4 DEF Stub, StubHit, StubInterrupt, StubDrop, vars, toolVars, watchVars, Alive
    <2> QED BY <2>1, <2>2, <2>3, <2>4 DEF Next
  <1>3. LockInv /\ Signalled => JoinEnds
    BY DEF LockInv, LockedLabels, JoinEnds
  <1> QED BY <1>1, <1>2, <1>3, LockIsHeld, PTL DEF Spec

-----------------------------------------------------------------------------
(* Stops                                                                   *)

\* where the tool thread accounts for a stop it has taken or thrown away: it goes
\* on to CONNECTED_PAUSED, or has an interrupt still to be answered
ToolHandles == tp \in {"m_collect", "m_drain", "m_fence", "pause_intr", "pause_wait"}
\* where the watcher does
WatcherHandles == wp \in {"match", "read", "resume"}

\* HaltIsAnnounced at every moment and for every tool: when the CPU is halted
\* behind a session in CONNECTED_RUNNING, its stop is unread or being handled.
StopIsKnown ==
  cpu = "halted" /\ state = "running" => stops # <<>> \/ ToolHandles \/ WatcherHandles

\* the registry changes its size under the watcher that matches a stop against it
Killed == wp = "match" /\ wp' = "exiting" /\ UNCHANGED <<state, stops>>
\* pause has thrown the unread stops away, and the stub overlooked both interrupts
GivesUp == MayDrop /\ tp = "pause_wait" /\ tp' = "idle" /\ out' = "timeout"

\* What the quiescing and pause throw away stops on: the session is in
\* CONNECTED_PAUSED again before the drains around the packet, and pause waits
\* for an interrupt that is on its way or answered.
DrainsAreSafe ==
  /\ tp \in {"m_drain2", "m_drain3"} => state = "paused"
  /\ tp = "modify" /\ frame.was => state = "paused"
  /\ ~MayDrop /\ tp = "pause_wait" => intr > 0 \/ stops # <<>>

\* The tool thread keeps it that way.
LEMMA ToolDrains ==
  ASSUME Typed, DrainsAreSafe, ToolWaits \/ ToolSteps
  PROVE  DrainsAreSafe'
  <1> USE DEF DrainsAreSafe, Goto, Return, sessVars
  <1>1. frame \in [packet : {None, "Z", "z"}, was : BOOLEAN, seen : BOOLEAN,
                   ok : BOOLEAN, tries : 0..2]
    BY DEF Typed, TypeOK
  <1>2. CASE Acquire \/ Query \/ Resume \/ Step \/ WaitForStop \/ WaitTimeout \/ Mem
    BY <1>2 DEF Acquire, Locked, Query, Resume, AfterResume, Step, WaitForStop, WaitTimeout,
       AfterWait, Mem
  <1>3. CASE PauseProbe \/ PauseDrain \/ PauseTake \/ PauseTimeout
    BY <1>3 DEF PauseProbe, PauseDrain, PauseTake, PauseTimeout
  <1>4. CASE PauseInterrupt
    <2>1. intr \in Nat /\ intr' = intr + 1 /\ tp' = "pause_wait"
      BY <1>4 DEF PauseInterrupt, Interrupt, Typed, TypeOK, StreamTypeOK
    <2> QED BY <2>1
  <1>5. CASE ModifyBegin
    <2>1. state = "running" => tp' = "m_probe"
      BY <1>5 DEF ModifyBegin
    <2>2. state # "running" => frame'.was = FALSE /\ tp' = "modify"
      BY <1>1, <1>5 DEF ModifyBegin
    <2> QED BY <2>1, <2>2
  <1>6. CASE ModifyProbe \/ QuiesceInterrupt \/ QuiesceCollect \/ QuiesceSilence \/ QuiesceDrain
    BY <1>6 DEF ModifyProbe, QuiesceInterrupt, QuiesceCollect, QuiesceSilence, QuiesceDrain
  <1>7. CASE QuiesceFence \/ ModifyDrain \/ ModifyDrainAgain
    <2>1. CASE QuiesceFence
      BY <2>1 DEF QuiesceFence
    <2>2. CASE ModifyDrain
      BY <2>2 DEF ModifyDrain
    <2>3. CASE ModifyDrainAgain
      BY <2>3 DEF ModifyDrainAgain
    <2> QED BY <1>7, <2>1, <2>2, <2>3
  <1>8. CASE ModifyPacket(TRUE) \/ ModifyPacket(FALSE)
    BY <1>8 DEF ModifyPacket, AfterModify
  <1>9. CASE ModifyResume
    BY <1>9 DEF ModifyResume, AfterModify
  <1>10. CASE Register \/ Unregister \/ UnregisterUnknown
    BY <1>10 DEF Register, Unregister, UnregisterUnknown
  <1>11. CASE \/ UnknownId \/ CaptureOnHit \/ CaptureResume \/ StartWatcher \/ Sleep
              \/ StopCapturing \/ SignalWatcher \/ JoinWatcher
    BY <1>11 DEF UnknownId, CaptureOnHit, CaptureResume, StartWatcher, Sleep, StopCapturing,
       AfterStop, SignalWatcher, JoinWatcher
  <1> QED BY <1>2, <1>3, <1>4, <1>5, <1>6, <1>7, <1>8, <1>9, <1>10, <1>11
          DEF ToolWaits, ToolSteps

\* The watcher and the stub do not interfere: the tool is inside the lock.
LEMMA DrainsAlwaysSafe == Spec => []DrainsAreSafe
  <1>1. Init => DrainsAreSafe
    BY DEF Init, DrainsAreSafe
  <1>2. Typed /\ LockInv /\ DrainsAreSafe /\ [Next]_vars => DrainsAreSafe'
    <2> SUFFICES ASSUME Typed, LockInv, DrainsAreSafe, [Next]_vars PROVE DrainsAreSafe'
      OBVIOUS
    <2>1. CASE ToolWaits \/ ToolSteps
      BY <2>1, ToolDrains
    <2>2. CASE Watcher \/ Stub
      <3>1. UNCHANGED <<tp, frame>>
        BY <2>2 DEF Watcher, WatcherScan, WatcherExit, WatcherAcquire, WatcherStop,
           WatcherTimeout, WatcherMatch, WatcherSurface, WatcherCapture, WatcherResume,
           WatcherSleep, Stub, StubHit, StubInterrupt, StubDrop, toolVars
      <3>2. CASE tp \notin LockedLabels
        BY <3>1, <3>2 DEF DrainsAreSafe, LockedLabels
      <3>3. CASE tp \in LockedLabels
        <4>1. OnlyStops
          BY <2>2, <3>3, ToolIsProtected DEF LockInv
        <4>2. state' = state /\ (stops # <<>> => stops' # <<>>)
          BY <4>1, AppendProperties DEF OnlyStops, sessVars, Typed, TypeOK, StreamTypeOK
        <4>3. ASSUME ~MayDrop, intr > 0 PROVE intr' > 0 \/ stops' # <<>>
          <5>1. CASE Watcher
            <6>1. wp \notin WatcherOwns
              BY <3>3 DEF LockInv
            <6> QED BY <4>3, <5>1, <6>1 DEF Watcher, WatcherOwns, WatcherScan, WatcherExit,
                 WatcherAcquire, WatcherStop, WatcherTimeout, WatcherMatch, WatcherSurface,
                 WatcherCapture, WatcherResume, WatcherSleep, streamVars
          <5>2. ASSUME NEW b \in Bp, StubHit(b) PROVE intr' > 0
            BY <4>3, <5>2 DEF StubHit, Hit
          <5>3. CASE StubInterrupt
            <6>1. stops' = Append(stops, "int") /\ "int" \in Cause /\ stops \in Seq(Cause)
              BY <5>3 DEF StubInterrupt, ServeInterrupt, Cause, Typed, TypeOK, StreamTypeOK
            <6> QED BY <6>1, AppendProperties
          <5> QED BY <2>2, <4>3, <5>1, <5>2, <5>3 DEF Stub, StubDrop
        <4> QED BY <3>1, <4>2, <4>3 DEF DrainsAreSafe
      <3> QED BY <3>2, <3>3
    <2>3. CASE \E t \in Tools : \E b \in Arg(t) : CallTool(t, b)
      <3>1. tp' \notin {"m_drain2", "m_drain3", "modify", "pause_wait"}
        BY <2>3, ToolsAssumption DEF CallTool, Entry, AllTools, Foreground
      <3> QED BY <3>1 DEF DrainsAreSafe
    <2>4. CASE UNCHANGED vars
      BY <2>4 DEF DrainsAreSafe, vars, streamVars, sessVars, toolVars
    <2> QED BY <2>1, <2>2, <2>3, <2>4 DEF Next
  <1> QED BY <1>1, <1>2, TypedAlways, LockIsHeld, PTL DEF Spec

\* A step of the tool thread loses no stop, unless it ends the watcher that holds it
\* or is the end of a pause the stub has not answered.
LEMMA ToolKeepsStops ==
  ASSUME Typed, DrainsAreSafe, StopIsKnown, ToolWaits \/ ToolSteps, ~Killed, ~GivesUp
  PROVE  StopIsKnown'
  <1> USE DEF StopIsKnown, ToolHandles, WatcherHandles, DrainsAreSafe, Goto, Return, sessVars,
              streamVars, watchVars
  <1>1. CASE Acquire \/ Query \/ Mem \/ WaitTimeout
    BY <1>1 DEF Acquire, Locked, Query, Mem, WaitTimeout, AfterWait, Command
  <1>2. CASE Resume \/ ModifyResume \/ CaptureResume
    BY <1>2 DEF Resume, ModifyResume, CaptureResume, ContinueAsync, Continue
  <1>3. CASE Step
    <2>1. stops' = Append(stops, "step") /\ "step" \in Cause /\ stops \in Seq(Cause)
      BY <1>3 DEF Step, StepInsn, Cause, Typed, TypeOK, StreamTypeOK
    <2> QED BY <2>1, AppendProperties
  <1>4. CASE WaitForStop \/ PauseTake \/ QuiesceFence
    BY <1>4 DEF WaitForStop, PauseTake, QuiesceFence
  <1>5. CASE PauseProbe \/ PauseDrain \/ PauseInterrupt
    BY <1>5 DEF PauseProbe, PauseDrain, PauseInterrupt, Command, Interrupt
  <1>6. CASE PauseTimeout
    <2>1. CASE frame.tries < 2
      BY <1>6, <2>1 DEF PauseTimeout
    <2>2. CASE ~(frame.tries < 2)
      <3>1. tp' = "idle" /\ out' = "timeout" /\ tp = "pause_wait" /\ intr = 0 /\ stops = <<>>
        BY <1>6, <2>2 DEF PauseTimeout
      <3>2. MayDrop \in BOOLEAN
        BY FlagsAssumption
      <3> QED BY <3>1, <3>2 DEF GivesUp
    <2> QED BY <2>1, <2>2
  <1>7. CASE ModifyBegin \/ ModifyProbe \/ QuiesceInterrupt
    BY <1>7 DEF ModifyBegin, ModifyProbe, QuiesceInterrupt, Command, Interrupt
  <1>8. CASE QuiesceCollect \/ QuiesceSilence \/ QuiesceDrain
    BY <1>8 DEF QuiesceCollect, QuiesceSilence, QuiesceDrain
  <1>9. CASE ModifyDrain \/ ModifyDrainAgain
    <2>1. state' = "paused"
      BY <1>9 DEF ModifyDrain, ModifyDrainAgain
    <2> QED BY <2>1
  <1>10. CASE ModifyPacket(TRUE) \/ ModifyPacket(FALSE)
    <2>1. UNCHANGED <<cpu, state, stops, wp>> /\ tp = "modify"
      BY <1>10 DEF ModifyPacket, Command
    <2> QED BY <2>1
  <1>11. CASE Register \/ Unregister
    <2>1. UNCHANGED <<cpu, state, stops>> /\ tp \in {"register", "unregister"}
      BY <1>11 DEF Register, Unregister
    <2>2. wp' = wp \/ (Iterating /\ wp' = "exiting")
      BY <1>11 DEF Register, Unregister, RegistryResized
    <2> QED BY <2>1, <2>2 DEF Iterating, Killed
  <1>12. CASE UnregisterUnknown \/ UnknownId \/ CaptureOnHit \/ Sleep \/ StopCapturing
    BY <1>12 DEF UnregisterUnknown, UnknownId, CaptureOnHit, Sleep, StopCapturing, AfterStop
  <1>13. CASE StartWatcher \/ SignalWatcher \/ JoinWatcher
    BY <1>13 DEF StartWatcher, SignalWatcher, JoinWatcher, AfterStop, Alive
  <1> QED BY <1>1, <1>2, <1>3, <1>4, <1>5, <1>6, <1>7, <1>8, <1>9, <1>10, <1>11, <1>12, <1>13
          DEF ToolWaits, ToolSteps

\* Every other step keeps them: the watcher resumes the target, or puts the stop back
\* and says CONNECTED_PAUSED.
LEMMA OthersKeepStops ==
  ASSUME Typed, StopIsKnown, ~Killed,
         \/ Watcher \/ Stub \/ UNCHANGED vars
         \/ \E t \in Tools : \E b \in Arg(t) : CallTool(t, b)
  PROVE  StopIsKnown'
  <1> USE DEF StopIsKnown, ToolHandles, WatcherHandles, sessVars, streamVars, toolVars, watchVars
  <1>0. stops \in Seq(Cause)
    BY DEF Typed, TypeOK, StreamTypeOK
  <1>1. CASE WatcherScan \/ WatcherExit \/ WatcherAcquire \/ WatcherTimeout \/ WatcherSleep
    BY <1>1 DEF WatcherScan, WatcherExit, WatcherAcquire, WatcherTimeout, WatcherSleep
  <1>2. CASE WatcherStop \/ WatcherMatch
    BY <1>2 DEF WatcherStop, WatcherMatch
  <1>3. CASE WatcherCapture
    BY <1>3 DEF WatcherCapture, Command
  <1>4. CASE WatcherSurface
    BY <1>4 DEF WatcherSurface
  <1>5. CASE WatcherResume
    BY <1>5 DEF WatcherResume, ContinueAsync, Continue
  <1>6. ASSUME NEW b \in Bp, StubHit(b) PROVE StopIsKnown'
    <2>1. stops' = Append(stops, b) /\ b \in Cause
      BY <1>6 DEF StubHit, Hit, Cause
    <2> QED BY <1>0, <2>1, AppendProperties
  <1>7. CASE StubInterrupt
    <2>1. stops' = Append(stops, "int") /\ "int" \in Cause
      BY <1>7 DEF StubInterrupt, ServeInterrupt, Cause
    <2> QED BY <1>0, <2>1, AppendProperties
  <1>8. CASE StubDrop
    BY <1>8 DEF StubDrop, DropInterrupt
  <1>9. CASE UNCHANGED vars
    BY <1>9 DEF vars
  <1>10. CASE \E t \in Tools : \E b \in Arg(t) : CallTool(t, b)
    BY <1>10 DEF CallTool
  <1> QED BY <1>1, <1>2, <1>3, <1>4, <1>5, <1>6, <1>7, <1>8, <1>9, <1>10 DEF Watcher, Stub

\* What a step may do to the stops, in any session: the only steps after which a
\* halt is neither unread nor in anybody's hands are the registry changing under
\* the watcher's loop, and a pause that gives up.
THEOREM StopsAreLostTwoWays ==
  Spec => [][StopIsKnown /\ ~StopIsKnown' => Killed \/ GivesUp]_vars
  <1>1. Typed /\ DrainsAreSafe /\ [Next]_vars
          => [StopIsKnown /\ ~StopIsKnown' => Killed \/ GivesUp]_vars
    BY ToolKeepsStops, OthersKeepStops DEF Next
  <1> QED BY <1>1, TypedAlways, DrainsAlwaysSafe, PTL DEF Spec

\* As long as neither happens, no tool, no capture, no quiescing and no trace loses a
\* stop, and wait_for_hit will still see every halt once the watcher is gone.
THEOREM HaltsStayAnnounced ==
  Spec /\ [][~Killed /\ ~GivesUp]_vars => [](StopIsKnown /\ HaltIsAnnounced)
  <1>1. Init => StopIsKnown
    BY DEF Init, StopIsKnown
  <1>2. Typed /\ DrainsAreSafe /\ StopIsKnown /\ [Next]_vars /\ [~Killed /\ ~GivesUp]_vars
          => StopIsKnown'
    <2> SUFFICES ASSUME Typed, DrainsAreSafe, StopIsKnown, [Next]_vars,
                        [~Killed /\ ~GivesUp]_vars
                 PROVE  StopIsKnown'
      OBVIOUS
    <2>1. CASE UNCHANGED vars
      BY <2>1 DEF StopIsKnown, ToolHandles, WatcherHandles, vars, streamVars, sessVars,
         toolVars, watchVars
    <2>2. CASE ~Killed /\ ~GivesUp /\ Next
      BY <2>2, ToolKeepsStops, OthersKeepStops DEF Next
    <2> QED BY <2>1, <2>2
  <1>3. StopIsKnown => HaltIsAnnounced
    BY DEF StopIsKnown, HaltIsAnnounced, ToolHandles, WatcherHandles, Alive
  <1> QED BY <1>1, <1>2, <1>3, TypedAlways, DrainsAlwaysSafe, PTL DEF Spec

\* the tools that start the watcher
Capturing == {"capture", "capture_only", "trace"}
Starting == {"mark", "u_resume", "start"}
Pausing == {"acq_pause", "probe", "pause_drain", "pause_intr", "pause_wait"}

\* Only they start it, and only pause pauses.
CalledFor == /\ tp \in Starting => call.tool \in Capturing
             /\ tp \in Pausing => call.tool = "pause"
             /\ Tools \cap Capturing = {} => ~Alive

\* A tool keeps to its own code.
LEMMA ToolIsCalledFor == Spec => []CalledFor
  <1>1. Init => CalledFor
    BY DEF Init, CalledFor, Starting, Pausing, Alive
  <1>2. Typed /\ CalledFor /\ [Next]_vars => CalledFor'
    <2> SUFFICES ASSUME Typed, CalledFor, [Next]_vars PROVE CalledFor'
      OBVIOUS
    <2> USE DEF CalledFor, Starting, Pausing, Capturing, Alive
    <2>1. CASE ToolWaits \/ ToolSteps
      <3> USE DEF Goto, Return, watchVars
      <3>1. CASE Acquire \/ Query \/ Resume \/ Step \/ WaitForStop \/ WaitTimeout \/ Mem
        BY <3>1 DEF Acquire, Locked, Query, Resume, AfterResume, Step, WaitForStop,
           WaitTimeout, AfterWait, Mem
      <3>2. CASE PauseProbe \/ PauseDrain \/ PauseInterrupt \/ PauseTake \/ PauseTimeout
        BY <3>2 DEF PauseProbe, PauseDrain, PauseInterrupt, PauseTake, PauseTimeout
      <3>3. CASE \/ ModifyBegin \/ ModifyProbe \/ QuiesceInterrupt \/ QuiesceCollect
                 \/ QuiesceSilence \/ QuiesceDrain \/ QuiesceFence \/ ModifyDrain
                 \/ ModifyDrainAgain
        BY <3>3 DEF ModifyBegin, ModifyProbe, QuiesceInterrupt, QuiesceCollect,
           QuiesceSilence, QuiesceDrain, QuiesceFence, ModifyDrain, ModifyDrainAgain
      <3>4. CASE ModifyPacket(TRUE) \/ ModifyPacket(FALSE) \/ ModifyResume
        BY <3>4 DEF ModifyPacket, ModifyResume, AfterModify
      <3>5. CASE Register \/ Unregister \/ UnregisterUnknown \/ UnknownId
        <4>1. ASSUME ~Alive PROVE ~Alive'
          BY <3>5, <4>1 DEF Register, Unregister, UnregisterUnknown, UnknownId,
             RegistryResized, Iterating
        <4>2. UNCHANGED call /\ tp' \notin Pausing
          BY <3>5 DEF Register, Unregister, UnregisterUnknown, UnknownId
        <4>3. tp' \in Starting => call.tool = "trace"
          BY <3>5 DEF Register, Unregister, UnregisterUnknown, UnknownId
        <4> QED BY <4>1, <4>2, <4>3
      <3>6. CASE CaptureOnHit \/ CaptureResume \/ Sleep \/ StopCapturing
        BY <3>6 DEF CaptureOnHit, CaptureResume, Sleep, StopCapturing, AfterStop
      <3>7. CASE StartWatcher
        <4>1. call.tool \in Tools \cup {None} /\ None \notin Capturing
          BY DEF Typed, TypeOK, None
        <4> QED BY <3>7, <4>1 DEF StartWatcher
      <3>8. CASE SignalWatcher \/ JoinWatcher
        BY <3>8 DEF SignalWatcher, JoinWatcher, AfterStop
      <3> QED BY <2>1, <3>1, <3>2, <3>3, <3>4, <3>5, <3>6, <3>7, <3>8 DEF ToolWaits, ToolSteps
    <2>2. CASE Watcher
      BY <2>2 DEF Watcher, WatcherScan, WatcherExit, WatcherAcquire, WatcherStop,
         WatcherTimeout, WatcherMatch, WatcherSurface, WatcherCapture, WatcherResume,
         WatcherSleep, toolVars
    <2>3. CASE \E t \in Tools : \E b \in Arg(t) : CallTool(t, b)
      <3>1. PICK t \in Tools : \E b \in Arg(t) : CallTool(t, b)
        BY <2>3
      <3>2. /\ call'.tool = t /\ UNCHANGED wp
            /\ tp' = "idle" \/ tp' = Entry(t)
        BY <3>1 DEF CallTool, watchVars
      <3> QED BY <3>2, ToolsAssumption DEF Entry, AllTools, Foreground
    <2>4. CASE Stub \/ UNCHANGED vars
      BY <2>4 DEF Stub, StubHit, StubInterrupt, StubDrop, vars, toolVars, watchVars
    <2> QED BY <2>1, <2>2, <2>3, <2>4 DEF Next
  <1> QED BY <1>1, <1>2, TypedAlways, PTL DEF Spec

\* Without the tools that capture, and without pause where the stub may overlook
\* an interrupt, no stop is lost at all: stepping, timeouts, refused and accepted
\* breakpoints on a running target included.
THEOREM ForegroundLosesNoStop ==
  ASSUME Tools \cap Capturing = {}, MayDrop => "pause" \notin Tools
  PROVE  Spec => []HaltIsAnnounced
  <1>1. Typed /\ CalledFor => ~Killed /\ ~GivesUp
    BY DEF Typed, TypeOK, CalledFor, Killed, GivesUp, Alive, Pausing, None
  <1>2. Typed /\ CalledFor => [~Killed /\ ~GivesUp]_vars
    BY <1>1
  <1> QED BY <1>2, TypedAlways, ToolIsCalledFor, HaltsStayAnnounced, PTL

-----------------------------------------------------------------------------
(* The stream                                                              *)

\* the watcher puts the stop it holds among the unread ones, behind those buffered
PutsBack == /\ wp = "match" /\ wp' = "exiting" /\ state' = "paused"
            /\ stops' = InsertAt(stops, buf + 1, hit.why) /\ buf' = buf + 1
            /\ UNCHANGED <<cpu, intr>>

\* What a caller does to the stream, when a command, a drain and a take are written out.
LEMMA CallerUsesStream ==
  ASSUME Typed
  PROVE  /\ Command => UNCHANGED streamVars
         /\ ContinueAsync => Continue
         /\ DrainAll => [StreamNext]_streamVars
         /\ TakeOne => [StreamNext]_streamVars
  <1>0. stops \in Seq(Cause) /\ Len(stops) \in Nat
    BY DEF Typed, TypeOK, StreamTypeOK
  <1>1. Command => UNCHANGED streamVars
    BY DEF Command, streamVars
  <1>2. ContinueAsync => Continue
    BY DEF ContinueAsync
  <1>3. ASSUME DrainAll PROVE [StreamNext]_streamVars
    <2>1. CASE stops = <<>>
      BY <1>3, <2>1 DEF DrainAll, streamVars
    <2>2. CASE stops # <<>>
      <3>1. Len(stops) \in 1..Len(stops)
        BY <1>0, <2>2
      <3>2. SubSeq(stops, Len(stops) + 1, Len(stops)) = <<>>
        BY <1>0, SubSeqProperties
      <3>3. Take(Len(stops))
        BY <1>3, <3>1, <3>2 DEF DrainAll, Take
      <3> QED BY <3>1, <3>3 DEF StreamNext
    <2> QED BY <2>1, <2>2
  <1>4. ASSUME TakeOne PROVE [StreamNext]_streamVars
    <2>1. Take(1) /\ 1 \in 1..Len(stops)
      BY <1>4 DEF TakeOne, Take
    <2> QED BY <2>1 DEF StreamNext
  <1> QED BY <1>1, <1>2, <1>3, <1>4

\* Every step of the session, its tools and its watcher is one of StopStream, the
\* abstract stream that GdbClient implements, or the putting back of a stop.
LEMMA StepUsesStream ==
  ASSUME Typed, [Next]_vars
  PROVE  [StreamNext]_streamVars \/ PutsBack
  <1>1. CASE ToolWaits
    BY <1>1 DEF ToolWaits, Acquire, ModifyBegin
  <1>2. CASE ToolSteps
    BY <1>2, CallerUsesStream DEF ToolSteps, Query, Resume, Step, WaitForStop, WaitTimeout, Mem,
       PauseProbe, PauseDrain, PauseInterrupt, PauseTake, PauseTimeout, ModifyProbe,
       QuiesceInterrupt, QuiesceCollect, QuiesceSilence, QuiesceDrain, QuiesceFence,
       ModifyDrain, ModifyPacket, ModifyDrainAgain, ModifyResume, Register, Unregister,
       UnregisterUnknown, UnknownId, CaptureOnHit, CaptureResume, StartWatcher, Sleep,
       StopCapturing, SignalWatcher, JoinWatcher, StreamNext
  <1>3. CASE WatcherSurface
    BY <1>3 DEF WatcherSurface, PutsBack
  <1>4. CASE Watcher /\ ~WatcherSurface
    BY <1>4, CallerUsesStream DEF Watcher, WatcherScan, WatcherExit, WatcherAcquire,
       WatcherStop, WatcherTimeout, WatcherMatch, WatcherCapture, WatcherResume, WatcherSleep,
       StreamNext
  <1>5. CASE Stub
    BY <1>5 DEF Stub, StubHit, StubInterrupt, StubDrop, StreamNext
  <1>6. CASE \E t \in Tools : \E b \in Arg(t) : CallTool(t, b)
    BY <1>6 DEF CallTool
  <1>7. CASE UNCHANGED vars
    BY <1>7 DEF vars
  <1> QED BY <1>1, <1>2, <1>3, <1>4, <1>5, <1>6, <1>7 DEF Next

\* The session uses the stream as StopStream, the abstract specification of the
\* client, promises it; the watcher's surfacing, which writes _pending_replies
\* behind the client's back, is the only step that goes beyond it.
THEOREM SessionUsesTheStream ==
  /\ Spec => [][[StreamNext]_streamVars \/ PutsBack]_vars
  /\ Tools \cap Capturing = {} => (Spec => [][StreamNext]_streamVars)
  <1>1. Typed /\ [Next]_vars => [[StreamNext]_streamVars \/ PutsBack]_vars
    BY StepUsesStream
  <1>2. ASSUME Tools \cap Capturing = {}
        PROVE  Typed /\ CalledFor /\ [Next]_vars => [StreamNext]_streamVars
    BY <1>2, StepUsesStream DEF CalledFor, Alive, PutsBack
  <1>3. Spec => [][[StreamNext]_streamVars \/ PutsBack]_vars
    BY <1>1, TypedAlways, PTL DEF Spec
  <1>4. ASSUME Tools \cap Capturing = {}
        PROVE  Spec => [][StreamNext]_streamVars
    BY <1>2, <1>4, TypedAlways, ToolIsCalledFor, PTL DEF Spec
  <1> QED BY <1>3, <1>4

-----------------------------------------------------------------------------
(* Quiescing and pausing                                                   *)

\* nothing moves: the target is halted and no interrupt is on its way to it
Still == cpu = "halted" /\ intr = 0

\* QuiescedForModify for a session that was running, whatever tools are called:
\* from the fence to the `c', around the Z or z, the target is halted and quiet.
QuiesceWorks ==
  /\ tp = "modify" /\ frame.was => Still /\ stops = <<>>
  /\ tp \in {"m_drain3", "m_resume"} => Still /\ stops = <<>>

\* An interrupt that is no longer on its way has halted the target; the fence of
\* the quiescing waits for that, and the drain after it takes the last stops.
QuiesceInv ==
  /\ tp \in {"m_collect", "m_drain", "m_fence"} /\ intr = 0 => cpu = "halted"
  /\ tp = "m_drain2" => Still
  /\ QuiesceWorks

\* The tool thread keeps it that way.
LEMMA ToolQuiesces ==
  ASSUME Typed, QuiesceInv, ToolWaits \/ ToolSteps
  PROVE  QuiesceInv'
  <1> USE DEF QuiesceInv, QuiesceWorks, Still, Goto, Return, sessVars, streamVars
  <1>1. frame \in [packet : {None, "Z", "z"}, was : BOOLEAN, seen : BOOLEAN,
                   ok : BOOLEAN, tries : 0..2]
    BY DEF Typed, TypeOK
  <1>2. CASE Acquire \/ Query \/ Resume \/ Step \/ WaitForStop \/ WaitTimeout \/ Mem
    BY <1>2 DEF Acquire, Locked, Query, Resume, AfterResume, Step, WaitForStop, WaitTimeout,
       AfterWait, Mem
  <1>3. CASE PauseProbe \/ PauseDrain \/ PauseInterrupt \/ PauseTake \/ PauseTimeout
    BY <1>3 DEF PauseProbe, PauseDrain, PauseInterrupt, PauseTake, PauseTimeout
  <1>4. CASE ModifyBegin
    <2>1. CASE state = "running"
      BY <1>4, <2>1 DEF ModifyBegin
    <2>2. CASE state # "running"
      <3>1. frame'.was = FALSE /\ tp' = "modify"
        BY <1>1, <1>4, <2>2 DEF ModifyBegin
      <3> QED BY <3>1
    <2> QED BY <2>1, <2>2
  <1>5. CASE ModifyProbe
    BY <1>5 DEF ModifyProbe
  <1>6. CASE QuiesceInterrupt
    <2>1. intr \in Nat /\ intr' = intr + 1 /\ tp' = "m_collect"
      BY <1>6 DEF QuiesceInterrupt, Interrupt, Typed, TypeOK, StreamTypeOK
    <2> QED BY <2>1
  <1>7. CASE QuiesceCollect
    BY <1>7 DEF QuiesceCollect, TakeOne, Take
  <1>8. CASE QuiesceSilence
    BY <1>8 DEF QuiesceSilence
  <1>9. CASE QuiesceDrain
    BY <1>9 DEF QuiesceDrain, DrainAll
  <1>10. CASE QuiesceFence
    BY <1>10 DEF QuiesceFence, Command, RoundTrip
  <1>11. CASE ModifyDrain
    BY <1>11 DEF ModifyDrain, DrainAll
  <1>12. CASE ModifyPacket(TRUE) \/ ModifyPacket(FALSE)
    <2>1. tp = "modify" /\ UNCHANGED <<cpu, intr, stops>>
      BY <1>12 DEF ModifyPacket, Command
    <2>2. CASE frame.was
      BY <1>12, <2>1, <2>2 DEF ModifyPacket
    <2>3. CASE ~frame.was
      <3>1. tp' \in {"register", "idle"}
        BY <1>12, <2>3 DEF ModifyPacket, AfterModify
      <3> QED BY <3>1
    <2> QED BY <2>2, <2>3
  <1>13. CASE ModifyDrainAgain
    BY <1>13 DEF ModifyDrainAgain, DrainAll
  <1>14. CASE ModifyResume
    BY <1>14 DEF ModifyResume, AfterModify
  <1>15. CASE Register \/ Unregister \/ UnregisterUnknown \/ UnknownId
    BY <1>15 DEF Register, Unregister, UnregisterUnknown, UnknownId
  <1>16. CASE \/ CaptureOnHit \/ CaptureResume \/ StartWatcher \/ Sleep
              \/ StopCapturing \/ SignalWatcher \/ JoinWatcher
    BY <1>16 DEF CaptureOnHit, CaptureResume, StartWatcher, Sleep, StopCapturing,
       AfterStop, SignalWatcher, JoinWatcher
  <1> QED BY <1>2, <1>3, <1>4, <1>5, <1>6, <1>7, <1>8, <1>9, <1>10, <1>11, <1>12, <1>13,
             <1>14, <1>15, <1>16
          DEF ToolWaits, ToolSteps

\* Steps that leave a condition about the tool thread, its frame and the stream to
\* what OnlyStops says of them: those of the watcher and the stub.
LEMMA OthersLeaveTool ==
  ASSUME Typed, LockInv, Watcher \/ Stub
  PROVE  UNCHANGED <<tp, frame>> /\ (tp \in LockedLabels => OnlyStops)
  <1>1. UNCHANGED <<tp, frame>>
    BY DEF Watcher, WatcherScan, WatcherExit, WatcherAcquire, WatcherStop,
       WatcherTimeout, WatcherMatch, WatcherSurface, WatcherCapture, WatcherResume,
       WatcherSleep, Stub, StubHit, StubInterrupt, StubDrop, toolVars
  <1>2. tp \in LockedLabels => OnlyStops
    BY ToolIsProtected DEF LockInv
  <1> QED BY <1>1, <1>2

\* _quiesce_for_modify, "Force the stub into a known-paused, no-bytes-in-flight
\* state": while the stub overlooks no interrupt it does so for any tools, with
\* a watcher that captures meanwhile and hits at every moment before the fence.
THEOREM QuiescingWorks ==
  ASSUME MayDrop = FALSE
  PROVE  Spec => []QuiesceWorks
  <1>1. Init => QuiesceInv
    BY DEF Init, QuiesceInv, QuiesceWorks
  <1>2. Typed /\ LockInv /\ QuiesceInv /\ [Next]_vars => QuiesceInv'
    <2> SUFFICES ASSUME Typed, LockInv, QuiesceInv, [Next]_vars PROVE QuiesceInv'
      OBVIOUS
    <2>1. CASE ToolWaits \/ ToolSteps
      BY <2>1, ToolQuiesces
    <2>2. CASE Watcher \/ Stub
      <3>1. UNCHANGED <<tp, frame>> /\ (tp \in LockedLabels => OnlyStops)
        BY <2>2, OthersLeaveTool
      <3>2. CASE tp \notin LockedLabels
        BY <3>1, <3>2 DEF QuiesceInv, QuiesceWorks, LockedLabels
      <3>3. CASE tp \in LockedLabels
        <4>1. intr \in Nat /\ intr' \in Int
          BY <2>2 DEF Typed, TypeOK, StreamTypeOK, Watcher, WatcherScan, WatcherExit,
             WatcherAcquire, WatcherStop, WatcherTimeout, WatcherMatch, WatcherSurface,
             WatcherCapture, WatcherResume, WatcherSleep, Stub, StubHit, StubInterrupt,
             StubDrop, Hit, ServeInterrupt, DropInterrupt, streamVars, TakeOne, Take,
             Command, ContinueAsync, Continue
        <4>2. Still => Still' /\ UNCHANGED stops
          BY <3>1, <3>3, <4>1 DEF OnlyStops, Still
        <4>3. intr' = 0 => intr = 0 \/ cpu' = "halted"
          BY <3>1, <3>3 DEF OnlyStops
        <4>4. cpu = "halted" => cpu' = "halted"
          BY <3>1, <3>3 DEF OnlyStops
        <4> QED BY <3>1, <4>2, <4>3, <4>4 DEF QuiesceInv, QuiesceWorks
      <3> QED BY <3>2, <3>3
    <2>3. CASE \E t \in Tools : \E b \in Arg(t) : CallTool(t, b)
      <3>1. tp' \notin LockedLabels
        BY <2>3, ToolsAssumption DEF CallTool, Entry, AllTools, Foreground, LockedLabels
      <3> QED BY <3>1 DEF QuiesceInv, QuiesceWorks, LockedLabels
    <2>4. CASE UNCHANGED vars
      BY <2>4 DEF QuiesceInv, QuiesceWorks, Still, vars, streamVars, toolVars
    <2> QED BY <2>1, <2>2, <2>3, <2>4 DEF Next
  <1>3. QuiesceInv => QuiesceWorks
    BY DEF QuiesceInv
  <1> QED BY <1>1, <1>2, <1>3, TypedAlways, LockIsHeld, PTL DEF Spec

\* What pause takes for the answer to its interrupt is a stop of a target that has
\* not been resumed since.
PauseInv == tp \in {"pause_intr", "pause_wait"} /\ stops # <<>> => cpu = "halted"

\* pause, when it succeeds
Pauses == tp = "pause_wait" /\ tp' = "idle" /\ out' = "ok"

\* pause() returns its stop only for a halted target: it has drained what was
\* unread before, and inside the lock nobody resumes the target - for any tools,
\* with interrupts overlooked and late answers to the first of them.
THEOREM PauseHalts == Spec => [][Pauses => cpu' = "halted" /\ state' = "paused"]_vars
  <1>1. Init => PauseInv
    BY DEF Init, PauseInv
  <1>2. Typed /\ LockInv /\ PauseInv /\ [Next]_vars => PauseInv'
    <2> SUFFICES ASSUME Typed, LockInv, PauseInv, [Next]_vars PROVE PauseInv'
      OBVIOUS
    <2> USE DEF PauseInv, Goto, Return
    <2>1. CASE PauseDrain \/ PauseInterrupt \/ PauseTake \/ PauseTimeout
      BY <2>1 DEF PauseDrain, DrainAll, PauseInterrupt, Interrupt, PauseTake, PauseTimeout,
         streamVars
    <2>2. CASE (ToolWaits \/ ToolSteps) /\ ~(PauseDrain \/ PauseInterrupt \/ PauseTake \/ PauseTimeout)
      <3>1. tp' \notin {"pause_intr", "pause_wait"}
        BY <2>2 DEF ToolWaits, ToolSteps, Acquire, Locked, ModifyBegin, Query, Resume,
           AfterResume, Step, WaitForStop, WaitTimeout, AfterWait, Mem, PauseProbe,
           ModifyProbe, QuiesceInterrupt, QuiesceCollect, QuiesceSilence, QuiesceDrain,
           QuiesceFence, ModifyDrain, ModifyPacket, AfterModify, ModifyDrainAgain,
           ModifyResume, Register, Unregister, UnregisterUnknown, UnknownId, CaptureOnHit,
           CaptureResume, StartWatcher, Sleep, StopCapturing, AfterStop, SignalWatcher,
           JoinWatcher
      <3> QED BY <3>1
    <2>3. CASE Watcher \/ Stub
      <3>1. UNCHANGED <<tp, frame>> /\ (tp \in LockedLabels => OnlyStops)
        BY <2>3, OthersLeaveTool
      <3> QED BY <3>1 DEF LockedLabels, OnlyStops
    <2>4. CASE \E t \in Tools : \E b \in Arg(t) : CallTool(t, b)
      <3>1. tp' \notin {"pause_intr", "pause_wait"}
        BY <2>4, ToolsAssumption DEF CallTool, Entry, AllTools, Foreground
      <3> QED BY <3>1
    <2>5. CASE UNCHANGED vars
      BY <2>5 DEF vars, streamVars, toolVars
    <2> QED BY <2>1, <2>2, <2>3, <2>4, <2>5 DEF Next
  <1>3. Typed /\ LockInv /\ PauseInv /\ [Next]_vars
          => [Pauses => cpu' = "halted" /\ state' = "paused"]_vars
    <2> SUFFICES ASSUME Typed, LockInv, PauseInv, [Next]_vars, Pauses
                 PROVE  cpu' = "halted" /\ state' = "paused"
      OBVIOUS
    <2>1. tp' # tp
      BY DEF Pauses
    <2>2. ~(Watcher \/ Stub)
      BY <2>1, OthersLeaveTool
    <2>3. PauseTake \/ PauseTimeout
      BY <2>1, <2>2 DEF Pauses, Next, vars, toolVars, CallTool, ToolWaits, ToolSteps, Acquire,
         Locked, ModifyBegin, Query, Resume, Step, WaitForStop, WaitTimeout, Mem,
         PauseProbe, PauseDrain, PauseInterrupt, ModifyProbe, QuiesceInterrupt,
         QuiesceCollect, QuiesceSilence, QuiesceDrain, QuiesceFence, ModifyDrain,
         ModifyPacket, ModifyDrainAgain, ModifyResume, Register, Unregister,
         UnregisterUnknown, UnknownId, CaptureOnHit, CaptureResume, StartWatcher, Sleep,
         StopCapturing, SignalWatcher, JoinWatcher
    <2>4. PauseTake
      BY <2>3 DEF Pauses, PauseTimeout, Goto, Return
    <2>5. 1 \in 1..Len(stops) /\ stops \in Seq(Cause) /\ cpu' = cpu /\ state' = "paused"
      BY <2>4 DEF PauseTake, TakeOne, Take, Typed, TypeOK, StreamTypeOK
    <2>6. stops # <<>>
      BY <2>5, EmptySeq
    <2> QED BY <2>5, <2>6 DEF Pauses, PauseInv
  <1> QED BY <1>1, <1>2, <1>3, TypedAlways, LockIsHeld, PTL DEF Spec

-----------------------------------------------------------------------------
(* Attribution                                                             *)

\* AttributionRight does not hold (a hit is credited to the only watchpoint
\* registered).  It fails for watchpoints only: what is logged for a breakpoint
\* is a hit of that breakpoint.
Credited == \A c \in logged : c.id # c.why => c.id \in Wp

\* A breakpoint's own hits are all it gets, whoever registers and unregisters
\* breakpoints while the watcher holds a stop.
THEOREM OnlyWatchpointsAreMiscredited == Spec => []Credited
  <1> DEFINE Held == wp \in {"read", "resume"} /\ hit.id # hit.why => hit.id \in Wp
  <1>1. Init => Held /\ Credited
    BY DEF Init, Credited
  <1>2. Typed /\ Held /\ Credited /\ [Next]_vars => Held' /\ Credited'
    <2> SUFFICES ASSUME Typed, Held, Credited, [Next]_vars PROVE Held' /\ Credited'
      OBVIOUS
    <2> USE DEF Credited
    <2>1. CASE WatcherMatch
      <3>1. Match(hit.why) \in auto /\ None \notin auto
        BY <2>1, BpAssumption DEF WatcherMatch, Typed, TypeOK, None
      <3>2. Match(hit.why) # hit.why => Match(hit.why) \in Wp
        <4>1. ASSUME Cardinality(bps \cap Wp) = 1
              PROVE  (CHOOSE w \in bps \cap Wp : TRUE) \in Wp
          <5>1. bps \cap Wp # {}
            BY <4>1, FS_EmptySet
          <5> QED BY <5>1
        <4> QED BY <3>1, <4>1 DEF Match
      <3>3. hit'.id = Match(hit.why) /\ hit'.why = hit.why /\ logged' = logged
        BY <2>1 DEF WatcherMatch, Typed, TypeOK
      <3> QED BY <3>2, <3>3
    <2>2. CASE WatcherCapture
      BY <2>2 DEF WatcherCapture
    <2>3. CASE Watcher /\ ~WatcherMatch /\ ~WatcherCapture
      <3>1. logged' = logged /\ (wp' \in {"read", "resume"} => wp' = wp /\ hit' = hit)
        BY <2>3 DEF Watcher, WatcherScan, WatcherExit, WatcherAcquire, WatcherStop,
           WatcherTimeout, WatcherSurface, WatcherResume, WatcherSleep
      <3> QED BY <3>1
    <2>4. CASE ~Watcher
      <3>1. UNCHANGED <<hit, logged>> /\ (wp' = wp \/ wp' \in {"exiting", "scan"})
        BY <2>4 DEF Next, ToolWaits, ToolSteps, Acquire, ModifyBegin, Query, Resume, Step,
           WaitForStop, WaitTimeout, Mem, PauseProbe, PauseDrain, PauseInterrupt, PauseTake,
           PauseTimeout, ModifyProbe, QuiesceInterrupt, QuiesceCollect, QuiesceSilence,
           QuiesceDrain, QuiesceFence, ModifyDrain, ModifyPacket, ModifyDrainAgain,
           ModifyResume, Register, Unregister, RegistryResized, UnregisterUnknown, UnknownId,
           CaptureOnHit, CaptureResume, StartWatcher, Sleep, StopCapturing, SignalWatcher,
           JoinWatcher, CallTool, Stub, StubHit, StubInterrupt, StubDrop, vars, watchVars
      <3> QED BY <3>1
    <2> QED BY <2>1, <2>2, <2>3, <2>4
  <1> QED BY <1>1, <1>2, TypedAlways, PTL DEF Spec

-----------------------------------------------------------------------------
(* The watcher's end                                                       *)

\* the labels from which a breakpoint that a tool waits on may be unregistered
OnTheWay ==
  ModifyLabels \cup {"acq_query", "query", "acq_step", "step", "acq_resume", "resume",
                     "acq_wait", "wait", "register", "unregister"}

\* no watcher is left behind by the capture that started it
NoIdleWatcher == tp = "idle" /\ auto = {} => ~Alive

\* Outside stop_watcher nothing is captured without a watcher being needed for it,
\* and what a tool unregisters is not captured at the time.
WatchedInv ==
  /\ tp \notin {"signal", "join"} /\ auto = {} => ~Alive
  /\ tp \in {"signal", "join"} => auto = {}
  /\ tp \in {"u_resume", "start"} => call.arg \in auto
  /\ tp \in OnTheWay => call.arg \notin auto

\* The tool thread keeps it.
LEMMA ToolEndsWatcher ==
  ASSUME Threads, WatchedInv, ToolWaits \/ ToolSteps
  PROVE  WatchedInv'
  <1> USE DEF Threads, WatchedInv, OnTheWay, ModifyLabels, Alive, sessVars, watchVars, Goto,
              Return
  <1>1. CASE Acquire
    BY <1>1 DEF Acquire, Locked
  <1>2. CASE Query \/ Resume \/ Step \/ WaitForStop \/ WaitTimeout \/ Mem
    BY <1>2 DEF Query, Resume, AfterResume, Step, WaitForStop, WaitTimeout, AfterWait, Mem
  <1>3. CASE PauseProbe \/ PauseDrain \/ PauseInterrupt \/ PauseTake \/ PauseTimeout
    BY <1>3 DEF PauseProbe, PauseDrain, PauseInterrupt, PauseTake, PauseTimeout
  <1>4. CASE \/ ModifyBegin \/ ModifyProbe \/ QuiesceInterrupt \/ QuiesceCollect
             \/ QuiesceSilence \/ QuiesceDrain \/ QuiesceFence \/ ModifyDrain
             \/ ModifyDrainAgain
    <2>1. UNCHANGED <<auto, wp, call>> /\ tp \in ModifyLabels /\ tp' \in ModifyLabels
      BY <1>4 DEF ModifyBegin, ModifyProbe, QuiesceInterrupt, QuiesceCollect, QuiesceSilence,
         QuiesceDrain, QuiesceFence, ModifyDrain, ModifyDrainAgain
    <2> QED BY <2>1
  <1>5. CASE ModifyPacket(TRUE) \/ ModifyPacket(FALSE) \/ ModifyResume
    <2>1. /\ UNCHANGED <<auto, wp, call>> /\ tp \in ModifyLabels
          /\ tp' \in {"m_drain3", "register", "idle"}
      BY <1>5 DEF ModifyPacket, ModifyResume, AfterModify
    <2> QED BY <2>1
  <1>6. CASE Register
    <2>1. UNCHANGED <<auto, call>> /\ (wp = "off" => wp' = "off")
      BY <1>6 DEF Register, RegistryResized, Iterating
    <2>2. tp = "register" /\ tp' \in {"idle", "mark", "acq_wait", "acq_resume"}
      BY <1>6 DEF Register
    <2> QED BY <2>1, <2>2
  <1>7. CASE Unregister
    <2>1. auto' = auto /\ UNCHANGED call /\ (wp = "off" => wp' = "off")
      BY <1>7 DEF Unregister, RegistryResized, Iterating
    <2>2. tp = "unregister" /\ tp' = "acq_modify"
      BY <1>7 DEF Unregister
    <2> QED BY <2>1, <2>2
  <1>8. CASE UnregisterUnknown \/ UnknownId \/ Sleep
    BY <1>8 DEF UnregisterUnknown, UnknownId, Sleep
  <1>9. CASE CaptureOnHit \/ CaptureResume
    BY <1>9 DEF CaptureOnHit, CaptureResume
  <1>10. CASE StartWatcher
    BY <1>10 DEF StartWatcher
  <1>11. CASE StopCapturing
    BY <1>11 DEF StopCapturing, AfterStop
  <1>12. CASE SignalWatcher \/ JoinWatcher
    BY <1>12 DEF SignalWatcher, JoinWatcher, AfterStop
  <1> QED BY <1>1, <1>2, <1>3, <1>4, <1>5, <1>6, <1>7, <1>8, <1>9, <1>10, <1>11, <1>12
          DEF ToolWaits, ToolSteps

\* Every way to end a capture joins the watcher, but one: remove unregisters a
\* captured breakpoint without a look at it.  Without that tool none is left behind.
THEOREM WatcherEndsWithItsCaptures ==
  ASSUME "remove" \notin Tools
  PROVE  Spec => []NoIdleWatcher
  <1>1. Init => WatchedInv
    BY DEF Init, WatchedInv, OnTheWay, ModifyLabels, Alive
  <1>2. Typed /\ WatchedInv /\ [Next]_vars => WatchedInv'
    <2> SUFFICES ASSUME Typed, WatchedInv, [Next]_vars PROVE WatchedInv'
      OBVIOUS
    <2>1. Threads
      BY DEF Typed, TypeOK, Threads
    <2>2. CASE ToolWaits \/ ToolSteps
      BY <2>1, <2>2, ToolEndsWatcher
    <2>3. CASE Watcher
      <3>1. UNCHANGED <<auto, tp, call>> /\ Alive
        BY <2>3 DEF Watcher, WatcherScan, WatcherExit, WatcherAcquire, WatcherStop, Alive,
           WatcherTimeout, WatcherMatch, WatcherSurface, WatcherCapture, WatcherResume,
           WatcherSleep, toolVars, sessVars
      <3> QED BY <3>1 DEF WatchedInv
    <2>4. CASE \E t \in Tools : \E b \in Arg(t) : CallTool(t, b)
      <3>1. PICK t \in Tools : \E b \in Arg(t) : CallTool(t, b)
        BY <2>4
      <3>2. PICK b \in Arg(t) : CallTool(t, b)
        BY <3>1
      <3>3. call'.arg = b /\ UNCHANGED <<auto, wp>> /\ tp = "idle"
        BY <3>2 DEF CallTool, sessVars, watchVars
      <3>4. t \notin ById => b \notin auto
        BY <2>1, <3>2, BpAssumption DEF Arg, Threads, None
      <3>5. /\ tp' \notin {"signal", "join", "u_resume", "start"}
            /\ t \in ById => tp' \notin OnTheWay
        BY <3>2, ToolsAssumption
           DEF CallTool, Entry, AllTools, Foreground, ById, OnTheWay, ModifyLabels
      <3> QED BY <3>3, <3>4, <3>5 DEF WatchedInv, Alive
    <2>5. CASE Stub \/ UNCHANGED vars
      <3>1. UNCHANGED <<auto, tp, call, wp>>
        BY <2>5 DEF Stub, StubHit, StubInterrupt, StubDrop, vars, toolVars, sessVars, watchVars
      <3> QED BY <3>1 DEF WatchedInv, Alive
    <2> QED BY <2>2, <2>3, <2>4, <2>5 DEF Next
  <1>3. WatchedInv => NoIdleWatcher
    BY DEF WatchedInv, NoIdleWatcher
  <1> QED BY <1>1, <1>2, <1>3, TypedAlways, PTL DEF Spec

\* So a trace leaves nothing behind even when the stub refuses its Z or z, as long
\* as no captured breakpoint is removed; TraceCleansUp is about the other case.
THEOREM TraceCleansUpAnyway ==
  ASSUME "remove" \notin Tools
  PROVE  Spec => []TraceLeavesNothing
  <1>1. TemporaryGone /\ NoIdleWatcher => TraceLeavesNothing
    BY DEF TemporaryGone, Temporary, NoIdleWatcher, TraceLeavesNothing
  <1> QED BY <1>1, TemporariesAreTakenDown, WatcherEndsWithItsCaptures, PTL
================================================================================
