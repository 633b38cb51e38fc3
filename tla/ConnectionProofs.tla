--------------------------- MODULE ConnectionProofs ---------------------------
(***************************************************************************)
(* Proofs about Connection: its types, and that session._lock and          *)
(* session.gdb_lock do what ensure_connected and the tools take them for,  *)
(* for any set of breakpoints and any cap of the backoff.                  *)
(***************************************************************************)
EXTENDS Connection, FiniteSetTheorems, TLAPS

\* TypeOK is not inductive: what add and remove leave in the registry is a set
\* of breakpoints because they are called for one.
CallNamesBp == tool.op \in {"add", "remove"} => tool.bp \in Bp

-----------------------------------------------------------------------------
(* Types                                                                   *)

\* The session is well typed when the server starts.
LEMMA TypeInit == Init => TypeOK /\ CallNamesBp
  <1> SUFFICES ASSUME Init PROVE TypeOK /\ CallNamesBp
    OBVIOUS
  <1>1. stub \in {"serves", "frozen", "refuses"}
    BY DEF Init
  <1>2. pc \in [Threads -> Labels]
    BY DEF Init, Labels
  <1>3. backoff \in 0..MaxBackoff
    BY MaxBackoffAssumption DEF Init
  <1> QED BY <1>1, <1>2, <1>3 DEF Init, TypeOK, CallNamesBp

\* Every step of ensure_connected, on either thread, keeps the session typed.
LEMMA EnsureType ==
  ASSUME TypeOK, NEW t \in Threads, Ensure(t)
  PROVE  TypeOK'
  <1> USE DEF TypeOK, Goto, dolphinVars, Labels
  <1>1. CASE EnterConnected(t)
    BY <1>1 DEF EnterConnected
  <1>2. CASE Enter(t)
    BY <1>2 DEF Enter
  <1>3. CASE Dial(t)
    BY <1>3 DEF Dial, Fail
  <1>4. CASE WhyHalted(t) \/ WhyRefused(t)
    BY <1>4 DEF WhyHalted, WhyRefused, Fail, AfterFailure, Lost
  <1>5. CASE ResumeLock(t)
    BY <1>5 DEF ResumeLock
  <1>6. CASE AutoContinue(t)
    BY <1>6 DEF AutoContinue, AfterFailure, Lost
  <1>7. CASE TryAttach(t)
    BY <1>7 DEF TryAttach
  <1> QED BY <1>1, <1>2, <1>3, <1>4, <1>5, <1>6, <1>7 DEF Ensure

\* So does every other step of the worker; the backoff stays below its cap.
LEMMA WorkerType ==
  ASSUME TypeOK, Tick \/ WorkerDone
  PROVE  TypeOK'
  <1> USE MaxBackoffAssumption DEF TypeOK, Goto, dolphinVars, Labels, Threads
  <1>1. CASE Tick
    BY <1>1 DEF Tick
  <1>2. CASE WorkerDone
    <2>1. backoff' \in 0..MaxBackoff
      BY <1>2 DEF WorkerDone
    <2> QED BY <1>2, <2>1 DEF WorkerDone
  <1> QED BY <1>1, <1>2

\* And every step of the tool thread outside ensure_connected.
LEMMA ToolType ==
  ASSUME TypeOK, CallNamesBp,
         \/ ToolFails \/ HealthClosed \/ MemRoute \/ MemStub \/ ToolLock \/ UseStub
         \/ Calls
  PROVE  TypeOK'
  <1> USE DEF TypeOK, Goto, dolphinVars, Labels, Threads
  <1>1. CASE ToolFails \/ HealthClosed \/ MemRoute
    BY <1>1 DEF ToolFails, HealthClosed, MemRoute
  <1>2. CASE ToolLock
    BY <1>2 DEF ToolLock
  <1>3. CASE UseStub
    <2>1. armed' \subseteq Bp /\ bps' \subseteq Bp
      BY <1>3 DEF UseStub, Answered, Unanswered, CallNamesBp
    <2>2. /\ state' \in {"disconnected", "paused", "running", "error"}
          /\ sock' \in {"none", "up", "eof"}
      BY <1>3 DEF UseStub, Answered, Unanswered, AfterFailure, Lost
    <2> QED BY <1>3, <2>1, <2>2 DEF UseStub
  <1>4. CASE Calls
    BY <1>4 DEF Calls, ToolCall, Disconnect
  <1>5. CASE MemStub
    BY <1>5 DEF MemStub, AfterFailure, Lost
  <1> QED BY <1>1, <1>2, <1>3, <1>4, <1>5

\* Dolphin starts, exits and freezes without disturbing a type.
LEMMA DolphinType ==
  ASSUME TypeOK, Exit \/ Launch \/ Behave
  PROVE  TypeOK'
  BY DEF TypeOK, Exit, Launch, Behave

\* The session, the worker, the tool thread and Dolphin are well typed.
THEOREM SessionTypeCorrect == Spec => [](TypeOK /\ CallNamesBp)
  <1>1. TypeOK /\ CallNamesBp /\ [Next]_vars => TypeOK' /\ CallNamesBp'
    <2> SUFFICES ASSUME TypeOK, CallNamesBp, [Next]_vars
                 PROVE  TypeOK' /\ CallNamesBp'
      OBVIOUS
    <2>1. CASE UNCHANGED vars
      BY <2>1 DEF vars, dolphinVars, TypeOK, CallNamesBp
    <2>2. CASE \E t \in Threads : Ensure(t)
      <3>1. UNCHANGED tool
        BY <2>2 DEF Ensure, EnterConnected, Enter, Dial, WhyHalted, WhyRefused, TryAttach,
                    ResumeLock, AutoContinue
      <3> QED BY <2>2, <3>1, EnsureType DEF CallNamesBp
    <2>3. CASE Tick \/ WorkerDone
      <3>1. UNCHANGED tool
        BY <2>3 DEF Tick, WorkerDone
      <3> QED BY <2>3, <3>1, WorkerType DEF CallNamesBp
    <2>4. CASE ToolFails \/ HealthClosed \/ MemRoute \/ MemStub \/ ToolLock \/ UseStub
      <3>1. UNCHANGED tool
        BY <2>4 DEF ToolFails, HealthClosed, MemRoute, MemStub, ToolLock, UseStub
      <3> QED BY <2>4, <3>1, ToolType DEF CallNamesBp
    <2>5. CASE Calls
      <3>1. CallNamesBp'
        BY <2>5 DEF Calls, ToolCall, Disconnect, CallNamesBp
      <3> QED BY <2>5, <3>1, ToolType
    <2>6. CASE Exit \/ Launch \/ Behave
      <3>1. UNCHANGED tool
        BY <2>6 DEF Exit, Launch, Behave
      <3> QED BY <2>6, <3>1, DolphinType DEF CallNamesBp
    <2> QED
      BY <2>1, <2>2, <2>3, <2>4, <2>5, <2>6 DEF Next, WorkerNext, ToolNext, Threads
  <1> QED BY <1>1, TypeInit, PTL DEF Spec

-----------------------------------------------------------------------------
(* The locks                                                               *)

\* A step of ensure_connected takes a lock only when it is free, and leaves the
\* section a lock protects in the step that gives the lock back.
LEMMA EnsureAlone ==
  ASSUME TypeOK, ConnectsAlone, NEW t \in Threads, Ensure(t)
  PROVE  ConnectsAlone'
  <1> USE DEF TypeOK, ConnectsAlone, Goto, Labels, Threads
  <1>1. CASE EnterConnected(t)
    BY <1>1 DEF EnterConnected
  <1>2. CASE Enter(t)
    BY <1>2 DEF Enter
  <1>3. CASE Dial(t)
    BY <1>3 DEF Dial, Fail
  <1>4. CASE WhyHalted(t) \/ WhyRefused(t)
    BY <1>4 DEF WhyHalted, WhyRefused, Fail
  <1>5. CASE ResumeLock(t)
    BY <1>5 DEF ResumeLock
  <1>6. CASE AutoContinue(t)
    BY <1>6 DEF AutoContinue
  <1>7. CASE TryAttach(t)
    BY <1>7 DEF TryAttach
  <1> QED BY <1>1, <1>2, <1>3, <1>4, <1>5, <1>6, <1>7 DEF Ensure

\* ensure_connected runs on one thread at a time, and what is done under
\* gdb_lock, the first resume and the calls of the tools, excludes each other:
\* for any number of breakpoints, with auto-resume or without, and whatever
\* Dolphin does.
THEOREM OneThreadConnects == Spec => []ConnectsAlone
  <1>1. Init => ConnectsAlone
    BY DEF Init, ConnectsAlone, Threads
  <1>2. TypeOK /\ ConnectsAlone /\ [Next]_vars => ConnectsAlone'
    <2> SUFFICES ASSUME TypeOK, ConnectsAlone, [Next]_vars PROVE ConnectsAlone'
      OBVIOUS
    <2> USE DEF TypeOK, ConnectsAlone, Goto, Labels, Threads
    <2>1. CASE UNCHANGED vars
      BY <2>1 DEF vars
    <2>2. CASE \E t \in Threads : Ensure(t)
      BY <2>2, EnsureAlone
    <2>3. CASE Tick \/ WorkerDone
      BY <2>3 DEF Tick, WorkerDone
    <2>4. CASE ToolFails \/ HealthClosed \/ MemRoute \/ MemStub
      BY <2>4 DEF ToolFails, HealthClosed, MemRoute, MemStub
    <2>5. CASE ToolLock
      BY <2>5 DEF ToolLock
    <2>6. CASE UseStub
      BY <2>6 DEF UseStub
    <2>7. CASE Calls
      BY <2>7 DEF Calls, ToolCall, Disconnect
    <2>8. CASE Exit \/ Launch \/ Behave
      BY <2>8 DEF Exit, Launch, Behave
    <2> QED
      BY <2>1, <2>2, <2>3, <2>4, <2>5, <2>6, <2>7, <2>8
         DEF Next, WorkerNext, ToolNext
  <1> QED BY <1>1, <1>2, SessionTypeCorrect, PTL DEF Spec

-----------------------------------------------------------------------------
(* The socket                                                              *)

\* What stands in for gdb_lock where it is not taken: a tool past its
\* ensure_connected finds the session connected, so the worker is not dialing and
\* does not begin to; and the worker calls the stub nowhere else.
Using == {"connected", "mem", "call"}
Dialing == {"dial", "why", "attach", "resume_lock", "resume"}

WorkerKeepsOut ==
  /\ pc["worker"] \notin {"mem", "call"}
  /\ tool.op # "health" /\ pc["tool"] \in Using => Connected /\ pc["worker"] \notin Dialing
  /\ \A t \in Threads : pc[t] \in {"attach", "resume_lock", "resume"} => Connected
  /\ tool.op = "health" => pc["tool"] \notin {"mem"} \cup {"enter", "failed"} \cup Dialing

\* A tool leaves ensure_connected for the stub in a connected session, when the
\* worker does not hold _lock.
LEMMA EnsureKeepsOut ==
  ASSUME TypeOK, ConnectsAlone, WorkerKeepsOut, NEW t \in Threads, Ensure(t)
  PROVE  WorkerKeepsOut'
  <1> USE DEF TypeOK, ConnectsAlone, WorkerKeepsOut, Using, Dialing, Connected, Goto,
              Labels, Threads
  <1>1. CASE EnterConnected(t)
    BY <1>1 DEF EnterConnected
  <1>2. CASE Enter(t)
    BY <1>2 DEF Enter
  <1>3. CASE Dial(t)
    BY <1>3 DEF Dial, Fail
  <1>4. CASE WhyHalted(t) \/ WhyRefused(t)
    BY <1>4 DEF WhyHalted, WhyRefused, Fail
  <1>5. CASE ResumeLock(t)
    BY <1>5 DEF ResumeLock
  <1>6. CASE AutoContinue(t)
    BY <1>6 DEF AutoContinue
  <1>7. CASE TryAttach(t)
    BY <1>7 DEF TryAttach
  <1> QED BY <1>1, <1>2, <1>3, <1>4, <1>5, <1>6, <1>7 DEF Ensure

\* The worker, the tools and Dolphin keep it that way: no tool in its call is
\* disconnected by another thread.
LEMMA StepKeepsOut ==
  ASSUME TypeOK, ConnectsAlone, WorkerKeepsOut, [Next]_vars
  PROVE  WorkerKeepsOut'
  <1> USE DEF TypeOK, ConnectsAlone, WorkerKeepsOut, Using, Dialing, Connected, Goto,
              Labels, Threads
  <1>1. CASE UNCHANGED vars
    BY <1>1 DEF vars
  <1>2. CASE \E t \in Threads : Ensure(t)
    BY <1>2, EnsureKeepsOut
  <1>3. CASE Tick \/ WorkerDone
    BY <1>3 DEF Tick, WorkerDone
  <1>4. CASE ToolFails \/ HealthClosed \/ MemRoute \/ MemStub
    BY <1>4 DEF ToolFails, HealthClosed, MemRoute, MemStub
  <1>5. CASE ToolLock
    BY <1>5 DEF ToolLock
  <1>6. CASE UseStub
    BY <1>6 DEF UseStub, Answered, Unanswered
  <1>7. CASE Calls
    BY <1>7 DEF Calls, ToolCall, Disconnect
  <1>8. CASE Exit \/ Launch \/ Behave
    BY <1>8 DEF Exit, Launch, Behave
  <1> QED
    BY <1>1, <1>2, <1>3, <1>4, <1>5, <1>6, <1>7, <1>8
       DEF Next, WorkerNext, ToolNext

\* Dialing, its `?' and the memory tools are alone on the socket although they do
\* not hold gdb_lock; health may not be.
THEOREM SocketAlone == Spec => []AloneOnSocket
  <1>1. Init => WorkerKeepsOut
    BY DEF Init, WorkerKeepsOut, Using, Dialing, Threads
  <1>2. TypeOK /\ ConnectsAlone /\ WorkerKeepsOut => AloneOnSocket
    <2> SUFFICES ASSUME TypeOK, ConnectsAlone, WorkerKeepsOut, tool.op # "health"
                 PROVE  Cardinality(OnSocket) <= 1
      BY DEF AloneOnSocket
    <2>1. ~("tool" \in OnSocket /\ "worker" \in OnSocket)
      BY DEF OnSocket, ConnectsAlone, WorkerKeepsOut, Using, Dialing, Threads
    <2>2. OnSocket = {} \/ \E t \in Threads : OnSocket = {t}
      BY <2>1 DEF OnSocket, Threads
    <2>3. CASE OnSocket = {}
      BY <2>3, FS_EmptySet
    <2>4. ASSUME NEW t \in Threads, OnSocket = {t} PROVE Cardinality(OnSocket) <= 1
      <3>1. Cardinality({t}) = 1
        BY FS_Singleton
      <3> QED BY <2>4, <3>1
    <2> QED BY <2>2, <2>3, <2>4
  <1> QED BY <1>1, <1>2, StepKeepsOut, SessionTypeCorrect, OneThreadConnects, PTL DEF Spec
-----------------------------------------------------------------------------
(* The process memory is read from                                         *)

\* MemIsOfThisDolphin holds because a new connection is only dialed in a session
\* that is not connected, and one that is has attached anew, or is about to:
\* _lock keeps the tools out until it has.
AttachesAnew ==
  /\ \A t \in Threads : pc[t] \in {"dial", "why"} => ~Connected
  /\ attach # "none" => CanAttach
  /\ attach = "gone" /\ sock = "up" => ~Connected \/ \E t \in Threads : pc[t] = "attach"

\* Dialing leaves the session unconnected, `?' leaves the attaching to do, and
\* attaching leaves no process that is gone.
LEMMA EnsureAttaches ==
  ASSUME TypeOK, ConnectsAlone, WorkerKeepsOut, AttachesAnew, NEW t \in Threads, Ensure(t)
  PROVE  AttachesAnew'
  <1> USE DEF TypeOK, ConnectsAlone, WorkerKeepsOut, AttachesAnew, Connected, Goto, Labels, Threads
  <1>1. CASE EnterConnected(t)
    BY <1>1 DEF EnterConnected
  <1>2. CASE Enter(t)
    BY <1>2 DEF Enter
  <1>3. CASE Dial(t)
    BY <1>3 DEF Dial, Fail
  <1>4. CASE WhyHalted(t) \/ WhyRefused(t)
    BY <1>4 DEF WhyHalted, WhyRefused, Fail, AfterFailure, Lost
  <1>5. CASE ResumeLock(t)
    BY <1>5 DEF ResumeLock
  <1>6. CASE AutoContinue(t)
    BY <1>6 DEF AutoContinue, AfterFailure, Lost
  <1>7. CASE TryAttach(t)
    <2>1. CASE CanAttach
      BY <1>7, <2>1 DEF TryAttach
    <2>2. CASE ~CanAttach
      BY <1>7, <2>2 DEF TryAttach
    <2> QED BY <2>1, <2>2
  <1> QED BY <1>1, <1>2, <1>3, <1>4, <1>5, <1>6, <1>7 DEF Ensure

\* The process can only go while it takes the connection with it, and no tool
\* makes a connected session of one that is not.
LEMMA StepAttaches ==
  ASSUME TypeOK, ConnectsAlone, WorkerKeepsOut, AttachesAnew, [Next]_vars
  PROVE  AttachesAnew'
  <1> USE DEF TypeOK, ConnectsAlone, WorkerKeepsOut, AttachesAnew, Connected, Goto, Labels, Threads
  <1>1. CASE UNCHANGED vars
    BY <1>1 DEF vars
  <1>2. CASE \E t \in Threads : Ensure(t)
    BY <1>2, EnsureAttaches
  <1>3. CASE Tick \/ WorkerDone
    BY <1>3 DEF Tick, WorkerDone
  <1>4. CASE ToolFails \/ HealthClosed \/ MemRoute \/ MemStub
    BY <1>4 DEF ToolFails, HealthClosed, MemRoute, MemStub, AfterFailure, Lost
  <1>5. CASE ToolLock
    BY <1>5 DEF ToolLock
  <1>6. CASE UseStub
    BY <1>6 DEF UseStub, Answered, Unanswered, AfterFailure, Lost
  <1>7. CASE Calls
    BY <1>7 DEF Calls, ToolCall, Disconnect
  <1>8. CASE Exit \/ Launch \/ Behave
    BY <1>8 DEF Exit, Launch, Behave
  <1> QED
    BY <1>1, <1>2, <1>3, <1>4, <1>5, <1>6, <1>7, <1>8
       DEF Next, WorkerNext, ToolNext

\* A memory tool never reads the process of an earlier Dolphin while the session
\* has a connection: whichever thread made it, and however often Dolphin was
\* launched, lost and disconnected before.
THEOREM ReadsThisDolphin == Spec => []MemIsOfThisDolphin
  <1>1. Init => AttachesAnew
    BY DEF Init, AttachesAnew, Threads, Connected
  <1>2. Init => WorkerKeepsOut
    BY DEF Init, WorkerKeepsOut, Using, Dialing, Threads
  <1>3. TypeOK /\ ConnectsAlone /\ WorkerKeepsOut /\ AttachesAnew => MemIsOfThisDolphin
    BY DEF AttachesAnew, WorkerKeepsOut, Using, Dialing, MemIsOfThisDolphin, Threads
  <1> QED BY <1>1, <1>2, <1>3, StepKeepsOut, StepAttaches, SessionTypeCorrect,
             OneThreadConnects, PTL DEF Spec

-----------------------------------------------------------------------------
(* The two locks together                                                  *)

\* A lock is owned exactly while its owner is where the code holds it.
LocksAreOwned ==
  /\ \A t \in Threads : slock = t <=> pc[t] \in Dialing
  /\ \A t \in Threads : glock = t <=> pc[t] \in {"resume", "call"}

\* t can not go on before u gives a lock back
WaitsFor(t, u) ==
  \/ pc[t] = "enter" /\ slock = u
  \/ pc[t] = "resume_lock" /\ glock = u
  \/ t = "tool" /\ pc[t] = "connected" /\ Locking /\ glock = u

\* _lock and gdb_lock are never taken in a circle: who waits waits for a thread
\* that waits for none.
NoCircularWait ==
  \A t, u \in Threads : WaitsFor(t, u) => t # u /\ \A v \in Threads : ~WaitsFor(u, v)

\* ensure_connected gives each lock back on every way out of its section, the
\* failed dial and the unanswered `?' included.
LEMMA EnsureOwns ==
  ASSUME TypeOK, LocksAreOwned, NEW t \in Threads, Ensure(t)
  PROVE  LocksAreOwned'
  <1> USE DEF TypeOK, LocksAreOwned, Dialing, Goto, Labels, Threads
  <1>1. CASE EnterConnected(t)
    BY <1>1 DEF EnterConnected
  <1>2. CASE Enter(t)
    BY <1>2 DEF Enter
  <1>3. CASE Dial(t)
    BY <1>3 DEF Dial, Fail
  <1>4. CASE WhyHalted(t) \/ WhyRefused(t)
    BY <1>4 DEF WhyHalted, WhyRefused, Fail
  <1>5. CASE ResumeLock(t)
    BY <1>5 DEF ResumeLock
  <1>6. CASE AutoContinue(t)
    BY <1>6 DEF AutoContinue
  <1>7. CASE TryAttach(t)
    BY <1>7 DEF TryAttach
  <1> QED BY <1>1, <1>2, <1>3, <1>4, <1>5, <1>6, <1>7 DEF Ensure

\* So does every tool, whether the stub answers it or not.
LEMMA StepOwns ==
  ASSUME TypeOK, LocksAreOwned, [Next]_vars
  PROVE  LocksAreOwned'
  <1> USE DEF TypeOK, LocksAreOwned, Dialing, Goto, Labels, Threads
  <1>1. CASE UNCHANGED vars
    BY <1>1 DEF vars
  <1>2. CASE \E t \in Threads : Ensure(t)
    BY <1>2, EnsureOwns
  <1>3. CASE Tick \/ WorkerDone
    BY <1>3 DEF Tick, WorkerDone
  <1>4. CASE ToolFails \/ HealthClosed \/ MemRoute \/ MemStub
    BY <1>4 DEF ToolFails, HealthClosed, MemRoute, MemStub
  <1>5. CASE ToolLock
    BY <1>5 DEF ToolLock
  <1>6. CASE UseStub
    BY <1>6 DEF UseStub
  <1>7. CASE Calls
    BY <1>7 DEF Calls, ToolCall, Disconnect
  <1>8. CASE Exit \/ Launch \/ Behave
    BY <1>8 DEF Exit, Launch, Behave
  <1> QED
    BY <1>1, <1>2, <1>3, <1>4, <1>5, <1>6, <1>7, <1>8
       DEF Next, WorkerNext, ToolNext

\* No failed connection keeps a lock, and ensure_connected, which takes gdb_lock
\* while it holds _lock, never waits in a circle with a tool that holds gdb_lock:
\* what ToolReturns needs besides the scheduling.
THEOREM LocksNest == Spec => [](LocksAreOwned /\ NoCircularWait)
  <1>1. Init => LocksAreOwned
    BY DEF Init, LocksAreOwned, Dialing, Threads
  <1>2. TypeOK /\ LocksAreOwned => NoCircularWait
    BY DEF TypeOK, LocksAreOwned, NoCircularWait, WaitsFor, Dialing, Threads
  <1> QED BY <1>1, <1>2, StepOwns, SessionTypeCorrect, PTL DEF Spec

-----------------------------------------------------------------------------
(* The registry and a change of Dolphin                                    *)

\* RegistryIsHonest does not hold: session.breakpoints outlives the Dolphin its
\* breakpoints are set in.  That is the only way it fails: an add or a remove that
\* is lost half way, a connection that breaks or is given up, a reconnection and a
\* disconnect leave nothing registered that the stub has not set.
THEOREM StaleOnlyByExit ==
  /\ Spec => [][bps \subseteq armed /\ ~(bps' \subseteq armed') => Exit]_vars
  /\ Spec /\ [][~Exit]_vars => []RegistryIsHonest
  <1>1. ASSUME [Next]_vars, bps \subseteq armed, ~Exit
        PROVE  bps' \subseteq armed'
    <2> USE <1>1 DEF dolphinVars
    <2>1. CASE \E t \in Threads : Ensure(t)
      BY <2>1 DEF Ensure, EnterConnected, Enter, Dial, WhyHalted, WhyRefused, TryAttach, ResumeLock,
         AutoContinue
    <2>2. CASE Tick \/ WorkerDone \/ Launch \/ Behave \/ UNCHANGED vars
      BY <2>2 DEF Tick, WorkerDone, Launch, Behave, vars
    <2>3. CASE ToolFails \/ HealthClosed \/ MemRoute \/ MemStub \/ ToolLock
      BY <2>3 DEF ToolFails, HealthClosed, MemRoute, MemStub, ToolLock
    <2>4. CASE UseStub
      BY <2>4 DEF UseStub, Answered, Unanswered
    <2>5. CASE Calls
      BY <2>5 DEF Calls, ToolCall, Disconnect
    <2> QED BY <2>1, <2>2, <2>3, <2>4, <2>5 DEF Next, WorkerNext, ToolNext, Threads
  <1>2. Spec => [][bps \subseteq armed /\ ~(bps' \subseteq armed') => Exit]_vars
    <2>1. [Next]_vars => [bps \subseteq armed /\ ~(bps' \subseteq armed') => Exit]_vars
      BY <1>1
    <2> QED BY <2>1, PTL DEF Spec
  <1>3. Spec /\ [][~Exit]_vars => []RegistryIsHonest
    <2> DEFINE Kept == bps \subseteq armed
    <2>1. Init => Kept
      BY DEF Init
    <2>2. Kept /\ [Next]_vars /\ [~Exit]_vars => Kept'
      <3>1. UNCHANGED vars => UNCHANGED <<bps, armed>>
        BY DEF vars, dolphinVars
      <3> QED BY <1>1, <3>1
    <2>3. Kept => RegistryIsHonest
      BY DEF RegistryIsHonest
    <2> HIDE DEF Kept
    <2> QED BY <2>1, <2>2, <2>3, PTL DEF Spec
  <1> QED BY <1>2, <1>3

=============================================================================
