----------------------------- MODULE DebugSession -----------------------------
(***************************************************************************)
(* The debugger session: the tool thread of the MCP server (the functions  *)
(* of tools/*.py run one at a time), the StopWatcher thread, and the stub. *)
(*                                                                         *)
(* The stub is seen through StopStream: a command is one round trip, which *)
(* GdbClient justifies as long as the stub answers in time.  So the        *)
(* session is connected throughout and its states are CONNECTED_PAUSED and *)
(* CONNECTED_RUNNING.  A breakpoint or watchpoint stands for its address   *)
(* and for the id registered for it; no address is registered twice.       *)
(* Operators commented "Mutant" are faulty variants of the definition that *)
(* follows them; no specification uses them.                               *)
(***************************************************************************)
EXTENDS StopStream, FiniteSets, SequencesExt

CONSTANTS Wp,         \* the watchpoints among Bp
          Tools,      \* the tools that are called
          MaxStops,   \* bound: no hit is raised while so many stops are unread
          Annotates,  \* do watchpoint hits name their address?
          MayDrop,    \* can the stub overlook an interrupt byte?
          MayReject   \* can the stub answer E to Z/z?

\* tools that raise WrongState while the watcher is alive
Foreground == {"get", "resume", "pause", "step", "wait", "run_until", "step_over"}
AllTools == Foreground \cup {"health", "mem", "add", "remove", "capture",
                             "capture_only", "stop", "stop_all", "trace"}
\* tools that create their own breakpoint; tools given the id of one
Creators == {"add", "run_until", "step_over", "trace"}
ById == {"remove", "capture", "capture_only", "stop"}

ASSUME ToolsAssumption == Tools \subseteq AllTools
ASSUME WpAssumption == Wp \subseteq Bp
ASSUME MaxStopsAssumption == MaxStops \in Nat
ASSUME FlagsAssumption == {Annotates, MayDrop, MayReject} \subseteq BOOLEAN

VARIABLES
  buf,        \* how many of stops are in _pending_replies, not on the wire
  armed,      \* stub: the breakpoints and watchpoints it has set
  state,      \* session.state: "paused" or "running"
  bps,        \* session.breakpoints
  auto,       \* those of them with auto_continue
  glock,      \* owner of session.gdb_lock: "free", "tool" or "watcher"
  tp,         \* where the tool thread is
  call,       \* the tool called, its breakpoint, session.state at the call
  frame,      \* _safe_to_modify and pause: packet, was_running, progress
  out,        \* how the last tool call ended
  wp,         \* where the watcher thread is; "off" when there is none
  hit,        \* the stop reply the watcher holds and the id it matched
  stopping,   \* the watcher's _stop_event
  logged      \* captures: the cause of the stop and the id it was logged for

stubVars == <<cpu, intr, armed>>
sessVars == <<state, bps, auto>>
toolVars == <<tp, call, frame, out>>
watchVars == <<wp, hit, stopping, logged>>
vars == <<streamVars, buf, armed, sessVars, glock, toolVars, watchVars>>

None == "none"
Alive == wp # "off"            \* session.watcher is not None and is_alive()

Init == /\ state \in {"paused", "running"}
        /\ cpu = IF state = "running" THEN "running" ELSE "halted"
        /\ intr = 0 /\ stops = <<>> /\ buf = 0
        /\ armed = {} /\ bps = {} /\ auto = {}
        /\ glock = "free" /\ tp = "idle" /\ out = "ok"
        /\ call = [tool |-> None, arg |-> None, before |-> state]
        /\ frame = [packet |-> None, was |-> FALSE, seen |-> FALSE, ok |-> FALSE,
                     tries |-> 0]
        /\ wp = "off" /\ stopping = FALSE /\ logged = {}
        /\ hit = [why |-> None, id |-> None]

-----------------------------------------------------------------------------
(* The stub's side of a call                                               *)

\* a command and its reply: interrupts sent before are served, and the stops
\* that precede the ack are moved to _pending_replies
RoundTrip == intr = 0 /\ buf' = Len(stops)

\* Mutant: stops that precede the ack are dropped instead of buffered
CommandDrops == intr = 0 /\ stops' = <<>> /\ buf' = 0 /\ UNCHANGED <<cpu, intr>>

Command == RoundTrip /\ UNCHANGED <<cpu, intr, stops>>
ContinueAsync == RoundTrip /\ Continue

\* Mutant: the packet returned is not removed from _pending_replies
TakeOneUncounted == Take(1) /\ UNCHANGED buf

\* wait_for_stop returns the oldest stop
TakeOne == Take(1) /\ buf' = IF buf > 0 THEN buf - 1 ELSE 0

\* drain_stop_replies
DrainAll == stops' = <<>> /\ buf' = 0 /\ UNCHANGED <<cpu, intr>>

-----------------------------------------------------------------------------
(* Tool thread: calls and returns                                          *)

Goto(l) == tp' = l /\ UNCHANGED <<call, out>>
Return(o) == tp' = "idle" /\ out' = o /\ UNCHANGED call

\* the breakpoint a tool is called with
Arg(t) == CASE t \in Creators -> Bp \ bps
            [] t \in ById     -> Bp
            [] OTHER          -> {None}

Entry(t) == CASE t \in {"get", "health", "step_over"}  -> "acq_query"
              [] t = "resume"    -> IF state = "running" THEN "idle" ELSE "acq_resume"
              [] t = "pause"     -> IF state = "paused" THEN "acq_query" ELSE "acq_pause"
              [] t = "step"      -> "acq_step"
              [] t = "wait"      -> IF state = "paused" THEN "idle" ELSE "acq_wait"
              [] t \in {"add", "run_until", "trace"}   -> "acq_modify"
              [] t = "remove"    -> "unregister"
              [] t \in {"capture", "capture_only"}     -> "mark"
              [] t \in {"stop", "stop_all"}            -> "unmark"
              [] t = "mem"       -> "mem"

\* add_breakpoint and add_watchpoint send Z, remove sends z
Modify(p) == frame' = [packet |-> p, was |-> FALSE, seen |-> FALSE, ok |-> FALSE,
                       tries |-> 0]

CallTool(t, b) ==
  /\ tp = "idle" /\ b \in Arg(t)
  /\ call' = [tool |-> t, arg |-> b, before |-> state]
  /\ IF t \in Foreground /\ Alive
       THEN tp' = "idle" /\ out' = "busy"
       ELSE /\ tp' = Entry(t)
            /\ out' = IF t = "wait" /\ state = "paused" THEN "wrong_state" ELSE "ok"
  /\ Modify("Z")
  /\ UNCHANGED <<streamVars, buf, armed, sessVars, glock, watchVars>>

\* with session.gdb_lock
Locked == [acq_query |-> "query", acq_resume |-> "resume", acq_pause |-> "probe",
           acq_step |-> "step", acq_wait |-> "wait"]

Acquire == /\ tp \in DOMAIN Locked /\ glock = "free"
           /\ glock' = "tool" /\ Goto(Locked[tp])
           /\ UNCHANGED <<streamVars, buf, armed, sessVars, frame, watchVars>>

Release == glock' = "free"

\* the tool thread wants session.gdb_lock
Waiting == tp \in DOMAIN Locked \cup {"acq_modify"}

-----------------------------------------------------------------------------
(* execution_tools                                                         *)

\* get_pc, get_lr, get_gprs...; health's probe; the first part of step_over
\* (which steps over a call and falls back to step for other instructions)
Query == /\ tp = "query" /\ Command /\ Release
         /\ IF call.tool = "step_over"
              THEN Goto("acq_modify") \/ Goto("acq_step") ELSE Return("ok")
         /\ UNCHANGED <<armed, sessVars, frame, watchVars>>

AfterResume == IF call.tool = "resume" THEN "idle" ELSE "acq_wait"

Resume == /\ tp = "resume" /\ ContinueAsync /\ Release
          /\ state' = "running"
          /\ Goto(AfterResume)
          /\ UNCHANGED <<armed, bps, auto, frame, watchVars>>

Step == /\ tp = "step" /\ StepInsn
        /\ buf' = Len(stops)
        /\ Goto("wait")
        /\ UNCHANGED <<armed, sessVars, glock, frame, watchVars>>

\* wait_for_hit, the wait of run_until, step_over and step_out, the end of step
AfterWait(o) == IF call.arg \in bps THEN Goto("unregister") ELSE Return(o)

WaitForStop == /\ tp = "wait" /\ TakeOne /\ Release
               /\ state' = "paused"
               /\ AfterWait("ok")
               /\ UNCHANGED <<armed, bps, auto, frame, watchVars>>

\* Mutant: a wait without a timeout
WaitForever == FALSE

WaitTimeout == /\ tp = "wait" /\ stops = <<>> /\ Release
               /\ AfterWait("timeout")
               /\ UNCHANGED <<streamVars, buf, armed, sessVars, frame, watchVars>>

\* pause(): probe, drain, then at most two interrupts
PauseProbe == /\ tp = "probe" /\ Command /\ Goto("pause_drain")
              /\ UNCHANGED <<armed, sessVars, glock, frame, watchVars>>

PauseDrain == /\ tp = "pause_drain" /\ DrainAll /\ Goto("pause_intr")
              /\ UNCHANGED <<armed, sessVars, glock, frame, watchVars>>

PauseInterrupt == /\ tp = "pause_intr" /\ Interrupt /\ Goto("pause_wait")
                  /\ frame' = [frame EXCEPT !.tries = @ + 1]
                  /\ UNCHANGED <<buf, armed, sessVars, glock, watchVars>>

PauseTake == /\ tp = "pause_wait" /\ TakeOne /\ Release
             /\ state' = "paused" /\ Return("ok")
             /\ UNCHANGED <<armed, bps, auto, frame, watchVars>>

PauseTimeout == /\ tp = "pause_wait" /\ stops = <<>> /\ intr = 0
                /\ IF frame.tries < 2
                     THEN Goto("pause_intr") /\ UNCHANGED glock
                     ELSE Return("timeout") /\ Release
                /\ UNCHANGED <<streamVars, buf, armed, sessVars, frame, watchVars>>

\* read_mem and write_mem through GDBMemoryBackend, which takes no lock
Mem == /\ tp = "mem" /\ Command /\ Return("ok")
       /\ UNCHANGED <<armed, sessVars, glock, frame, watchVars>>

-----------------------------------------------------------------------------
(* breakpoint_tools: _safe_to_modify around a Z or z packet                *)

\* Mutant: the lock is not waited for
ModifyBeginUnlocked ==
  /\ tp = "acq_modify"
  /\ frame' = [frame EXCEPT !.was = (state = "running"), !.seen = FALSE]
  /\ Goto(IF state = "running" THEN "m_probe" ELSE "modify")
  /\ UNCHANGED <<streamVars, buf, armed, sessVars, glock, watchVars>>

ModifyBegin == /\ tp = "acq_modify" /\ glock = "free"
               /\ glock' = "tool"
               /\ frame' = [frame EXCEPT !.was = (state = "running"), !.seen = FALSE]
               /\ Goto(IF state = "running" THEN "m_probe" ELSE "modify")
               /\ UNCHANGED <<streamVars, buf, armed, sessVars, watchVars>>

ModifyProbe == /\ tp = "m_probe" /\ Command /\ Goto("m_intr")
               /\ UNCHANGED <<armed, sessVars, glock, frame, watchVars>>

\* _quiesce_for_modify: interrupt, collect the stops until a silence, drain,
\* fence with qC, drain
QuiesceInterrupt == /\ tp = "m_intr" /\ Interrupt /\ Goto("m_collect")
                    /\ UNCHANGED <<buf, armed, sessVars, glock, frame, watchVars>>

QuiesceCollect == /\ tp = "m_collect" /\ TakeOne
                  /\ frame' = [frame EXCEPT !.seen = TRUE]
                  /\ UNCHANGED <<armed, sessVars, glock, tp, call, out, watchVars>>

\* a silence after a stop, or one second without any
QuiesceSilence == /\ tp = "m_collect" /\ stops = <<>>
                  /\ frame.seen \/ intr = 0
                  /\ Goto("m_drain")
                  /\ UNCHANGED <<streamVars, buf, armed, sessVars, glock, frame, watchVars>>

QuiesceDrain == /\ tp = "m_drain" /\ DrainAll /\ Goto("m_fence")
                /\ UNCHANGED <<armed, sessVars, glock, frame, watchVars>>

\* Mutant: nothing is drained after the fence
QuiesceFenceLast == /\ tp = "m_fence" /\ Command
                    /\ state' = "paused"
                    /\ Goto("modify")
                    /\ UNCHANGED <<armed, bps, auto, glock, frame, watchVars>>

QuiesceFence == /\ tp = "m_fence" /\ Command
                /\ state' = "paused"
                /\ Goto("m_drain2")
                /\ UNCHANGED <<armed, bps, auto, glock, frame, watchVars>>

ModifyDrain == /\ tp = "m_drain2" /\ DrainAll /\ Goto("modify")
               /\ UNCHANGED <<armed, sessVars, glock, frame, watchVars>>

\* Mutant: a rejected Z is registered as well
AfterModifyAlways(ok) == IF frame.packet = "Z" THEN Goto("register")
                         ELSE Return(IF call.tool = "remove" THEN "ok" ELSE out)

\* where a modification leads: a Z is registered, an error in it propagates;
\* an error of z is only logged
AfterModify(ok) == IF frame.packet = "Z"
                     THEN IF ok THEN Goto("register") ELSE Return("error")
                     ELSE Return(IF call.tool = "remove" THEN "ok" ELSE out)

\* the packet itself, accepted or rejected
ModifyPacket(ok) ==
  /\ tp = "modify" /\ Command
  /\ armed' = CASE ok /\ frame.packet = "Z" -> armed \cup {call.arg}
                [] ok /\ frame.packet = "z" -> armed \ {call.arg}
                [] OTHER                    -> armed
  /\ frame' = [frame EXCEPT !.ok = ok]
  /\ IF frame.was THEN Goto("m_drain3") /\ UNCHANGED glock
                  ELSE AfterModify(ok) /\ Release
  /\ UNCHANGED <<sessVars, watchVars>>

ModifyDrainAgain == /\ tp = "m_drain3" /\ DrainAll /\ Goto("m_resume")
                    /\ UNCHANGED <<armed, sessVars, glock, frame, watchVars>>

\* Mutant: mark_running is forgotten
ModifyResumeUnmarked == /\ tp = "m_resume" /\ ContinueAsync /\ Release
                        /\ AfterModify(frame.ok)
                        /\ UNCHANGED <<armed, sessVars, frame, watchVars>>

ModifyResume == /\ tp = "m_resume" /\ ContinueAsync /\ Release
                /\ state' = "running"
                /\ AfterModify(frame.ok)
                /\ UNCHANGED <<armed, bps, auto, frame, watchVars>>

-----------------------------------------------------------------------------
(* breakpoint_tools: the registry.  It is a dict the watcher iterates over *)
(* without a lock; a change of size under it raises RuntimeError there,    *)
(* which ends the watcher.                                                 *)

Iterating == wp \in {"scan", "match"} /\ bps # {}

RegistryResized ==
  \/ UNCHANGED <<glock, watchVars>>
  \/ /\ Iterating
     /\ wp' = "exiting" /\ glock' = IF wp = "match" THEN "free" ELSE glock
     /\ UNCHANGED <<hit, stopping, logged>>

Register ==
  /\ tp = "register"
  /\ bps' = bps \cup {call.arg}
  /\ RegistryResized
  /\ Goto(CASE call.tool = "add"    -> "idle"
            [] call.tool = "trace"  -> "mark"
            [] OTHER -> IF state = "running" THEN "acq_wait" ELSE "acq_resume")
  /\ UNCHANGED <<streamVars, buf, armed, state, auto, frame>>

Unregister ==
  /\ tp = "unregister" /\ call.arg \in bps
  /\ bps' = bps \ {call.arg} /\ auto' = auto \ {call.arg}
  /\ RegistryResized
  /\ Modify("z") /\ Goto("acq_modify")
  /\ UNCHANGED <<streamVars, buf, armed, state>>

UnregisterUnknown ==
  /\ tp = "unregister" /\ call.arg \notin bps
  /\ Return("ok")
  /\ UNCHANGED <<streamVars, buf, armed, sessVars, glock, frame, watchVars>>

-----------------------------------------------------------------------------
(* breakpoint_tools: capture_on_hit and stop_capturing                     *)

UnknownId == /\ tp \in {"mark", "unmark"}
             /\ call.tool # "stop_all" /\ call.arg \notin bps
             /\ Return("error")
             /\ UNCHANGED <<streamVars, buf, armed, sessVars, glock, frame, watchVars>>

CaptureOnHit == /\ tp = "mark" /\ call.arg \in bps
                /\ auto' = auto \cup {call.arg}
                /\ Goto(IF state = "paused" /\ call.tool # "capture_only"
                          THEN "u_resume" ELSE "start")
                /\ UNCHANGED <<streamVars, buf, armed, state, bps, glock, frame, watchVars>>

\* continue_async without the lock
CaptureResume == /\ tp = "u_resume" /\ ContinueAsync
                 /\ state' = "running"
                 /\ Goto("start")
                 /\ UNCHANGED <<armed, bps, auto, glock, frame, watchVars>>

\* ensure_watcher_running
StartWatcher == /\ tp = "start"
                /\ IF Alive THEN UNCHANGED <<wp, stopping>>
                            ELSE wp' = "scan" /\ stopping' = FALSE
                /\ Goto(IF call.tool = "trace" THEN "sleep" ELSE "idle")
                /\ UNCHANGED <<streamVars, buf, armed, sessVars, glock, frame, hit, logged>>

\* trace_writes_to and trace_calls_to: time.sleep(duration_s)
Sleep == /\ tp = "sleep" /\ Goto("unmark")
         /\ UNCHANGED <<streamVars, buf, armed, sessVars, glock, frame, watchVars>>

AfterStop == IF call.tool = "trace" THEN "unregister" ELSE "idle"

\* Mutant: the watcher is left to end by itself
StopCapturingOnly ==
  /\ tp = "unmark" /\ (call.tool = "stop_all" \/ call.arg \in bps)
  /\ auto' = IF call.tool = "stop_all" THEN {} ELSE auto \ {call.arg}
  /\ Goto(AfterStop)
  /\ UNCHANGED <<streamVars, buf, armed, state, bps, glock, frame, watchVars>>

StopCapturing == /\ tp = "unmark" /\ (call.tool = "stop_all" \/ call.arg \in bps)
                 /\ auto' = IF call.tool = "stop_all" THEN {} ELSE auto \ {call.arg}
                 /\ Goto(IF auto' = {} THEN "signal" ELSE AfterStop)
                 /\ UNCHANGED <<streamVars, buf, armed, state, bps, glock, frame, watchVars>>

\* stop_watcher: set the event, then join
SignalWatcher == /\ tp = "signal"
                 /\ stopping' = Alive
                 /\ Goto("join")
                 /\ UNCHANGED <<streamVars, buf, armed, sessVars, glock, frame, wp, hit, logged>>

JoinWatcher == /\ tp = "join" /\ ~Alive
               /\ Goto(AfterStop)
               /\ UNCHANGED <<streamVars, buf, armed, sessVars, glock, frame, watchVars>>

-----------------------------------------------------------------------------
(* StopWatcher.run                                                         *)

WatcherScan == /\ wp = "scan"
               /\ wp' = IF stopping \/ auto = {} THEN "exiting" ELSE "acquire"
               /\ UNCHANGED <<streamVars, buf, armed, sessVars, glock, toolVars,
                              hit, stopping, logged>>

WatcherExit == /\ wp = "exiting" /\ wp' = "off"
               /\ UNCHANGED <<streamVars, buf, armed, sessVars, glock, toolVars,
                              hit, stopping, logged>>

WatcherAcquire == /\ wp = "acquire" /\ glock = "free"
                  /\ IF stopping THEN wp' = "exiting" /\ UNCHANGED glock
                                 ELSE wp' = "poll" /\ glock' = "watcher"
                  /\ UNCHANGED <<streamVars, buf, armed, sessVars, toolVars,
                                 hit, stopping, logged>>

WatcherStop == /\ wp = "poll" /\ TakeOne
               /\ wp' = "match" /\ hit' = [why |-> Head(stops), id |-> None]
               /\ UNCHANGED <<armed, sessVars, glock, toolVars, stopping, logged>>

\* Mutant: the watcher waits without a poll interval
WatcherBlocks == FALSE

\* `continue' leaves the with block and goes round at once
WatcherTimeout == /\ wp = "poll" /\ stops = <<>>
                  /\ wp' = "scan" /\ Release
                  /\ UNCHANGED <<streamVars, buf, armed, sessVars, toolVars,
                                 hit, stopping, logged>>

\* _match_bp: by watch address or pc, else the only watchpoint registered
Match(c) == IF c \in bps /\ (c \notin Wp \/ Annotates) THEN c
            ELSE IF Cardinality(bps \cap Wp) = 1 THEN CHOOSE w \in bps \cap Wp : TRUE
            ELSE None

\* _handle_stop on a stop of a breakpoint that is captured
WatcherMatch == /\ wp = "match" /\ Match(hit.why) \in auto
                /\ hit' = [hit EXCEPT !.id = Match(hit.why)]
                /\ wp' = "read"
                /\ UNCHANGED <<streamVars, buf, armed, sessVars, glock, toolVars,
                               stopping, logged>>

\* any other stop goes to the end of _pending_replies and the watcher exits
WatcherSurface == /\ wp = "match" /\ Match(hit.why) \notin auto
                  /\ stops' = InsertAt(stops, buf + 1, hit.why)
                  /\ buf' = buf + 1
                  /\ state' = "paused"
                  /\ wp' = "exiting" /\ Release
                  /\ UNCHANGED <<cpu, intr, armed, bps, auto, toolVars,
                                 hit, stopping, logged>>

\* Mutant: the target is not resumed after a capture
WatcherCaptureOnly == /\ wp = "read" /\ Command /\ Release
                      /\ logged' = logged \cup {hit}
                      /\ wp' = "sleep"
                      /\ UNCHANGED <<armed, sessVars, toolVars, hit, stopping>>

\* the registers asked for are read and the capture is logged
WatcherCapture == /\ wp = "read" /\ Command
                  /\ logged' = logged \cup {hit}
                  /\ wp' = "resume"
                  /\ UNCHANGED <<armed, sessVars, glock, toolVars, hit, stopping>>

\* Mutant: the watcher keeps the lock while it sleeps
WatcherResumeLocked ==
  /\ wp = "resume" /\ ContinueAsync
  /\ wp' = "sleep"
  /\ UNCHANGED <<armed, sessVars, glock, toolVars, hit, stopping, logged>>

WatcherResume == /\ wp = "resume" /\ ContinueAsync /\ Release
                 /\ wp' = "sleep"
                 /\ UNCHANGED <<armed, sessVars, toolVars, hit, stopping, logged>>

\* one millisecond outside the lock: a tool waiting for it gets it
WatcherSleep == /\ wp = "sleep"
                /\ ~(glock = "free" /\ Waiting)
                /\ wp' = "scan"
                /\ UNCHANGED <<streamVars, buf, armed, sessVars, glock, toolVars,
                               hit, stopping, logged>>

-----------------------------------------------------------------------------
(* The stub (external)                                                     *)

StubHit(b) == /\ b \in armed /\ Len(stops) < MaxStops /\ Hit(b)
              /\ UNCHANGED <<buf, armed, sessVars, glock, toolVars, watchVars>>

StubInterrupt == /\ ServeInterrupt
                 /\ UNCHANGED <<buf, armed, sessVars, glock, toolVars, watchVars>>

StubDrop == /\ MayDrop /\ DropInterrupt
            /\ UNCHANGED <<buf, armed, sessVars, glock, toolVars, watchVars>>

UnlockedLabels == {"mem", "u_resume"}
LockedLabels == {"query", "resume", "step", "wait", "probe", "pause_drain", "pause_intr",
                 "pause_wait", "m_probe", "m_intr", "m_collect", "m_drain", "m_fence",
                 "m_drain2", "modify", "m_drain3", "m_resume"}
ToolLabels == LockedLabels \cup UnlockedLabels \cup DOMAIN Locked \cup
              {"idle", "acq_modify", "register", "unregister", "mark", "start",
               "sleep", "unmark", "signal", "join"}
WatcherOwns == {"poll", "match", "read", "resume"}
WatcherLabels == WatcherOwns \cup {"off", "scan", "acquire", "sleep", "exiting"}

\* where a thread is inside a call of the stub
ToolOnSocket == tp \in LockedLabels \cup UnlockedLabels
WatcherOnSocket == wp \in WatcherOwns \ {"match"}

-----------------------------------------------------------------------------
ToolWaits == Acquire \/ ModifyBegin

ToolSteps ==
  \/ Query \/ Resume \/ Step \/ WaitForStop \/ WaitTimeout \/ Mem
  \/ PauseProbe \/ PauseDrain \/ PauseInterrupt \/ PauseTake \/ PauseTimeout
  \/ ModifyProbe \/ QuiesceInterrupt \/ QuiesceCollect \/ QuiesceSilence
  \/ QuiesceDrain \/ QuiesceFence \/ ModifyDrain
  \/ ModifyPacket(TRUE) \/ (MayReject /\ ModifyPacket(FALSE))
  \/ ModifyDrainAgain \/ ModifyResume
  \/ Register \/ Unregister \/ UnregisterUnknown
  \/ UnknownId \/ CaptureOnHit \/ CaptureResume \/ StartWatcher \/ Sleep
  \/ StopCapturing \/ SignalWatcher \/ JoinWatcher

Watcher == \/ WatcherScan \/ WatcherExit \/ WatcherAcquire \/ WatcherStop
           \/ WatcherTimeout \/ WatcherMatch \/ WatcherSurface
           \/ WatcherCapture \/ WatcherResume \/ WatcherSleep

Stub == (\E b \in Bp : StubHit(b)) \/ StubInterrupt \/ StubDrop

Next == \/ \E t \in Tools : \E b \in Arg(t) : CallTool(t, b)
        \/ ToolWaits \/ ToolSteps \/ Watcher \/ Stub

Spec == Init /\ [][Next]_vars

\* Each thread is scheduled and the stub sees the bytes sent to it.  What the
\* lock grants is a separate question: a free lock goes to whoever asks first.
\* The watcher's sleep ends however often a tool asks for the lock meanwhile.
FairThreads == WF_vars(ToolWaits) /\ WF_vars(ToolSteps) /\ WF_vars(Watcher)
               /\ SF_vars(WatcherSleep) /\ WF_vars(StubInterrupt \/ StubDrop)
FairSpec == Spec /\ FairThreads

\* a lock that does not pass over the same waiting thread for ever
FairLockSpec == FairSpec /\ SF_vars(ToolWaits) /\ SF_vars(WatcherAcquire)
-----------------------------------------------------------------------------
(* Properties                                                              *)

TypeOK ==
  /\ StreamTypeOK
  /\ buf \in 0..Len(stops)
  /\ armed \subseteq Bp /\ bps \subseteq Bp /\ auto \subseteq bps
  /\ state \in {"paused", "running"}
  /\ glock \in {"free", "tool", "watcher"}
  /\ tp \in ToolLabels /\ wp \in WatcherLabels
  /\ call \in [tool : Tools \cup {None}, arg : Bp \cup {None}, before : {"paused", "running"}]
  /\ frame \in [packet : {None, "Z", "z"}, was : BOOLEAN, seen : BOOLEAN,
                ok : BOOLEAN, tries : 0..2]
  /\ out \in {"ok", "busy", "wrong_state", "timeout", "error"}
  /\ hit \in [why : Cause \cup {None}, id : Bp \cup {None}]
  /\ stopping \in BOOLEAN
  /\ logged \subseteq [why : Cause, id : Bp]

\* is_paused_tool, "Whether the emulator is currently paused at the stub": when
\* no tool is running, a session in CONNECTED_PAUSED has a halted CPU.
PausedMeansHalted == tp = "idle" /\ state = "paused" => cpu = "halted"

\* No stop is lost: a CPU that halted behind a session in CONNECTED_RUNNING is
\* announced by a stop reply that wait_for_hit or the watcher will still see.
HaltIsAnnounced ==
  tp = "idle" /\ ~Alive /\ state = "running" /\ cpu = "halted" => stops # <<>>

\* The registry only lists what the stub has set, even when a Z or z is refused
\* half way; and nothing stays set behind it once the tool returns, unless the
\* stub refused to remove it.
RegistryMatchesStub ==
  /\ bps \subseteq armed
  /\ tp = "idle" /\ ~MayReject => armed = bps

\* trace_writes_to and trace_calls_to clean up: when they return, their
\* breakpoint is neither registered nor captured nor set in the stub, and the
\* watcher is gone unless another capture needs it.
TraceLeavesNothing ==
  tp = "idle" /\ call.tool = "trace" =>
    /\ call.arg \notin bps \cup auto
    /\ ~MayReject => call.arg \notin armed
    /\ auto = {} => ~Alive

\* _quiesce_for_modify, "Force the stub into a known-paused, no-bytes-in-flight
\* state": Z and z are sent to a halted CPU, with no stop reply and no
\* interrupt on its way.
QuiescedForModify ==
  tp = "modify" => cpu = "halted" /\ stops = <<>> /\ intr = 0

\* session.gdb_lock, "Serializes ALL GDB stub access": the tool thread and the
\* watcher are never both in a call of the stub.
SocketExclusive == ~(ToolOnSocket /\ WatcherOnSocket)

\* Every tool call returns.
ToolReturns == (tp # "idle") ~> (tp = "idle")

\* Capturing does not freeze the game: a CPU that halts while the watcher serves
\* a captured breakpoint runs again, unless the stop is surfaced (the session
\* is then CONNECTED_PAUSED), the capture is ended or the watcher dies.
CaptureKeepsRunning ==
  (cpu = "halted" /\ state = "running" /\ auto # {} /\ Alive)
     ~> (cpu = "running" \/ state = "paused" \/ auto = {} \/ ~Alive)

-----------------------------------------------------------------------------
(* What comments and docstrings say and the code does not do               *)

\* _match_bp, "exactly one watchpoint armed": a capture is logged for the
\* watchpoint whose hit it is.
AttributionRight == \A c \in logged : c.id = c.why

\* stop_watcher.py, "While any BP/WP is marked auto_continue, the watcher owns
\* the GDB connection": while the target runs, a captured breakpoint has a
\* living watcher.
WatcherServes == tp = "idle" /\ state = "running" /\ auto # {} => Alive

\* StopWatcher.run surfaces a stop "so the next wait_for_hit sees it": a stop
\* the watcher has put aside is not refused to wait_for_hit.
SurfacedIsSeen ==
  ~(call.tool = "wait" /\ tp = "idle" /\ out = "wrong_state" /\ buf > 0 /\ ~Alive)

\* trace_writes_to, "The user just plays the game": a trace of a running game
\* leaves it running.
GameGoesOn ==
  tp = "idle" /\ call.tool = "trace" /\ call.before = "running" => state = "running"

\* StopWatcher, "The watcher's short poll_interval bounds how long they wait":
\* a tool that waits for the lock gets it.
LockIsGranted == Waiting ~> glock = "tool"

=============================================================================
