------------------------------ MODULE Connection ------------------------------
(***************************************************************************)
(* The connection life cycle: Session.ensure_connected and disconnect, the *)
(* auto-connect worker, one tool thread, and a Dolphin that is launched,   *)
(* exits and is UI-paused.  Its listener serves one connection per launch. *)
(*                                                                         *)
(* A call of the stub is one step that answers, times out (UI-pause), is   *)
(* refused with a `-' or finds the connection lost; GdbClient models what  *)
(* happens inside it.                                                      *)
(* Breakpoints appear as far as they outlive a connection.                 *)
(* Operators commented "Mutant" are faulty variants of the definition that *)
(* follows them; no specification uses them.                               *)
(***************************************************************************)
EXTENDS Naturals, FiniteSets

CONSTANTS Bp,             \* breakpoints
          MaxBackoff,     \* bound: distinct backoff intervals of the worker
          AutoResume,     \* DOLPHIN_NO_AUTO_RESUME is not set
          CanAttach,      \* is the platform win32?
          MayFreeze,      \* can Dolphin be UI-paused?
          MayRefuse,      \* can the stub refuse packets for a while?
          MayExit,        \* can Dolphin exit, and be launched again?
          MayDisconnect   \* is Session.disconnect called?

ASSUME MaxBackoffAssumption == MaxBackoff \in Nat
ASSUME FlagsAssumption ==
         {AutoResume, CanAttach, MayFreeze, MayRefuse, MayExit, MayDisconnect} \subseteq BOOLEAN

VARIABLES
  \* Dolphin
  dolphin,   \* "off", "listening", "attached", or "deaf" once its client is gone
  stub,      \* "serves", "frozen" (UI-paused, it serves nothing), or "refuses"
  cpu,       \* "halted" or "running"
  armed,     \* the breakpoints set in it
  \* the session
  sock,      \* stub.sock: "none", "up", or "eof" (open, but the peer is gone)
  state,     \* session.state
  bps,       \* session.breakpoints
  attach,    \* session.attach_backend: "none", or its process, "live" or "gone"
  slock,     \* owner of session._lock
  glock,     \* owner of session.gdb_lock
  \* the threads
  pc,        \* where each thread is
  tool,      \* what the tool thread was called for, and for which breakpoint
  backoff    \* the worker's interval, in steps of BACKOFF_FACTOR

dolphinVars == <<dolphin, stub, cpu, armed>>
vars == <<dolphinVars, sock, state, bps, attach, slock, glock, pc, tool, backoff>>

Threads == {"tool", "worker"}
Connected == state \in {"paused", "running"}

Init == /\ dolphin \in {"off", "listening"} /\ stub = "serves"
        /\ cpu = "halted" /\ armed = {}
        /\ sock = "none" /\ state = "disconnected" /\ bps = {} /\ attach = "none"
        /\ slock = "free" /\ glock = "free"
        /\ pc = [t \in Threads |-> "idle"]
        /\ tool = [op |-> "none", bp |-> "none"]
        /\ backoff = 0

\* how a call of the stub ends
Answers == sock = "up" /\ stub = "serves"
Lost == sock # "up"
AfterFailure == sock' = IF Lost THEN "none" ELSE sock    \* _read_exact closes it

Goto(t, l) == pc' = [pc EXCEPT ![t] = l]

-----------------------------------------------------------------------------
(* Session.ensure_connected, run by thread t under session._lock           *)

\* Mutant: the state is asked before the lock is taken
EnterConnectedUnlocked(t) == /\ pc[t] = "enter" /\ Connected
                             /\ Goto(t, "connected")
                             /\ UNCHANGED <<dolphinVars, sock, state, bps, attach, slock, glock>>
                             /\ UNCHANGED <<tool, backoff>>

\* a connected session is taken at its word
EnterConnected(t) == /\ pc[t] = "enter" /\ slock = "free" /\ Connected
                     /\ Goto(t, "connected")
                     /\ UNCHANGED <<dolphinVars, sock, state, bps, attach, slock, glock, tool, backoff>>

Enter(t) == /\ pc[t] = "enter" /\ slock = "free" /\ ~Connected
            /\ slock' = t
            /\ Goto(t, "dial")
            /\ UNCHANGED <<dolphinVars, sock, state, bps, attach, glock, tool, backoff>>

\* Mutant: the lock is not given back when the connection fails
FailLocked(t) == state' = "disconnected" /\ slock' = slock /\ Goto(t, "failed")

\* OSError or ConnectionLost: DISCONNECTED, and ConnectionLost is raised
Fail(t) == state' = "disconnected" /\ slock' = "free" /\ Goto(t, "failed")

\* GDBStub.connect, which returns at once when there is a socket
Dial(t) == /\ pc[t] = "dial"
           /\ IF sock # "none" THEN Goto(t, "why") /\ UNCHANGED <<dolphin, sock, state, slock>>
              ELSE IF dolphin = "listening"
                THEN /\ sock' = "up" /\ dolphin' = "attached"
                     /\ Goto(t, "why") /\ UNCHANGED <<state, slock>>
                ELSE Fail(t) /\ UNCHANGED <<dolphin, sock>>
           /\ UNCHANGED <<stub, cpu, armed, bps, attach, glock, tool, backoff>>

\* `?' -- without gdb_lock
WhyHalted(t) == /\ pc[t] = "why" /\ (Answers \/ Lost \/ stub = "frozen")
                /\ IF Answers
                     THEN /\ state' = "paused" /\ Goto(t, "attach")
                          /\ UNCHANGED <<sock, slock>>
                     ELSE Fail(t) /\ AfterFailure
                /\ UNCHANGED <<dolphinVars, bps, attach, glock, tool, backoff>>

\* GDBProtocolError is neither OSError nor ConnectionLost: the state stays as it is
WhyRefused(t) == /\ pc[t] = "why" /\ sock = "up" /\ stub = "refuses"
                 /\ slock' = "free" /\ Goto(t, "failed")
                 /\ UNCHANGED <<dolphinVars, sock, state, bps, attach, glock, tool, backoff>>

\* Mutant: a backend that is there is kept
TryAttachOnce(t) ==
  /\ pc[t] = "attach"
  /\ IF ~CanAttach \/ attach # "none" THEN attach' = attach
     ELSE attach' \in IF dolphin = "off" THEN {"none"} ELSE {"none", "live"}
  /\ IF AutoResume THEN Goto(t, "resume_lock") /\ slock' = slock
                   ELSE Goto(t, "connected") /\ slock' = "free"
  /\ UNCHANGED <<dolphinVars, sock, state, bps, glock, tool, backoff>>

\* find_dolphin: the first Dolphin process; it may not have mapped its memory yet
TryAttach(t) ==
  /\ pc[t] = "attach"
  /\ IF ~CanAttach THEN attach' = attach
     ELSE attach' \in IF dolphin = "off" THEN {"none"} ELSE {"none", "live"}
  /\ IF AutoResume THEN Goto(t, "resume_lock") /\ slock' = slock
                   ELSE Goto(t, "connected") /\ slock' = "free"
  /\ UNCHANGED <<dolphinVars, sock, state, bps, glock, tool, backoff>>

ResumeLock(t) == /\ pc[t] = "resume_lock" /\ glock = "free"
                 /\ glock' = t /\ Goto(t, "resume")
                 /\ UNCHANGED <<dolphinVars, sock, state, bps, attach, slock, tool, backoff>>

\* Mutant: the session is CONNECTED, but nothing resumes the CPU
AutoContinueForgotten(t) ==
  /\ pc[t] = "resume"
  /\ state' = "running"
  /\ slock' = "free" /\ glock' = "free" /\ Goto(t, "connected")
  /\ UNCHANGED <<dolphinVars, sock, bps, attach, tool, backoff>>

\* auto-resume; its failure is only logged
AutoContinue(t) == /\ pc[t] = "resume"
                   /\ IF Answers
                        THEN cpu' = "running" /\ state' = "running" /\ sock' = sock
                        ELSE AfterFailure /\ UNCHANGED <<cpu, state>>
                   /\ slock' = "free" /\ glock' = "free" /\ Goto(t, "connected")
                   /\ UNCHANGED <<dolphin, stub, armed, bps, attach, tool, backoff>>

-----------------------------------------------------------------------------
(* The auto-connect worker                                                 *)

\* stop.wait(interval) is over
Tick == /\ pc["worker"] = "idle"
        /\ IF state = "disconnected" THEN Goto("worker", "enter") /\ backoff' = backoff
                                     ELSE backoff' = 0 /\ UNCHANGED pc
        /\ UNCHANGED <<dolphinVars, sock, state, bps, attach, slock, glock, tool>>

\* Mutant: the interval is not capped
WorkerDoneUncapped ==
  /\ pc["worker"] \in {"connected", "failed"}
  /\ backoff' = IF pc["worker"] = "connected" THEN 0 ELSE backoff + 1
  /\ Goto("worker", "idle")
  /\ UNCHANGED <<dolphinVars, sock, state, bps, attach, slock, glock, tool>>

WorkerDone == /\ pc["worker"] \in {"connected", "failed"}
              /\ backoff' = IF pc["worker"] = "connected" THEN 0
                            ELSE IF backoff < MaxBackoff THEN backoff + 1 ELSE backoff
              /\ Goto("worker", "idle")
              /\ UNCHANGED <<dolphinVars, sock, state, bps, attach, slock, glock, tool>>

-----------------------------------------------------------------------------
(* The tool thread                                                         *)

\* health() does not connect; every other tool starts with ensure_connected
ToolCall(op, b) == /\ pc["tool"] = "idle"
                   /\ tool' = [op |-> op, bp |-> b]
                   /\ Goto("tool", IF op = "health" THEN "connected" ELSE "enter")
                   /\ UNCHANGED <<dolphinVars, sock, state, bps, attach, slock, glock, backoff>>

ToolFails == /\ pc["tool"] = "failed" /\ Goto("tool", "idle")
             /\ UNCHANGED <<dolphinVars, sock, state, bps, attach, slock, glock, tool, backoff>>

\* health only probes an open socket
HealthClosed == /\ pc["tool"] = "connected" /\ tool.op = "health" /\ sock = "none"
                /\ Goto("tool", "idle")
                /\ UNCHANGED <<dolphinVars, sock, state, bps, attach, slock, glock, tool, backoff>>

\* what the other tools do with the stub they do under gdb_lock
Locking == tool.op # "mem" /\ ~(tool.op = "health" /\ sock = "none")

\* session.mem: through the process when there is a handle, else through the stub,
\* and then without gdb_lock
MemRoute == /\ pc["tool"] = "connected" /\ tool.op = "mem"
            /\ Goto("tool", IF attach = "none" THEN "mem" ELSE "idle")
            /\ UNCHANGED <<dolphinVars, sock, state, bps, attach, slock, glock, tool, backoff>>

MemStub == /\ pc["tool"] = "mem" /\ Goto("tool", "idle")
           /\ IF Answers THEN sock' = sock ELSE AfterFailure
           /\ UNCHANGED <<dolphinVars, state, bps, attach, slock, glock, tool, backoff>>

\* Mutant: the lock is taken although another thread has it
ToolLockAnyway == /\ pc["tool"] = "connected" /\ Locking
                  /\ glock' = "tool"
                  /\ Goto("tool", "call")
                  /\ UNCHANGED <<dolphinVars, sock, state, bps, attach, slock, tool, backoff>>

ToolLock == /\ pc["tool"] = "connected" /\ Locking
            /\ glock = "free" /\ glock' = "tool"
            /\ Goto("tool", "call")
            /\ UNCHANGED <<dolphinVars, sock, state, bps, attach, slock, tool, backoff>>

\* add and remove update the registry once the stub has, and before it has
Answered == /\ Answers
            /\ armed' = CASE tool.op = "add"    -> armed \cup {tool.bp}
                          [] tool.op = "remove" -> armed \ {tool.bp}
                          [] OTHER              -> armed
            /\ bps' = CASE tool.op = "add"    -> bps \cup {tool.bp}
                        [] tool.op = "remove" -> bps \ {tool.bp}
                        [] OTHER              -> bps
            /\ UNCHANGED <<sock, state>>

\* on a running target add and remove probe first: no answer is ERROR.
\* remove has taken the breakpoint out of the registry by then.
Unanswered == /\ ~Answers
              /\ AfterFailure
              /\ state' = IF tool.op \in {"add", "remove"} /\ state = "running"
                            THEN "error" ELSE state
              /\ bps' = IF tool.op = "remove" THEN bps \ {tool.bp} ELSE bps
              /\ UNCHANGED armed

UseStub == /\ pc["tool"] = "call"
           /\ Answered \/ Unanswered
           /\ glock' = "free" /\ Goto("tool", "idle")
           /\ UNCHANGED <<dolphin, stub, cpu, attach, slock, tool, backoff>>

\* disconnect(): also clears the registry
Disconnect == /\ MayDisconnect
              /\ pc["tool"] = "idle" /\ slock = "free"
              /\ sock' = "none" /\ state' = "disconnected" /\ bps' = {} /\ attach' = "none"
              /\ dolphin' = IF sock = "up" THEN "deaf" ELSE dolphin
              /\ UNCHANGED <<stub, cpu, armed, slock, glock, pc, tool, backoff>>

-----------------------------------------------------------------------------
(* Dolphin (external)                                                      *)

Exit == /\ MayExit /\ dolphin # "off"
        /\ dolphin' = "off" /\ stub' = "serves" /\ armed' = {} /\ cpu' = "halted"
        /\ sock' = IF sock = "up" THEN "eof" ELSE sock
        /\ attach' = IF attach = "live" THEN "gone" ELSE attach
        /\ UNCHANGED <<state, bps, slock, glock, pc, tool, backoff>>

Launch == /\ dolphin = "off"
          /\ dolphin' = "listening"
          /\ UNCHANGED <<stub, cpu, armed, sock, state, bps, attach, slock, glock, pc, tool, backoff>>

\* it stops serving its client, or serves it again
Behave == /\ dolphin = "attached"
          /\ stub' \in {"serves", "frozen", "refuses"}
          /\ (stub' = "frozen" => MayFreeze) /\ (stub' = "refuses" => MayRefuse)
          /\ UNCHANGED <<dolphin, cpu, armed, sock, state, bps, attach, slock, glock, pc, tool, backoff>>

-----------------------------------------------------------------------------
Ensure(t) == EnterConnected(t) \/ Enter(t) \/ Dial(t) \/ WhyHalted(t) \/ WhyRefused(t)
             \/ TryAttach(t) \/ ResumeLock(t) \/ AutoContinue(t)

WorkerNext == Tick \/ WorkerDone \/ Ensure("worker")
ToolNext == ToolFails \/ HealthClosed \/ MemRoute \/ MemStub \/ ToolLock \/ UseStub
            \/ Ensure("tool")

Calls == \/ \E op \in {"query", "health", "mem"} : ToolCall(op, "none")
         \/ \E op \in {"add", "remove"}, b \in Bp : ToolCall(op, b)
         \/ Disconnect

Next == WorkerNext \/ ToolNext \/ Calls \/ Exit \/ Launch \/ Behave

Spec == Init /\ [][Next]_vars

\* Both threads are scheduled; a lock that keeps becoming free is obtained.
FairSpec == /\ Spec
            /\ WF_vars(WorkerNext) /\ WF_vars(ToolNext)
            /\ \A t \in Threads : /\ SF_vars(EnterConnected(t) \/ Enter(t))
                                  /\ SF_vars(ResumeLock(t))
            /\ SF_vars(ToolLock)

-----------------------------------------------------------------------------
(* Properties                                                              *)

Labels == {"idle", "enter", "dial", "why", "attach", "resume_lock", "resume", "connected",
           "failed", "mem", "call"}

TypeOK ==
  /\ dolphin \in {"off", "listening", "attached", "deaf"}
  /\ stub \in {"serves", "frozen", "refuses"} /\ cpu \in {"halted", "running"}
  /\ armed \subseteq Bp /\ bps \subseteq Bp
  /\ sock \in {"none", "up", "eof"}
  /\ state \in {"disconnected", "paused", "running", "error"}
  /\ attach \in {"none", "live", "gone"}
  /\ slock \in Threads \cup {"free"} /\ glock \in Threads \cup {"free"}
  /\ pc \in [Threads -> Labels]
  /\ tool \in [op : {"none", "query", "health", "mem", "add", "remove"}, bp : Bp \cup {"none"}]
  /\ backoff \in 0..MaxBackoff

\* Only one thread is ever dialing and resuming (session._lock), and it has the
\* stub to itself while it resumes (gdb_lock).
ConnectsAlone ==
  /\ \A t \in Threads :
       pc[t] \in {"dial", "why", "attach", "resume_lock", "resume"} => slock = t
  /\ \A t \in Threads : pc[t] \in {"resume", "call"} => glock = t

\* A tool call returns: _lock and gdb_lock, which ensure_connected nests, never
\* hold each other up, and no failed connection keeps them.
ToolReturns == (pc["tool"] # "idle") ~> (pc["tool"] = "idle")

\* auto_connect, "the moment Dolphin becomes reachable the game unblocks": a
\* disconnected session and a Dolphin that waits at boot end up with a running
\* CPU, unless Dolphin exits, is UI-paused, refuses packets or is disconnected meanwhile.
AutoConnects ==
  (dolphin = "listening" /\ state = "disconnected" /\ AutoResume)
     ~> (cpu = "running" \/ dolphin \in {"off", "deaf"} \/ stub # "serves")

\* disconnect, "clearing the registry on disconnect keeps us honest about what's
\* actually armed": while the session is in one connection after another, its
\* registry only lists breakpoints of the Dolphin it is connected to.
RegistryIsHonest == Connected /\ sock = "up" => bps \subseteq armed

\* auto_connect.py, "Background worker that keeps the MCP connected": a Dolphin
\* that waits for its connection gets it.
StaysConnected == dolphin = "listening" ~> dolphin # "listening"

OnSocket == {t \in Threads : pc[t] \in {"why", "resume", "mem", "call"}}

\* session.gdb_lock, "only one thread reads/writes the socket at a time".  Dialing,
\* its `?' and the memory tools do without gdb_lock; that they are alone on the
\* socket all the same is due to _lock and to the session's state, which the
\* other tools ask first.  health does not.
AloneOnSocket == tool.op = "health" \/ Cardinality(OnSocket) <= 1

\* to the letter
OneOnSocket == Cardinality(OnSocket) <= 1

\* Session.mem: while the stub's Dolphin runs, memory is not read from the process
\* of an earlier one.
MemIsOfThisDolphin ==
  pc["tool"] = "connected" /\ tool.op = "mem" /\ sock = "up" => attach # "gone"
=============================================================================
