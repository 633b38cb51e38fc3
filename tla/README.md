# Dolphin RE MCP: specifications

The program (`src/dolphin_re_mcp`) is an MCP server that lets a client debug a
game in the Dolphin emulator.  It speaks the GDB remote serial protocol to
Dolphin's stub: one TCP connection, one outstanding command, and stop replies
that arrive at any moment because the game runs on.  Three threads of the
program share the connection: the tool functions, which run one at a time, the
*stop watcher*, which logs the hits of captured breakpoints, and the
*auto-connect worker*, which dials Dolphin before any tool is used.  The
hard part is what happens between them: bytes that are late, stops nobody has
asked for, a CPU that is not in the state the session remembers, and locks.

## 1. Inventory

| Part (source) | State | Operations | Correct when |
| --- | --- | --- | --- |
| RSP client (`gdb/client.py`, `gdb/stop_reply.py`) | socket, `_buf`, `_pending_replies` | `connect`, `close`, `cmd` and its callers, `continue_async`, `step`, `wait_for_stop`, `interrupt`, `drain_*`, `is_alive`, `probe_responsive`, `detach` | a command returns its own reply; stop replies are kept, in order, and never taken for replies; every call returns |
| Session (`session.py`) | `state`, `breakpoints`, `attach_backend`, `_lock`, `gdb_lock`, `watcher` | `ensure_connected`, `_try_attach`, `disconnect`, `on_connection_lost`, `health`, `mem`, registry | one thread connects; a lock is never kept by a failure; `state` and `breakpoints` agree with the stub; memory is not read from a Dolphin that is gone |
| Auto-connect worker (`auto_connect.py`) | backoff | dial when DISCONNECTED | a Dolphin that waits is connected and resumed |
| Stop watcher (`stop_watcher.py`) | `_stop_event`, the stop in hand | poll, match, capture, resume, surface | owns the socket while it polls; the game goes on; a hit is captured once and while the CPU stands at it; it ends when told, also when the stub has stalled under it |
| Breakpoint tools (`tools/breakpoint_tools.py`) | registry entries, logs | `add_*`, `remove`, `wait_for_hit`, `capture_on_hit`, `stop_capturing`; `_safe_to_modify`, `_quiesce_for_modify` | `Z`/`z` reach only a halted CPU; the registry lists what is set, after refusals too; the target runs again afterwards |
| Execution tools (`tools/execution_tools.py`) | `session.state` | `pause`, `resume`, `step`, `step_over`, `step_out`, `run_until`, register reads | CONNECTED_PAUSED means halted |
| Compound tools (`tools/compound_tools.py`) | none of their own | `trace_writes_to`, `trace_calls_to`, `trace_until` | nothing of the trace is left behind |
| Memory backends (`memory/attach.py`) | process handle, region bases | read and write through the process or the stub | one user of the socket at a time |
| Address routing (`memory/routing.py`) | none | `route`, `is_valid`, `coerce_addr` | a routed range lies in its region |
| Memory tools (`tools/memory_tools.py`) | dumps on disk | reads, writes, `search_mem`, `follow_pointer`, snapshots | every occurrence is found once, over the ends of chunks |
| Symbol map (`symbol_map.py`) | a sorted list and an index by start | `load`, `lookup` | an address is named after a symbol that contains it |
| Disassembler (`disasm/ppc.py`, `tools/disasm_tools.py`) | the `lis` that wait for their low half | decoding, effective addresses, `lis` pairs, comments | what it says of an instruction is what the CPU does |
| Server, command line, logging | none of the debugger's | start-up | |

How they interact.  Tools call `session.ensure_connected()`, take `gdb_lock`
around their calls of the client, and read and write `session.state` and
`session.breakpoints` directly, without a lock.  The watcher takes `gdb_lock`
for each poll and reads the same registry.  `ensure_connected` nests `gdb_lock`
in `_lock`.  The client talks to the stub by two byte streams; an interrupt is
one byte outside the packets.

Hard to test, and listed line by line under `hazards` in `PROJECT.json`: late
answers after a timeout; stops between a command and its ack; stops of an
earlier halt that end a later wait; hits between two lines of `pause()` or of
`remove()`; dropped interrupts; refused packets half way through a
modification; the watcher's exit against `is_alive()`; a dict that changes size
under the watcher's iteration; two nested locks on three threads; a lock that
is released and taken again at once; a Dolphin that exits and comes back; a
pattern that straddles two chunks while the game writes; a watcher whose join
times out, and the next one beside it; a stop or a reply that is read when the
CPU has left it; register snapshots that the code overtakes; 16-bit fields
printed signed or unsigned; symbols that share a start or contain one another.

## 2. Modules

    StopStream      what the stop replies of a connection are: one FIFO stream
      GdbClient       client.py, token by token          (implements StopStream)
        GdbClientProofs, RefinementProofs
      DebugSession    tools, watcher, stub               (extends StopStream)
        SessionProofs, ToolProofs
    Watchers        stop watchers over time, and a stub that fails under them
      WatcherProofs
    Connection      ensure_connected, worker, health, Dolphin's life
      ConnectionProofs
    MemoryMap       routing.py
      MemorySearch    search_mem and a game that writes
        MemoryProofs
    SymbolMap       symbol_map.py
    Disassembler    ppc.py beside the CPU that runs the code
      DisasmTool      disasm_tools.py: comments        (extends both)
        MCDisasm, DisasmProofs

**StopStream** is the abstraction the others meet at: the CPU, the causes of
the stop replies not yet read, and the interrupt bytes not yet served.  Readers
take from the front, the stub adds at the end, and commands leave the stream
alone.  `GdbClient` is shown to implement it (`StopsAreAStream`, a refinement
whose mapping is `_pending_replies` followed by the stop replies on the wire);
`DebugSession` is written on top of it.

**GdbClient** models every method of `GDBStub` that touches the socket, with
one action per read: `_send_packet`, then `_consume_ack` (`AckPlus`, `AckOob`,
`AckNak`), then the reply (`ReadReply`) or a stop (`TakePending`, `TakeWire`).
`rx` is `_buf` together with what TCP holds; a token of it is an ack, a nak, a
reply or a stop, and `_read_packet_from_wire`'s search for `$` is `FirstPacket`
and `After`.  Replies carry the tag of their command, a history variable which
the program does not have and which the properties need.  The stub is external:
it serves requests in order, refuses (`-`), halts on a hit, stalls (a UI-pause),
exits and is launched again.  A connection that is gone shows itself in several
ways, and the code does not treat them alike: an empty `recv` or a failed `sendall`
closes the socket (`Lost`), a `recv` that raises leaves it open (`LostOpen`), so that
the next call dials later by one, and an ack that cannot be sent drops the packet it
was for (`AckLost`).  Left out: the diagnostic ring buffer and the contents of packets.

**DebugSession** models the tool thread and the watcher thread by their program
counters (`tp`, `wp`), with one action per call of the client or per access to
shared state, so that the other thread and the stub come in between wherever
they can in the code.  `_safe_to_modify` is eleven actions, from `ModifyBegin`
to `ModifyResume`, because each of its lines may meet a hit.  `call`, `frame`
are the locals of the tool functions; `hit` is that of `_handle_stop`.  A
breakpoint stands for its address, its id and its object.  Register reads are
one query (`get`), `step_out` is `run_until`, `remove_all` is a sequence of
`remove`.

**Watchers** is the same watcher with what `DebugSession` keeps away from it: a
stub that stalls, refuses register reads and exits.  A join may then time out,
the session forgets the watcher, and the next capture starts another beside it.
Each watcher has its program counter `wp` and the stop in its hands, `hit`;
a hit has a number, and `cpu` is the number of the hit the CPU stands at, so
that "the registers are those of the hit" can be said.  What a stalled stub has
been sent is `owed` and served when it thaws; a reply nobody waits for any more
is then read as a stop (`Late`), as `GdbClient` shows.  The tools are
`capture_on_hit` and `stop_capturing`, with `ensure_watcher_running` and
`stop_watcher`; `left` remembers the hits whose watcher ended, and `surfaced`
whether a stop has been put aside.

**Connection** models `ensure_connected` line by line on two threads, with the
attachment to Dolphin's process, the worker with its backoff, `health`,
`disconnect`, and a Dolphin whose listener accepts one connection per launch.
`stub` is how Dolphin treats packets at the moment: it serves them, is frozen, or
refuses them.  In `ensure_connected` a `?` that times out or finds the connection gone
sets the state to DISCONNECTED; a refused one is an exception that it does not catch,
and the state stays what it was (`WhyRefused`).
`attach` is the process handle: "gone" when its process has exited.  `Session.mem`
chooses between it and the stub (`MemRoute`, `MemStub`).  What a tool does afterwards is one call of
the stub that answers, times out or finds the connection gone.

**MemoryMap** is `route` as a function of integers.  **MemorySearch** is the
loop of `search_mem`; `read` is what the loop has read so far, so that
`prev_tail` is its end, and a step of the game writes any byte between two
chunks.  One `_read` is taken at one instant.

**SymbolMap** takes a file for the sequence of symbols its lines denote.  `Load` is
`load()`: duplicates removed, the stable sort by address and size as the only
order that `Orders` admits, and the index by start, of which the last symbol
stays.  `Lookup` is `lookup()` with its fast path and its bisection.

**Disassembler** decodes an instruction and runs it in one step, so that what the
code says can be compared with what the CPU does: `ea` with `accessed`, `pair`
with `cpu`.  An instruction is what the code can see of it (its first operand,
its base, its printed immediate) and what the CPU does with it (the registers
it writes).  The paired-single accesses have actions of their own, `AccessQuantized`:
their operands do not end in `)`, so they get no `ea`.  Words have `Half * Half` values.  `written` and `unseen` are history:
registers written since the snapshot, and since their `lis` behind the back of
`post_process_imm_load_pairs`, which looks at the first operand only.
**DisasmTool** joins the two: `Comment` is `_annotate_targets`, and the map may be
reloaded between any two calls, which `Reload` takes together with the next of them.

Definitions whose comment begins with "Mutant" are faulty variants: they are
substituted for the definition below them to see that a property notices.  No
specification uses them.

## 3. Runs

Run one with `tlc -config X.cfg M`.

| Run | Checks | Bounds; distinct states |
| --- | --- | --- |
| `client` (GdbClient) | the stream keeps its shape, every command gets its reply, waits get stops, all calls return, refinement of StopStream | 2 breakpoints, 2 tags, 3 tokens in flight; exits, relaunches, a recv that fails; 267,000 |
| `client_reconnect` (GdbClient) | after the last stall, a new connection puts commands and replies back in step | 1 breakpoint, 2 tags, 3 tokens in flight; stalls, exits, relaunches; 984,000 |
| `session_foreground` (DebugSession) | state, registry and stub agree, `Z` reaches a halted CPU, no halt goes unannounced, tools return; with refused packets | a watchpoint, a breakpoint, 3 unread stops; 2,480 |
| `session_tracing` (DebugSession) | a trace leaves nothing behind and returns; with dropped interrupts | 2 watchpoints, 2 unread stops; 165,000 |
| `session_capture` (DebugSession) | tools and watcher exclude each other on the socket, tools return, the game goes on | a watchpoint, 1 unread stop, ten tools; 168,000 |
| `connection` (Connection) | one thread connects, worker and tools are not on the socket together, memory is that of the Dolphin connected to, locks are given back, tools return, a waiting Dolphin is resumed | 1 breakpoint, 2 backoff steps, attach, exits, pauses, disconnects, refused packets; 51,000 |
| `watchers` (Watchers) | forgotten watchers are told to stop and do, hits are captured once and while the CPU stands at them, no hit holds the game where a watcher is at work | 2 watchers, 1 watchpoint, 2 hits, a stall, refusals, exits; 104,000 |
| `search` (MemorySearch) | every occurrence read is reported once, what lasts is found, the search ends | regions of 4 and 5 bytes, chunks of 2, patterns up to 3; 94,000 |
| `disasm` (MCDisasm) | effective addresses and `lis` pairs are the CPU's, addresses are named after a symbol that contains them, comments name what is accessed | words of 4 bits, 2 registers, 3 instructions, every file of up to 3 lines from 5 symbols (up to 1 while code is disassembled); 355,000 |

The other three runs end in a counterexample to a sentence of the repository; each
is a finding in `PROJECT.json`.

| Run | The sentence | What happens |
| --- | --- | --- |
| `client_stall` | README:243, "the stub recovers cleanly when you resume" | a late ack and reply answer the next command, and so on for ever |
| `session_stale` | `is_paused_tool`, "currently paused at the stub" | a hit is taken for the answer of `pause()`'s interrupt; the interrupt's own stop ends a later wait while the CPU runs |
| `connection_lost` | "keeps the MCP connected to Dolphin's GDB stub" | a lost connection leaves the session CONNECTED, and the worker dials only when DISCONNECTED |

More configurations are kept for the reader.  Each checks one property, and TLC
finds it violated.

- With `DebugSession`: `session_socket` (`capture_on_hit` sends `c` without
  `gdb_lock` while a watcher is in a call; session.py:63-65 has "only one thread
  reads/writes the socket at a time"), `session_surfaced` (a stop put aside "so the
  next wait_for_hit sees it", stop_watcher.py:78-79, is refused to it, because the
  watcher also marks the session paused), `session_quiesce` (one dropped interrupt,
  and `Z` is sent to a running CPU), `session_attribution` (`remove` unregisters
  before it disarms; a hit in between is logged for the other watchpoint),
  `session_watcher` (`is_alive()` on a watcher on its way out: captures without a
  watcher), `session_trace` (a trace ends with the game halted), `session_lock`
  (after a timeout the watcher's `continue` skips its sleep, and it may take the
  lock again before a waiting tool does, every time).
- With `Watchers`: `watchers_one` (a join that times out leaves two watchers
  alive), `watchers_late` (the reply of a register read that was given up is read
  as a stop, matched to the lone watchpoint and captured while the game runs),
  `watchers_stale` (a stop that was surfaced is captured as new by a watcher
  started later).
- With `Connection`: `connection_registry` (after ERROR the old registry is kept
  for the next Dolphin), `connection_socket` (`health` and the worker's `?` meet on
  the socket).
- With `MCDisasm`: `disasm_clobber` (a write that is not by the first operand, as of
  `mflr` or of a callee, does not end a pair, and `imm_value` is not what the
  register holds), `disasm_subi` (`subi d, d, 0x8000`: the operand is extended to
  -0x8000 and then negated, ppc.py:322-328, so `imm_value` is 0x10000 more than what the
  register holds), `symbols_nested` (an address behind a nested symbol is in no
  symbol, though the enclosing one contains it).

Bounds, and why they are enough.  Two breakpoints are what it takes for a hit of
one to fall into a modification of the other and for `_match_bp` to be wrong;
the symmetric third adds nothing, for no operation relates more than two.
`MaxStops` unread stops: a stop halts the CPU, so a second one takes a resume in
between; two is a stale one and a fresh one, three leaves room for the stop of
an interrupt.  Tags only have to tell a reply from the one of the command
before; three do so after a stall.  `MaxQueue` limits the tokens on the wire and
the requests that wait; the proof below needs no such bound to be small.  Two
backoff steps are the cap and one below it.  A region of five bytes with chunks
of two has full chunks, a last short one, and patterns that straddle two ends.
Two watchers are the forgotten one and its successor; a third only repeats that,
and the proofs below are for any number.  Two hits are one that a stall or a
surfacing leaves behind and a fresh one.  Half words of two bits have one value
for each case of a sign extension (zero, below the sign bit, the sign bit alone,
above it); the fields in the run are the two in the middle, one of which is
`0x8000`, and addresses below 16 let a displacement wrap at both ends.  Three
instructions are `lis`, something between, and the low half.  The five symbols
share a start, a name or both, contain one another, have no size, and end behind
the last address.

`session_foreground` leaves out `pause`, and `session_capture` the tools that
use the socket without the lock: with them the properties fail, which is what
`session_stale` and `session_socket.cfg` show.  That is the only reason for
leaving a tool out of a passing run, apart from time: tools that differ in
nothing the model sees (`run_until`, `step_over`) are in one or the other.

Deadlock is checked in every run.

## 4. Fairness

- `GdbClient`: the client's method in progress takes its steps, and the stub
  serves what it has been sent unless it stalls.  Every read in `client.py`
  has a timeout; a timeout is only taken when the stub has nothing to say.
- `DebugSession`: each thread is scheduled (`FairThreads`) and an interrupt byte
  is eventually served or dropped.  No tool is ever required to be called and no
  breakpoint to be hit.  `threading.Lock` promises no order: with `FairSpec` a
  thread may be passed over for ever, which is what `session_lock` shows.
  The passing runs with a watcher use `FairLockSpec`, in which a lock that is
  free again and again is obtained; so they say that nothing *else* keeps a
  tool from returning.
- `WatcherSleep` is the millisecond in which the watcher does not compete: a
  tool that waits for a free lock gets it then.
- `Connection`: both threads run, and the locks are obtained as above.  Nothing
  makes Dolphin start, exit or thaw.
- `Watchers`: tool and watchers are scheduled, and the lock is obtained as above.
  Nothing makes the stub thaw: reads and resumes end by their timeouts.
- `MemorySearch`: the loop goes on.

## 5. Proofs

`tlapm` on `GdbClientProofs.tla`, `RefinementProofs.tla`, `SessionProofs.tla`,
`ToolProofs.tla`, `ConnectionProofs.tla`, `WatcherProofs.tla`, `MemoryProofs.tla`
and `DisasmProofs.tla` checks them all.  Every property of a passing run that is not
a liveness property is stated by a theorem.

**TypeCorrect**: `GdbClient`'s type invariant for any constants, stalls
included.  In particular only whole packets are ever buffered or returned.

**OutOfStepOneWay**, **InStepUntilLate**: commands get their own replies,
`wait_for_stop` gets stops, until an ack is given up on that the stub is still to send (`LateTimeout`); for any set of
breakpoints, any number of tags and of tokens in flight, with a stub that stalls,
refuses and exits.  Reads that time out for a stop or for a reply do no harm: the
former leave nothing behind, and behind an ack the reply has arrived already.
`ReplyMatches` is not inductive: it speaks of the result, and what makes the result
right is what is on the wire.  The invariant is `StreamShape`: between calls the input
holds stop replies only; while a command waits for its ack, either its request is the
last one sent and only interrupts are before it, or its answer is somewhere in the
input between stop replies (`AnsweredAt`).  The lemmas say how `AnsweredAt` moves when
a stop arrives behind it, when one is read in front of it, and when the request is
served.  So every step from a stream in shape leads to one, or is the late timeout
(`InStepOrLate`), and a new connection starts in shape whatever happened on the one
before (`ANewLinkIsInStep`).  `client_stall` is what happens after the late timeout, and
`client_reconnect` that a reconnection ends it.  **PacketsReachTheirCaller** is
the case of a stub that does not stall (`MayStall = FALSE`): it is never late.

**AStreamUntilLate**, in `RefinementProofs`: up to the same step `GdbClient`
implements `StopStream`, for any constants, and **ClientIsAStream**: with a stub that does
not stall it does so for good.  `StreamShape` makes the mapping possible without
recursion: what is not a stop lies in one stretch of the input, so the stops of the
input are what `Stops` leaves when it cuts that stretch out, and the interrupts on their
way are the requests but the last, unless that is one too.  `CutFacts` says what
is left, token by token; `LateStop`, `FrontStop`, `FrontOwn` and `AnswerStops` how it
changes when a stop arrives, a stop or an answer is read, and a command is served.  Then
every step is a step of the stream or a stutter (`BeginSteps`, `ReadSteps`,
`StubSteps`): an out-of-band packet that moves to `_pending_replies` changes nothing,
since the mapping is the one followed by the other, and a drain reads the wire only when
`_pending_replies` is empty (`DrainEmpty`).

In `SessionProofs`, about `DebugSession`, for any breakpoints, any number of unread
stops and, unless a theorem says otherwise, any tools and any fault of the stub:

- **TypeCorrect**: the types.  `TypeOK` is not inductive; `CallShape` adds that a
  modification has a breakpoint to modify, that `pause` has an interrupt left, and
  that the watcher reads registers for a stop it has matched.
- **RegistryIsTheStubs**: `RegistryMatchesStub`, which speaks of idle moments, follows
  from an account of every moment: `armed` is `bps` with what has been set and not yet
  registered (`Landing`) and what has been unregistered and not yet removed
  (`Leaving`); after a refusal it may be more, never less.
- **LockExcludes**: `SocketExclusive` without `mem`, `capture` and `trace`.
  `LockInv` ties `gdb_lock` to the lines inside the `with` blocks of both threads; the
  assumption is needed, since those three call the stub without the lock.
  **OnlyUnlockedCallsCollide** says that nothing else does.
- **TraceCleansUp**: `TraceLeavesNothing` if no packet is refused (`~MayReject`), next to
  any other tools.  `TraceInv` says from which line on the breakpoint is not captured
  and the watcher is gone.
- **SessionIsHonest**: `PausedMeansHalted`, `HaltIsAnnounced` and `QuiescedForModify` for
  the tools of `session_foreground` with `stop` and `stop_all`, if no interrupt is
  dropped.  `SimpleInv` says where the CPU is at each line: outside
  `_quiesce_for_modify` there is no interrupt on its way and at most the one stop that
  the running session has not read (`Settled`); inside it the CPU is halted as soon as a
  stop is seen or the interrupt served (`Halting`), so it is when the silence ends.
  With `pause` it does not hold: `session_stale`.

In `ToolProofs`, about the same module, for all tools at once, any fault of the stub and
a watcher at work, unless a theorem says otherwise:

- **TheLockProtects**: what `gdb_lock` is worth.  While a tool is inside it, the watcher
  and the stub add stops at the end of the stream, halt the target and answer or
  overlook interrupts, and nothing else (`OnlyStops`); the theorems below use
  this in place of the other threads' actions.  While the watcher is inside, the tool
  thread leaves stream, stub and session state alone, but for the two calls it makes
  without the lock.
- **StopsAreLostTwoWays**: a halt behind a session in CONNECTED_RUNNING has its stop
  unread or in somebody's hands (`StopIsKnown`), and two steps only end this: the
  registry changes its size under the watcher's loop (`Killed`), and `pause` gives up on
  a stub that overlooked both interrupts after it threw the unread stops away
  (`GivesUp`).  `DrainsAreSafe` says why the other drains lose nothing: the session is
  marked paused before them.  **HaltsStayAnnounced** is the invariant up to such a step,
  and **ForegroundLosesNoStop** is `HaltIsAnnounced` for the tools that cannot take one:
  `step`, `step_over` and `pause`, which SessionIsHonest leaves out, included.
- **QuiescingWorks**: `QuiescedForModify` for a session that was running, if no interrupt
  is overlooked: from the fence to the `c` the target is halted, with no stop and no
  interrupt on its way.  `QuiesceInv`: an interrupt no longer on its way has halted
  the target, the `qC` waits for that, and the drain after it takes the last stops.
  (For a session believed paused nothing is quiesced, and `session_stale` is such a
  session.)  **PauseHalts**: `pause` succeeds only on a halted target, even when the
  stop it takes is not its own; what goes wrong in `session_stale` comes later.
- **TemporariesAreTakenDown**: the breakpoint of `run_until`, `step_over` or a trace
  does not outlive its tool, refusals, timeouts and a dying watcher included.
- **WatcherEndsWithItsCaptures**: every way to end a capture joins the watcher, except
  `remove` on a captured breakpoint; with **TemporariesAreTakenDown** this gives
  `TraceLeavesNothing` when packets may be refused (**TraceCleansUpAnyway**).
  **JoinIsAwaited**: the join does not wait for a watcher that waits for it.
- **OnlyWatchpointsAreMiscredited**: what is left of `AttributionRight`, which does not
  hold: what is logged for a breakpoint is its own hit.
- **SessionUsesTheStream**: every step is a step of `StopStream`, or the watcher's putting
  back of a stop at the end of `_pending_replies`, which no method of the client does.

**SessionTypeCorrect**, **OneThreadConnects**: the types of `Connection`, and that
`_lock` lets one thread at a time into `ensure_connected` and `gdb_lock` one
into what it protects; for any breakpoints and backoff, with auto-resume or
without, whatever Dolphin does.  `TypeOK` needs `CallNamesBp` to be inductive (the
registry holds breakpoints because `add` and `remove` are called for one);
`ConnectsAlone` is inductive as it stands, since it ties every line inside a lock
to its owner.

**SocketAlone**: worker and tool thread are never on the socket together, although
the first `?` and the memory reads take no `gdb_lock` (`health` excepted, which
does not ask for the state).  What keeps them apart is not a lock: a tool uses
the stub only in a connected session, and the worker leaves a connected session
alone.  `WorkerKeepsOut` says this for each line of both.

**ReadsThisDolphin**: `MemIsOfThisDolphin`.  A session only dials when it is not
connected, and while it is, it has attached anew since it dialed or is about to, with
`_lock` in its hands (`AttachesAnew`).  **LocksNest**: each lock is owned exactly
where the code holds it, after every failure too, so `_lock` and `gdb_lock` are never
waited for in a circle.  **StaleOnlyByExit**: `RegistryIsHonest` does not hold
(`connection_registry`), and an exit of Dolphin is the only step after which it does not.

**LockAlwaysReturned**, **NoStrayWatcher**, **CapturesTheHit**: for any number of
watchers, breakpoints, hits and stalls, `gdb_lock` belongs to a watcher exactly while
it is inside, however its iteration ends; a watcher the session has forgotten has
been told to stop, though its join timed out; and registers are read while the CPU
stands at the hit they are captured for, until a stop has been surfaced or the reply
of a read that was given up has been taken for one.  The types need `HoldsHit` and
`TellsWatcher`: a watcher has a stop in its hands from its wait to its resume, and
`stop_watcher` has a watcher to tell.  `CaptureIsOfTheHit` follows from `OneStop`: a hit
halts the CPU, so until it is resumed there is one stop, either on the wire or in one
watcher's hands, and no resume is on its way.  `CleanBefore` says that the
exceptions, once they have happened, stay, so that `OneStop` has to be shown only for
steps into states without them.

**CapturesOnce**, **EveryHitIsKept**: for the same watchers, no hit is captured twice and
none is lost.  The stop of a hit is in one place at a time (`OnePlace`): on the wire, put
aside, held by the watcher that has the lock, or in the log; and it is in one of them
unless its watcher has ended with it (`NoHitIsLost`, `HaltIsKnown`).

**RouteStaysInside**, **RouteIsUnique**: what `route` accepts lies in the region
it names, and the regions do not compete; for any integers, from the layout
assumption that MEM1 ends below MEM2.

**ChunksAreRouted**, **SearchIsExact**: every chunk `search_mem` reads is accepted
by `route`; each occurrence in the bytes read is reported once and what lasts
throughout is found; for any regions, chunk and pattern lengths, as long as a
pattern is at most one byte longer than a chunk (`ChunkAssumption`; the code's
chunk is 4 MB and it does not check).  `ReportsEachOnce` needs to know what was
kept of the chunk before: `TailCovers` says it is exactly the places where an
occurrence not yet found can begin, which makes the search neither miss nor
repeat; `LastingRead` carries what lasts from memory into the bytes read.
**SearchNeverRaises** says of the running search that its next chunk is routed, and
**SearchAdvances** that each step of the loop moves it towards the end of the region,
whatever the game does meanwhile: the measure behind `SearchEnds`.

**NamesAreRight**: for every map file, whatever its order and its duplicates, an
address is named after a symbol that contains it and that no other start separates
from it, and in a map without overlaps every address of a symbol is found.
The invariant `MapInv` says what `load` leaves: the list is sorted by start and holds
each listed symbol, and the index has one symbol for each start.  `BisectSplits`
shows that the bisection has an answer, and `LookupContains` that it is right.

**EffectiveAddressIsRight**, **PairsAreValues**, **CommentsAreRight**: for words of any
width, any registers and any straight-line code, an `ea` is the address the CPU
accesses as long as the registers of the snapshot are current, an `imm_value` is what
the register holds unless a write the scan overlooks came between, and a comment
names a symbol that contains the one or the other.  There is one exception, and the
theorems state it (`Shown`): after `subi d, d, 0x8000` the `imm_value` is exactly 0x10000
above the register, and the comment names what is there (`HalfTooHigh`).  `Tracks` makes the pairs
inductive: a pending high half is the value of its register, and the snapshot that
of the registers not written since; `OneTarget` says that an instruction has one
target at most; `AccessQuantizedTracks` is about the accesses without an `ea`.  `FieldIsSigned` is the arithmetic: however capstone prints a 16-bit
field, what the code makes of it is its signed value.

Only model-checked: liveness (`CallsReturn`, `ReconnectRecovers`, `ToolReturns`,
`CaptureKeepsRunning`, `AutoConnects`, `SearchEnds`, `StraysEnd`, `HaltEnds`), which the
proof system does not handle under fairness, and what the violation runs show.  The
safety that the liveness rests on is proved where it can be said: no circular wait,
joins that are awaited, stops that are not lost, a search that advances.
`PausedMeansHalted` and `QuiescedForModify` cannot be proved for all tools, since they
do not hold for all.

## 6. Assumptions

- A command is one round trip in `DebugSession`.  `StreamShape` and
  `ReplyMatches` justify it as long as the stub answers in time.
- Dolphin's stub serves queries while the CPU runs, as the code expects when it
  probes before an interrupt, although README:189-192 says it does so only when
  the CPU is paused.
- An interrupt is overlooked (`MayDrop`) in `session_tracing` and in the extra
  configurations, not in the runs that check `QuiescedForModify`: with one overlooked
  interrupt that property fails, which is what `session_quiesce` shows and
  **QuiescingWorks** names as its condition.
- `Annotates` is whether a watchpoint hit names its address.  The code's own
  fallback is for a Dolphin that does not, so most runs have it FALSE.
- In `DebugSession` a joined watcher ends within the two seconds `stop_watcher`
  waits, since no call stalls, and a watcher ends with an exception only when the
  registry changes under its iteration.  The other ends (a lost connection, a failed
  register read or resume, a join that times out) are in `Watchers`.
- In `Watchers` the breakpoints are watchpoints, stay set, and their hits name the
  address.  A stalled stub keeps what it is sent; a stop reply that it has sent is
  not lost.  Of the replies of one capture at most one is late, and the reply of
  a resume is none.
- No address has two breakpoints.  `spec.condition` is set by no tool.
- A frozen Dolphin in `Connection` answers nothing and loses nothing; what a late
  answer does is in `GdbClient`.  A call that finds the connection gone closes the
  socket there; the `recv` that fails and leaves it open (`LostOpen`) is in `GdbClient`.
- The attachment to the emulator's process is the handle and its process; the walk
  over its regions is operating system I/O.  There is one Dolphin process at a time:
  with two, `find_dolphin` takes the first, whichever is connected.  The backend through
  the stub is `Mem` (`MemStub` in `Connection`), which takes no lock.
- Code given to `disasm` is a straight line, run from the `pc` it was decoded at; the
  operand of a `subi` is the magnitude of a negative field of `addi`, from 1 to 0x8000.
  Whether capstone prints `subi` at all depends on its version; when it prints `addi`
  with a negative number the exception above does not arise.
  `branch_target` is what capstone prints.

Not modelled: dumps and their diffs, `read_struct`, `follow_pointer` and `get_stack`
(sequences of memory reads without state of their own), parsing of addresses, packets
and map files, the table of mnemonics, the walk over a process's regions, the
diagnostic buffer, what `health` reports, server, command line and logging.

## 7. Plan

In this order; what is marked is done.

1. [done] StopStream, GdbClient, their runs and proofs.
2. [done] DebugSession, Connection and their runs; proofs about Connection.
3. [done] MemoryMap, MemorySearch, their run and proofs.
4. [done] The symbol map and the disassembler, their run and proofs.
5. [done] Watchers under a stub that fails, their run and proofs; the process
   attachment and memory reads in `Connection`; `SocketAlone`.
6. [done] Proofs about `DebugSession`.
7. [done] The step simulation of `StopsAreAStream` as a theorem.
8. [done] Proofs for all tools at once (`ToolProofs`), for stubs that stall, for the
   hits of any number of watchers, for the locks and the process attachment.
9. `follow_pointer`: the docstring's example reads `u32[slot1_addr + 0x10]`
   first, the code dereferences the base first.
10. Dumps: a snapshot is two files written one after the other while the game runs,
   and two scenario names may be the same after sanitization.
