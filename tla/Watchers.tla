------------------------------- MODULE Watchers -------------------------------
(***************************************************************************)
(* stop_watcher.py over time: the stop watcher that is running, the ones   *)
(* that were told to stop and have not yet done so, and a stub that may    *)
(* stall (UI-pause), refuse and go away under any of their calls.          *)
(* DebugSession has the tools that set breakpoints, pause and wait, with   *)
(* one watcher and a stub that answers in time; here the breakpoints stay  *)
(* set and the tools are the two that start and stop watchers.             *)
(*                                                                         *)
(* Breakpoints are watchpoints whose hits Dolphin annotates.  Of the stop  *)
(* replies only hits are modelled; what a stalled stub still owes is       *)
(* delivered when it thaws, and a reply nobody waits for any more is then  *)
(* read as a stop.  spec.condition is left out: no tool sets it.           *)
(* Operators commented "Mutant" are faulty variants of the definition that *)
(* follows them; no specification uses them.                               *)
(***************************************************************************)
EXTENDS Naturals, Sequences, FiniteSets

CONSTANTS Bp,         \* the breakpoints, all of them armed
          Watcher,    \* bound: watcher threads alive at a time
          MaxHits,    \* bound: hits
          MaxStalls,  \* bound: UI-pauses
          MayRefuse,  \* can a register read be refused, or answered with nonsense?
          MayExit     \* can Dolphin exit?

ASSUME BoundsAssumption == MaxHits \in Nat /\ MaxStalls \in Nat
ASSUME FlagsAssumption == {MayRefuse, MayExit} \subseteq BOOLEAN
ASSUME NamesAssumption == "none" \notin Bp \cup Watcher /\ "free" \notin Watcher

VARIABLES
  \* the stub
  stub,      \* "up", "stalled" or "gone"
  stalls,    \* history: how many UI-pauses there have been
  cpu,       \* 0 when running, else the number of the hit that halted it
  hits,      \* history: how many hits there have been
  wire,      \* stop replies not yet read
  owed,      \* what the stalled stub has been sent: "reply" to a query, "c"
  \* the session
  aside,     \* stub._pending_replies
  auto,      \* the breakpoints with auto_continue
  log,       \* the captures of all breakpoints, by the hit they are for
  state,     \* session.state: "paused" or "running"
  current,   \* session.watcher
  lock,      \* owner of session.gdb_lock
  \* the threads
  wp,        \* where each watcher is; "dead" before it starts and after its end
  signalled, \* the watchers whose _stop_event is set
  hit,       \* what each watcher's wait_for_stop returned
  tp,        \* where the tool thread is
  surfaced,  \* history: has a stop been surfaced?
  left       \* history: the hits whose watcher ended before it had resumed the CPU

stubVars == <<stub, stalls, cpu, hits, wire, owed>>
sessionVars == <<aside, auto, log, state>>
threadVars == <<current, lock, wp, signalled, hit, tp, surfaced, left>>
vars == <<stubVars, sessionVars, threadVars>>

\* a stop reply; Late is the reply to a query that was given up
Late == [n |-> 0, bp |-> "none"]
Hits == [n : 1..MaxHits, bp : Bp] \cup {Late}
NoHit == [n |-> 0, bp |-> "no hit"]

Live == {w \in Watcher : wp[w] # "dead"}

Init == /\ stub = "up" /\ stalls = 0 /\ cpu = 0 /\ hits = 0 /\ wire = <<>> /\ owed = {}
        /\ aside = <<>> /\ auto = {} /\ log = <<>> /\ state = "running"
        /\ current = "none" /\ lock = "free"
        /\ wp = [w \in Watcher |-> "dead"] /\ signalled = {}
        /\ hit = [w \in Watcher |-> NoHit]
        /\ tp = "idle" /\ surfaced = FALSE /\ left = {}

Goto(w, l) == wp' = [wp EXCEPT ![w] = l]

\* the end of run(), or of an iteration, inside "with gdb_lock"
Leave(w, l) == /\ Goto(w, l) /\ lock' = "free" /\ hit' = [hit EXCEPT ![w] = NoHit]

-----------------------------------------------------------------------------
(* capture_on_hit and stop_capturing                                       *)

CaptureOnHit(b) == /\ tp = "idle" /\ tp' = "resume"
                   /\ auto' = auto \cup {b}
                   /\ UNCHANGED <<stubVars, aside, log, state, current, lock, wp, signalled,
                                  hit, surfaced, left>>

\* Mutant: the state of the session is not asked for
CaptureResumeAlways ==
  /\ tp = "resume" /\ tp' = "start"
  /\ cpu' = IF stub = "up" THEN 0 ELSE cpu
  /\ state' = "running"
  /\ UNCHANGED <<stub, stalls, hits, wire, owed, aside, auto, log, current, lock, wp, signalled,
                 hit, surfaced, left>>

\* c, without gdb_lock, to a session that is paused; a failure ends the tool
CaptureResume ==
  /\ tp = "resume"
  /\ IF state = "running"
       THEN tp' = "start" /\ UNCHANGED <<cpu, owed, state>>
       ELSE CASE stub = "up"      -> /\ cpu' = 0 /\ state' = "running" /\ tp' = "start"
                                     /\ UNCHANGED owed
              [] stub = "stalled" -> /\ owed' = owed \cup {"c"} /\ tp' = "idle"
                                     /\ UNCHANGED <<cpu, state>>
              [] stub = "gone"    -> tp' = "idle" /\ UNCHANGED <<cpu, owed, state>>
  /\ UNCHANGED <<stub, stalls, hits, wire, aside, auto, log, current, lock, wp, signalled, hit,
                 surfaced, left>>

\* ensure_watcher_running
StartWatcher ==
  /\ tp = "start" /\ tp' = "idle"
  /\ IF current \in Live THEN UNCHANGED <<current, wp, signalled>>
     ELSE \E w \in Watcher \ Live : /\ current' = w /\ Goto(w, "top")
                                    /\ signalled' = signalled \ {w}
  /\ UNCHANGED <<stubVars, sessionVars, lock, hit, surfaced, left>>

\* Mutant: a watcher is told to stop that does not exist
StopCapturingAnyway(B) ==
  /\ tp = "idle"
  /\ auto' = auto \ B
  /\ tp' = IF auto' = {} THEN "signal" ELSE "idle"
  /\ UNCHANGED <<stubVars, aside, log, state, current, lock, wp, signalled, hit, surfaced, left>>

StopCapturing(B) ==
  /\ tp = "idle"
  /\ auto' = auto \ B
  /\ tp' = IF auto' = {} /\ current # "none" THEN "signal" ELSE "idle"
  /\ UNCHANGED <<stubVars, aside, log, state, current, lock, wp, signalled, hit, surfaced, left>>

\* Mutant: the watcher is forgotten without being told to stop
SignalNobody == /\ tp = "signal" /\ tp' = "join"
                /\ UNCHANGED <<stubVars, sessionVars, current, lock, wp, signalled, hit, surfaced,
                               left>>

\* stop_watcher: w.stop()
SignalWatcher == /\ tp = "signal" /\ tp' = "join"
                 /\ signalled' = signalled \cup {current}
                 /\ UNCHANGED <<stubVars, sessionVars, current, lock, wp, hit, surfaced, left>>

\* w.join(timeout): the watcher has ended, or it or the watcher it waits for reads
\* registers from a stub that does not answer, each of which may take longer
\* than the join; it is forgotten either way
JoinWatcher == /\ tp = "join" /\ tp' = "idle"
               /\ current \in Live =>
                    lock # "free" /\ wp[lock] \in {"capture", "resume"} /\ stub # "up"
               /\ current' = "none"
               /\ UNCHANGED <<stubVars, sessionVars, lock, wp, signalled, hit, surfaced, left>>

-----------------------------------------------------------------------------
(* StopWatcher.run, on watcher w                                           *)

Top(w) == /\ wp[w] = "top"
          /\ Goto(w, IF w \in signalled \/ auto = {} THEN "dead" ELSE "lock")
          /\ UNCHANGED <<stubVars, sessionVars, current, lock, signalled, hit, tp, surfaced, left>>

Acquire(w) == /\ wp[w] = "lock" /\ lock = "free"
              /\ IF w \in signalled THEN Goto(w, "dead") /\ UNCHANGED lock
                                    ELSE Goto(w, "wait") /\ lock' = w
              /\ UNCHANGED <<stubVars, sessionVars, current, signalled, hit, tp, surfaced, left>>

\* wait_for_stop returns what is put aside first
TakeStop(w) ==
  /\ wp[w] = "wait"
  /\ IF aside # <<>>
       THEN /\ hit' = [hit EXCEPT ![w] = Head(aside)] /\ aside' = Tail(aside)
            /\ UNCHANGED wire
       ELSE /\ wire # <<>>
            /\ hit' = [hit EXCEPT ![w] = Head(wire)] /\ wire' = Tail(wire)
            /\ UNCHANGED aside
  /\ Goto(w, "match")
  /\ UNCHANGED <<stub, stalls, cpu, hits, owed, auto, log, state, current, lock, signalled, tp,
                 surfaced, left>>

\* "except socket.timeout: continue", and "connection lost; exiting"
NoStop(w) == /\ wp[w] = "wait" /\ aside = <<>> /\ wire = <<>>
             /\ Leave(w, IF stub = "gone" THEN "dead" ELSE "top")
             /\ UNCHANGED <<stubVars, sessionVars, current, signalled, tp, surfaced, left>>

\* _match_bp: by the watched address, else the lone watchpoint
Matched(h) == IF h # Late THEN {h.bp} ELSE IF Cardinality(Bp) = 1 THEN Bp ELSE {}

Match(w) == /\ wp[w] = "match" /\ Matched(hit[w]) \cap auto # {}
            /\ Goto(w, "capture")
            /\ UNCHANGED <<stubVars, sessionVars, current, lock, signalled, hit, tp, surfaced, left>>

\* "surfacing non-auto stop; exiting"
Surface(w) == /\ wp[w] = "match" /\ Matched(hit[w]) \cap auto = {}
              /\ aside' = Append(aside, hit[w]) /\ state' = "paused" /\ surfaced' = TRUE
              /\ Leave(w, "dead")
              /\ UNCHANGED <<stubVars, auto, log, current, signalled, tp, left>>

\* Mutant: a failed read is left with the next iteration
CaptureOnlyComplete(w) ==
  /\ wp[w] = "capture"
  /\ IF stub = "up"
       THEN log' = Append(log, hit[w].n) /\ Goto(w, "resume") /\ UNCHANGED <<lock, hit>>
       ELSE log' = log /\ Leave(w, "top")
  /\ owed' = IF stub = "stalled" THEN owed \cup {"reply"} ELSE owed
  /\ UNCHANGED <<stub, stalls, cpu, hits, wire, aside, auto, state, current, signalled, tp,
                 surfaced, left>>

\* the register reads; when one times out or the connection is lost, "save what
\* we have anyway"
Capture(w) == /\ wp[w] = "capture"
              /\ log' = Append(log, hit[w].n)
              /\ Goto(w, "resume")
              /\ owed' = IF stub = "stalled" THEN owed \cup {"reply"} ELSE owed
              /\ UNCHANGED <<stub, stalls, cpu, hits, wire, aside, auto, state, current, lock,
                             signalled, hit, tp, surfaced, left>>

\* a refused read (GDBProtocolError) and a reply that is no registers
\* (ValueError) are not caught: the thread ends
CaptureDies(w) == /\ MayRefuse /\ stub = "up" /\ wp[w] = "capture"
                  /\ Leave(w, "dead") /\ left' = left \cup {hit[w].n}
                  /\ UNCHANGED <<stubVars, sessionVars, current, signalled, tp, surfaced>>

\* a c that times out or finds the connection lost
Unanswered(w) == /\ owed' = IF stub = "stalled" THEN owed \cup {"c"} ELSE owed
                 /\ left' = IF stub = "up" THEN left ELSE left \cup {hit[w].n}

\* Mutant: the stop of a resume that fails is put back
ResumePutsBack(w) ==
  /\ wp[w] = "resume"
  /\ cpu' = IF stub = "up" THEN 0 ELSE cpu
  /\ Unanswered(w)
  /\ aside' = IF stub = "stalled" THEN Append(aside, hit[w]) ELSE aside
  /\ Leave(w, IF stub = "up" THEN "top" ELSE "dead")
  /\ UNCHANGED <<stub, stalls, hits, wire, auto, log, state, current, signalled, tp, surfaced>>

\* Mutant: a resume that fails is tried again
ResumeRetries(w) ==
  /\ wp[w] = "resume"
  /\ cpu' = IF stub = "up" THEN 0 ELSE cpu
  /\ IF stub = "up" THEN Leave(w, "top") ELSE UNCHANGED <<lock, wp, hit>>
  /\ UNCHANGED <<stub, stalls, hits, wire, owed, aside, auto, log, state, current, signalled, tp,
                 surfaced, left>>

\* "continue failed; exiting"
Resume(w) == /\ wp[w] = "resume"
             /\ cpu' = IF stub = "up" THEN 0 ELSE cpu
             /\ Unanswered(w)
             /\ Leave(w, IF stub = "up" THEN "top" ELSE "dead")
             /\ UNCHANGED <<stub, stalls, hits, wire, aside, auto, log, state, current, signalled,
                            tp, surfaced>>

-----------------------------------------------------------------------------
(* Dolphin (external)                                                      *)

HitBp(b) == /\ stub = "up" /\ cpu = 0 /\ hits < MaxHits
            /\ hits' = hits + 1 /\ cpu' = hits'
            /\ wire' = Append(wire, [n |-> hits', bp |-> b])
            /\ UNCHANGED <<stub, stalls, owed, sessionVars, threadVars>>

Stall == /\ stub = "up" /\ stub' = "stalled"
         /\ stalls < MaxStalls /\ stalls' = stalls + 1
         /\ UNCHANGED <<cpu, hits, wire, owed, sessionVars, threadVars>>

\* what is owed is served, and the reply finds nobody waiting
Thaw == /\ stub = "stalled" /\ stub' = "up"
        /\ wire' = IF "reply" \in owed THEN Append(wire, Late) ELSE wire
        /\ cpu' = IF "c" \in owed THEN 0 ELSE cpu
        /\ owed' = {}
        /\ UNCHANGED <<stalls, hits, sessionVars, threadVars>>

Exit == /\ MayExit /\ stub # "gone" /\ stub' = "gone"
        /\ UNCHANGED <<stalls, cpu, hits, wire, owed, sessionVars, threadVars>>

-----------------------------------------------------------------------------
WatcherNext(w) == \/ Top(w) \/ Acquire(w) \/ TakeStop(w) \/ NoStop(w) \/ Match(w)
                  \/ Surface(w) \/ Capture(w) \/ CaptureDies(w) \/ Resume(w)
ToolNext == CaptureResume \/ StartWatcher \/ SignalWatcher \/ JoinWatcher
Calls == \/ \E b \in Bp : CaptureOnHit(b)
         \/ \E B \in {Bp} \cup {{b} : b \in Bp} : StopCapturing(B)
Dolphin == (\E b \in Bp : HitBp(b)) \/ Stall \/ Thaw \/ Exit

Next == (\E w \in Watcher : WatcherNext(w)) \/ ToolNext \/ Calls \/ Dolphin

Spec == Init /\ [][Next]_vars

\* Every thread is scheduled; a lock that is free again and again is obtained.
FairSpec == /\ Spec /\ WF_vars(ToolNext)
            /\ \A w \in Watcher : WF_vars(WatcherNext(w)) /\ SF_vars(Acquire(w))

-----------------------------------------------------------------------------
(* Properties                                                              *)

Locked == {"wait", "match", "capture", "resume"}

TypeOK ==
  /\ stub \in {"up", "stalled", "gone"} /\ stalls \in 0..MaxStalls
  /\ hits \in 0..MaxHits /\ cpu \in 0..hits
  /\ wire \in Seq(Hits) /\ aside \in Seq(Hits) /\ owed \subseteq {"reply", "c"}
  /\ auto \subseteq Bp /\ log \in Seq(0..MaxHits) /\ state \in {"paused", "running"}
  /\ current \in Watcher \cup {"none"} /\ lock \in Watcher \cup {"free"}
  /\ wp \in [Watcher -> {"dead", "top", "lock"} \cup Locked] /\ signalled \subseteq Watcher
  /\ hit \in [Watcher -> Hits \cup {NoHit}]
  /\ tp \in {"idle", "resume", "start", "signal", "join"}
  /\ surfaced \in BOOLEAN /\ left \subseteq 0..MaxHits

\* "with session.gdb_lock": the lock belongs to a watcher that is inside, however
\* the iterations before ended.
LockIsReturned == \A w \in Watcher : lock = w <=> wp[w] \in Locked

\* stop_watcher and ensure_watcher_running: a watcher the session has forgotten
\* is on its way out, although its join may have timed out; no two watchers stay.
StraysAreSignalled == Live \ {current} \subseteq signalled

\* ... and it gets there, also when the stub has stalled under it.
StraysEnd == \A w \in Watcher : w \in signalled ~> (w \notin signalled \/ w \notin Live)

\* A hit is captured once, whichever watchers see its stop reply, and whatever
\* fails while they handle it.
LoggedOnce == \A i \in DOMAIN log : \A j \in DOMAIN log :
                i # j /\ log[i] # 0 => log[i] # log[j]

\* capture_on_hit, "auto-continue with state capture": the registers are read
\* while the CPU stands at the hit, for nobody resumes it between stop and read,
\* and the stop is not an old one.  Until the first stop is surfaced, or a late
\* reply has been taken for one.
CaptureIsOfTheHit ==
  ~surfaced /\ (\A i \in DOMAIN log : log[i] # 0) =>
    \A w \in Watcher : wp[w] = "capture" /\ hit[w] # Late => cpu = hit[w].n

\* the same for every capture
EveryCaptureIsOfTheHit ==
  \A w \in Watcher : wp[w] = "capture" => cpu # 0 /\ cpu = hit[w].n

\* StopWatcher, "auto-resume so the next hit can come in": where a watcher is at
\* work no hit holds the game, unless it is surfaced or its watcher has ended.
HaltEnds ==
  cpu # 0 ~> \/ cpu = 0 \/ state = "paused" \/ cpu \in left \/ stub = "gone"
             \/ Live \subseteq signalled

\* StopWatcher, "One per Session."
OnePerSession == Cardinality(Live) <= 1
===============================================================================
