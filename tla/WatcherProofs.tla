----------------------------- MODULE WatcherProofs -----------------------------
(***************************************************************************)
(* Proofs about Watchers, for any set of breakpoints, any number of        *)
(* watcher threads, hits and UI-pauses: gdb_lock is given back however an  *)
(* iteration ends, no watcher is lost without having been told to stop,    *)
(* and the registers a watcher captures are those of the hit it captures   *)
(* them for.                                                               *)
(***************************************************************************)
EXTENDS Watchers, SequenceTheorems, TLAPS

-----------------------------------------------------------------------------
(* Types, and who has the lock                                             *)

\* TypeOK is not inductive: a watcher may surface or log what it holds because
\* it holds a stop reply between its wait and its resume, and only then.
HoldsHit == \A w \in Watcher :
  /\ wp[w] \in {"match", "capture", "resume"} => hit[w] \in Hits
  /\ wp[w] \notin {"match", "capture", "resume"} => hit[w] = NoHit

\* and there is a watcher for stop_watcher to tell and to join
TellsWatcher == tp \in {"signal", "join"} => current \in Watcher

Base == TypeOK /\ HoldsHit /\ LockIsReturned /\ TellsWatcher

\* What a watcher holds is logged by its number, and NoHit is no stop reply.
LEMMA HitNumber ==
  /\ NoHit \notin Hits /\ Late \in Hits
  /\ \A h \in Hits : h.n \in 0..MaxHits
  /\ \A h \in Hits \ {Late} : h.n \in 1..MaxHits
  <1> USE BoundsAssumption DEF Hits, Late, NoHit
  <1>1. NoHit \notin Hits
    <2>1. NoHit.n \notin 1..MaxHits /\ NoHit.bp # Late.bp
      OBVIOUS
    <2> QED BY <2>1
  <1>2. \A h \in Hits : h.n \in 0..MaxHits
    OBVIOUS
  <1>3. \A h \in Hits \ {Late} : h.n \in 1..MaxHits
    OBVIOUS
  <1> QED BY <1>1, <1>2, <1>3

\* Nothing has happened when the server starts.
LEMMA BaseInit == Init => Base
  <1> SUFFICES ASSUME Init PROVE Base
    OBVIOUS
  <1> USE DEF Init
  <1>1. wire \in Seq(Hits) /\ aside \in Seq(Hits) /\ log \in Seq(0..MaxHits)
    OBVIOUS
  <1>2. TypeOK
    <2>1. cpu \in 0..hits /\ hits \in 0..MaxHits /\ stalls \in 0..MaxStalls
      BY BoundsAssumption
    <2>2. /\ wp \in [Watcher -> {"dead", "top", "lock"} \cup Locked]
          /\ hit \in [Watcher -> Hits \cup {NoHit}]
      BY DEF Locked
    <2> QED BY <1>1, <2>1, <2>2 DEF TypeOK
  <1>3. HoldsHit /\ LockIsReturned /\ TellsWatcher
    BY NamesAssumption DEF HoldsHit, TellsWatcher, LockIsReturned, Locked
  <1> QED BY <1>2, <1>3 DEF Base

\* A step of a watcher at the top of its loop, or waiting for the lock.
LEMMA OutsideBase ==
  ASSUME Base, NEW w \in Watcher, Top(w) \/ Acquire(w)
  PROVE  Base'
  <1> USE NamesAssumption DEF Base, TypeOK, HoldsHit, TellsWatcher, LockIsReturned, Locked, Goto, stubVars, sessionVars
  <1>1. CASE Top(w)
    BY <1>1 DEF Top
  <1>2. CASE Acquire(w)
    BY <1>2 DEF Acquire
  <1> QED BY <1>1, <1>2

\* A step that gives the lock back: the watcher is outside and holds no stop.
LEMMA LeaveBase ==
  ASSUME Base, NEW w \in Watcher, lock = w, NEW l \in {"dead", "top"}, Leave(w, l)
  PROVE  /\ HoldsHit' /\ LockIsReturned'
         /\ lock' \in Watcher \cup {"free"} /\ hit' \in [Watcher -> Hits \cup {NoHit}]
         /\ wp' \in [Watcher -> {"dead", "top", "lock"} \cup Locked]
  BY NamesAssumption DEF Base, TypeOK, HoldsHit, TellsWatcher, LockIsReturned, Locked, Leave, Goto

\* A step under the lock that does not give it back.
LEMMA InsideBase ==
  ASSUME Base, NEW w \in Watcher, TakeStop(w) \/ Match(w) \/ Capture(w)
  PROVE  Base'
  <1> USE DEF Base, Goto, stubVars, sessionVars
  <1>1. CASE TakeStop(w)
    <2>1. /\ aside' \in Seq(Hits) /\ wire' \in Seq(Hits)
          /\ hit' \in [Watcher -> Hits \cup {NoHit}] /\ hit'[w] \in Hits
      <3>1. CASE aside # <<>>
        <4>1. Head(aside) \in Hits /\ Tail(aside) \in Seq(Hits)
          BY <3>1, HeadTailProperties DEF TypeOK
        <4> QED BY <1>1, <3>1, <4>1 DEF TakeStop, TypeOK
      <3>2. CASE aside = <<>>
        <4>1. Head(wire) \in Hits /\ Tail(wire) \in Seq(Hits)
          BY <1>1, <3>2, HeadTailProperties DEF TakeStop, TypeOK
        <4> QED BY <1>1, <3>2, <4>1 DEF TakeStop, TypeOK
      <3> QED BY <3>1, <3>2
    <2>2. \A v \in Watcher \ {w} : hit'[v] = hit[v] /\ wp'[v] = wp[v]
      BY <1>1 DEF TakeStop, TypeOK
    <2>3. wp[w] = "wait" /\ wp'[w] = "match" /\ wp' \in [Watcher -> {"dead", "top", "lock"} \cup Locked]
      BY <1>1 DEF TakeStop, TypeOK, Locked
    <2>4. TypeOK'
      BY <1>1, <2>1, <2>3 DEF TakeStop, TypeOK
    <2>5. HoldsHit' /\ TellsWatcher'
      BY <1>1, <2>1, <2>2, <2>3 DEF HoldsHit, TellsWatcher, TakeStop
    <2>6. LockIsReturned'
      BY <1>1, <2>2, <2>3 DEF TakeStop, LockIsReturned, Locked
    <2> QED BY <2>4, <2>5, <2>6
  <1>2. CASE Match(w)
    BY <1>2 DEF Match, TypeOK, HoldsHit, TellsWatcher, LockIsReturned, Locked
  <1>3. CASE Capture(w)
    <2>1. log' \in Seq(0..MaxHits)
      BY <1>3, HitNumber, AppendProperties DEF Capture, TypeOK, HoldsHit
    <2>2. TypeOK'
      BY <1>3, <2>1 DEF Capture, TypeOK, Locked
    <2>3. HoldsHit' /\ LockIsReturned' /\ TellsWatcher'
      BY <1>3 DEF Capture, TypeOK, HoldsHit, TellsWatcher, LockIsReturned, Locked
    <2> QED BY <2>2, <2>3
  <1> QED BY <1>1, <1>2, <1>3

\* A step that ends an iteration or the watcher: nothing waits, a stop is
\* surfaced, the capture dies, the CPU is resumed or could not be.
LEMMA EndBase ==
  ASSUME Base, NEW w \in Watcher, NoStop(w) \/ Surface(w) \/ CaptureDies(w) \/ Resume(w)
  PROVE  Base'
  <1>1. lock = w
    BY DEF Base, LockIsReturned, Locked, NoStop, Surface, CaptureDies, Resume
  <1>2. PICK l \in {"dead", "top"} : Leave(w, l)
    BY DEF NoStop, Surface, CaptureDies, Resume
  <1>3. /\ HoldsHit' /\ LockIsReturned'
        /\ lock' \in Watcher \cup {"free"} /\ hit' \in [Watcher -> Hits \cup {NoHit}]
        /\ wp' \in [Watcher -> {"dead", "top", "lock"} \cup Locked]
    BY <1>1, <1>2, LeaveBase
  <1> USE DEF Base, stubVars, sessionVars
  <1>4. TellsWatcher'
    BY DEF TellsWatcher, NoStop, Surface, CaptureDies, Resume
  <1>5. CASE NoStop(w)
    BY <1>3, <1>5, <1>4 DEF NoStop, TypeOK
  <1>6. CASE Surface(w)
    <2>1. aside' \in Seq(Hits)
      BY <1>6, AppendProperties DEF Surface, TypeOK, HoldsHit
    <2> QED BY <1>3, <1>6, <1>4, <2>1 DEF Surface, TypeOK
  <1>7. wp[w] \in {"capture", "resume"} => hit[w].n \in 0..MaxHits
    BY HitNumber DEF HoldsHit
  <1>8. CASE CaptureDies(w)
    BY <1>3, <1>7, <1>8, <1>4 DEF CaptureDies, TypeOK
  <1>9. CASE Resume(w)
    <2>1. owed' \subseteq {"reply", "c"} /\ left' \subseteq 0..MaxHits
      BY <1>7, <1>9 DEF Resume, Unanswered, TypeOK
    <2>2. hits' = hits /\ cpu' \in 0..hits
      BY <1>9, BoundsAssumption DEF Resume, TypeOK
    <2> QED BY <1>3, <1>9, <1>4, <2>1, <2>2 DEF Resume, TypeOK
  <1> QED BY <1>5, <1>6, <1>8, <1>9

\* The tools, of which none takes gdb_lock here.
LEMMA ToolBase ==
  ASSUME Base, ToolNext \/ Calls
  PROVE  Base'
  <1> USE DEF Base, TypeOK, HoldsHit, TellsWatcher, LockIsReturned, Locked, Goto, stubVars, sessionVars
  <1>1. ASSUME NEW b \in Bp, CaptureOnHit(b) PROVE Base'
    <2>1. auto' \subseteq Bp /\ tp' \in {"idle", "resume", "start", "signal", "join"}
      BY <1>1 DEF CaptureOnHit
    <2> QED BY <1>1, <2>1 DEF CaptureOnHit
  <1>2. CASE CaptureResume
    <2>1. \/ cpu' = cpu /\ owed' = owed /\ state' = state /\ tp' \in {"start", "idle"}
          \/ cpu' = 0 /\ owed' = owed /\ state' = "running" /\ tp' = "start"
          \/ cpu' = cpu /\ owed' = owed \cup {"c"} /\ state' = state /\ tp' = "idle"
      <3>1. stub \in {"up", "stalled", "gone"}
        OBVIOUS
      <3> QED BY ONLY <1>2, <3>1 DEF CaptureResume
    <2>2. hits' = hits /\ cpu' \in 0..hits
      BY <1>2, <2>1, BoundsAssumption DEF CaptureResume
    <2> QED BY <1>2, <2>1, <2>2 DEF CaptureResume
  <1>3. CASE StartWatcher
    <2>1. CASE current \in Live
      BY <1>3, <2>1, NamesAssumption DEF StartWatcher
    <2>2. CASE current \notin Live
      <3>1. PICK w \in Watcher \ Live :
              current' = w /\ Goto(w, "top") /\ signalled' = signalled \ {w}
        BY <1>3, <2>2 DEF StartWatcher
      <3>2. /\ wp' \in [Watcher -> {"dead", "top", "lock"} \cup Locked]
            /\ w \in Watcher /\ wp[w] = "dead" /\ wp' = [wp EXCEPT ![w] = "top"]
        BY <3>1 DEF Live
      <3> QED BY <1>3, <3>1, <3>2, NamesAssumption DEF StartWatcher
    <2> QED BY <2>1, <2>2
  <1>4. ASSUME NEW B \in SUBSET Bp, StopCapturing(B) PROVE Base'
    <2>1. auto' \subseteq Bp /\ tp' \in {"idle", "resume", "start", "signal", "join"}
      BY <1>4 DEF StopCapturing
    <2> QED BY <1>4, <2>1 DEF StopCapturing
  <1>5. CASE SignalWatcher
    BY <1>5 DEF SignalWatcher
  <1>6. CASE JoinWatcher
    BY <1>6 DEF JoinWatcher
  <1>7. Bp \in SUBSET Bp /\ \A b \in Bp : {b} \in SUBSET Bp
    OBVIOUS
  <1> QED BY <1>1, <1>2, <1>3, <1>4, <1>5, <1>6, <1>7 DEF ToolNext, Calls

\* What Dolphin does: a hit takes the next number, a late reply is a stop reply.
LEMMA DolphinBase ==
  ASSUME Base, Dolphin
  PROVE  Base'
  <1> USE DEF Base, TypeOK, HoldsHit, TellsWatcher, LockIsReturned, Locked, sessionVars, threadVars
  <1>1. ASSUME NEW b \in Bp, HitBp(b) PROVE Base'
    <2>1. [n |-> hits + 1, bp |-> b] \in Hits
      BY <1>1, BoundsAssumption DEF HitBp, Hits
    <2>2. wire' \in Seq(Hits)
      BY <1>1, <2>1, AppendProperties DEF HitBp
    <2>3. hits' \in 0..MaxHits /\ cpu' \in 0..hits'
      BY <1>1, BoundsAssumption DEF HitBp
    <2> QED BY <1>1, <2>2, <2>3 DEF HitBp
  <1>2. CASE Stall
    BY <1>2, BoundsAssumption DEF Stall
  <1>3. CASE Thaw
    <2>1. wire' \in Seq(Hits)
      BY <1>3, HitNumber, AppendProperties DEF Thaw
    <2>2. hits' \in 0..MaxHits /\ cpu' \in 0..hits'
      BY <1>3, BoundsAssumption DEF Thaw
    <2> QED BY <1>3, <2>1, <2>2 DEF Thaw
  <1>4. CASE Exit
    BY <1>4 DEF Exit
  <1> QED BY <1>1, <1>2, <1>3, <1>4 DEF Dolphin

\* Types, the stops the watchers hold and the lock are kept by every step.
LEMMA BaseNext == Base /\ [Next]_vars => Base'
  <1> SUFFICES ASSUME Base, [Next]_vars PROVE Base'
    OBVIOUS
  <1>1. CASE UNCHANGED vars
    BY <1>1 DEF vars, stubVars, sessionVars, threadVars, Base, TypeOK, HoldsHit,
                TellsWatcher, LockIsReturned, Locked
  <1>2. CASE \E w \in Watcher : WatcherNext(w)
    BY <1>2, OutsideBase, InsideBase, EndBase DEF WatcherNext
  <1>3. CASE ToolNext \/ Calls
    BY <1>3, ToolBase
  <1>4. CASE Dolphin
    BY <1>4, DolphinBase
  <1> QED BY <1>1, <1>2, <1>3, <1>4 DEF Next

\* The watchers and the session are well typed, and gdb_lock belongs to a watcher
\* just while it is inside: a read that fails, a resume that fails and a thread
\* that dies all give it back.
THEOREM LockAlwaysReturned == Spec => [](TypeOK /\ LockIsReturned)
  <1>1. Spec => []Base
    BY BaseInit, BaseNext, PTL DEF Spec
  <1> QED BY <1>1, PTL DEF Base

-----------------------------------------------------------------------------
(* No stray watcher                                                        *)

\* stop_watcher forgets a watcher only once it has told it to stop.
Strays == StraysAreSignalled /\ (tp = "join" => current \in signalled)

\* A watcher's step starts no watcher, and forgets none.
LEMMA WatcherStrays ==
  ASSUME Base, Strays, NEW w \in Watcher, WatcherNext(w)
  PROVE  Strays'
  <1>1. UNCHANGED <<current, signalled, tp>>
    BY DEF WatcherNext, Top, Acquire, TakeStop, NoStop, Match, Surface, Capture, CaptureDies,
           Resume, Leave
  <1>2. /\ wp[w] # "dead" /\ \E l : wp' = [wp EXCEPT ![w] = l]
    BY DEF WatcherNext, Top, Acquire, TakeStop, NoStop, Match, Surface, Capture, CaptureDies,
           Resume, Leave, Goto
  <1>3. Live' \subseteq Live
    BY <1>2 DEF Live, Base, TypeOK
  <1> QED BY <1>1, <1>3 DEF Strays, StraysAreSignalled

\* The tools: a watcher is started when the session has none, and told before it
\* is forgotten.
LEMMA ToolStrays ==
  ASSUME Base, Strays, ToolNext \/ Calls
  PROVE  Strays'
  <1> USE DEF Base, TypeOK, TellsWatcher, Strays, StraysAreSignalled, Live, sessionVars
  <1>1. CASE \E b \in Bp : CaptureOnHit(b)
    BY <1>1 DEF CaptureOnHit
  <1>2. CASE CaptureResume
    <2>1. tp' \in {"start", "idle"} /\ UNCHANGED <<current, wp, signalled>>
      <3>1. stub \in {"up", "stalled", "gone"}
        OBVIOUS
      <3> QED BY ONLY <1>2, <3>1 DEF CaptureResume
    <2> QED BY <2>1
  <1>3. CASE StartWatcher
    <2>1. CASE current \in Live
      BY <1>3, <2>1 DEF StartWatcher
    <2>2. CASE current \notin Live
      <3>1. PICK w \in Watcher \ Live : /\ current' = w /\ Goto(w, "top")
                                        /\ signalled' = signalled \ {w}
        BY <1>3, <2>2 DEF StartWatcher
      <3>2. Live' \subseteq Live \cup {w}
        BY <3>1 DEF Goto
      <3>3. Live \subseteq signalled
        BY <2>2
      <3> QED BY <1>3, <3>1, <3>2, <3>3 DEF StartWatcher
    <2> QED BY <2>1, <2>2
  <1>4. CASE \E B \in SUBSET Bp : StopCapturing(B)
    BY <1>4 DEF StopCapturing
  <1>5. CASE SignalWatcher
    BY <1>5 DEF SignalWatcher
  <1>6. CASE JoinWatcher
    BY <1>6 DEF JoinWatcher
  <1>7. Bp \in SUBSET Bp /\ \A b \in Bp : {b} \in SUBSET Bp
    OBVIOUS
  <1> QED BY <1>1, <1>2, <1>3, <1>4, <1>5, <1>6, <1>7 DEF ToolNext, Calls

\* However many watchers a stalled stub has kept alive, all but the session's own
\* have been told to stop: there is never a second one that stays.
THEOREM NoStrayWatcher == Spec => []StraysAreSignalled
  <1>1. Init => Strays
    BY DEF Init, Strays, StraysAreSignalled, Live
  <1>2. Base /\ Strays /\ [Next]_vars => Strays'
    <2> SUFFICES ASSUME Base, Strays, [Next]_vars PROVE Strays'
      OBVIOUS
    <2>1. CASE UNCHANGED vars
      BY <2>1 DEF vars, threadVars, Strays, StraysAreSignalled, Live
    <2>2. CASE \E w \in Watcher : WatcherNext(w)
      BY <2>2, WatcherStrays
    <2>3. CASE ToolNext \/ Calls
      BY <2>3, ToolStrays
    <2>4. CASE Dolphin
      BY <2>4 DEF Dolphin, HitBp, Stall, Thaw, Exit, threadVars, Strays, StraysAreSignalled, Live
    <2> QED BY <2>1, <2>2, <2>3, <2>4 DEF Next
  <1> QED BY <1>1, <1>2, BaseInit, BaseNext, PTL DEF Spec, Strays

-----------------------------------------------------------------------------
(* A capture is of the hit it is for                                       *)

\* CaptureIsOfTheHit holds because a hit's stop is in one place from the hit to
\* the resume, the CPU stands there meanwhile, and no `c' is on its way that
\* would resume it: none that a watcher has sent, for it has its stop no more,
\* and none of capture_on_hit, for the session is "running".
Clean == ~surfaced /\ \A i \in DOMAIN log : log[i] # 0
Standing(h) == cpu # 0 /\ h.n = cpu /\ "c" \notin owed

OneStop ==
  /\ aside = <<>> /\ state = "running" /\ (stub = "up" => "c" \notin owed)
  /\ \A w \in Watcher : wp[w] = "resume" => hit[w] # Late
  /\ \A w \in Watcher : hit[w] \notin {Late, NoHit} => Standing(hit[w])
  /\ \A i \in DOMAIN wire : wire[i] # Late =>
       /\ Standing(wire[i])
       /\ \A w \in Watcher : hit[w] \in {Late, NoHit}
       /\ \A j \in DOMAIN wire : wire[j] # Late => j = i

\* A stop taken from the wire is no more on it.
LEMMA TakeOneStop ==
  ASSUME Base, OneStop, NEW w \in Watcher, TakeStop(w)
  PROVE  OneStop'
  <1>1. aside = <<>> /\ wire # <<>>
    BY DEF TakeStop, OneStop
  <1>2. /\ hit' = [hit EXCEPT ![w] = Head(wire)] /\ wire' = Tail(wire)
        /\ wp' = [wp EXCEPT ![w] = "match"]
        /\ UNCHANGED <<aside, state, stub, cpu, owed>>
    BY <1>1 DEF TakeStop, Goto
  <1>3. wire \in Seq(Hits) /\ Len(wire) \in Nat /\ Len(wire) > 0
    BY <1>1, EmptySeq, LenProperties DEF Base, TypeOK
  <1>4. /\ Len(wire') = Len(wire) - 1
        /\ \A i \in DOMAIN wire' : i + 1 \in DOMAIN wire /\ wire'[i] = wire[i + 1]
        /\ Head(wire) = wire[1] /\ 1 \in DOMAIN wire
        /\ \A i \in DOMAIN wire' : i \in Nat /\ i + 1 # 1
    BY <1>1, <1>2, <1>3
  <1>5. \A v \in Watcher \ {w} : hit'[v] = hit[v] /\ hit[v] = NoHit /\ wp'[v] = wp[v]
    BY <1>2 DEF Base, TypeOK, HoldsHit, LockIsReturned, Locked, TakeStop
  <1>6. hit'[w] = Head(wire) /\ wp'[w] = "match"
    BY <1>2 DEF Base, TypeOK
  <1>7. aside' = <<>> /\ state' = "running" /\ (stub' = "up" => "c" \notin owed')
    BY <1>2 DEF OneStop
  <1>8. \A v \in Watcher : wp'[v] = "resume" => hit'[v] # Late
    BY <1>5, <1>6 DEF OneStop
  <1>9. \A v \in Watcher : hit'[v] \notin {Late, NoHit} => Standing(hit[v])'
    <2>1. hit'[w] # Late => Standing(Head(wire))
      BY <1>4, <1>6 DEF OneStop
    <2> QED BY <1>2, <1>5, <1>6, <2>1 DEF Standing
  <1>10. ASSUME NEW i \in DOMAIN wire', wire'[i] # Late
         PROVE  /\ Standing(wire[i + 1])
                /\ Head(wire) = Late
                /\ \A j \in DOMAIN wire' : wire'[j] # Late => j = i
    <2>1. i + 1 \in DOMAIN wire /\ wire[i + 1] # Late /\ i \in Nat
      BY <1>4, <1>10
    <2>2. Standing(wire[i + 1]) /\ \A j \in DOMAIN wire : wire[j] # Late => j = i + 1
      BY <2>1 DEF OneStop
    <2>3. Head(wire) = Late
      BY <1>4, <2>1, <2>2
    <2>4. ASSUME NEW j \in DOMAIN wire', wire'[j] # Late PROVE j = i
      <3>1. j + 1 = i + 1
        BY <1>4, <2>2, <2>4
      <3>2. i \in Nat /\ j \in Nat
        BY <1>4
      <3> QED BY <3>1, <3>2
    <2> QED BY <2>2, <2>3, <2>4
  <1>11. \A i \in DOMAIN wire' : wire'[i] # Late =>
           /\ Standing(wire[i])'
           /\ \A v \in Watcher : hit'[v] \in {Late, NoHit}
           /\ \A j \in DOMAIN wire' : wire'[j] # Late => j = i
    <2> TAKE i \in DOMAIN wire'
    <2> HAVE wire'[i] # Late
    <2>1. Standing(wire[i])'
      BY <1>2, <1>4, <1>10 DEF Standing
    <2>2. \A v \in Watcher : hit'[v] \in {Late, NoHit}
      BY <1>5, <1>6, <1>10
    <2> QED BY <1>10, <2>1, <2>2
  <1> QED BY <1>7, <1>8, <1>9, <1>11 DEF OneStop

\* A step after which the log is clean and nothing is surfaced started like that.
LEMMA CleanBefore == Base /\ [Next]_vars /\ Clean' => Clean
  <1> SUFFICES ASSUME Base, [Next]_vars, Clean' PROVE Clean
    OBVIOUS
  <1>1. ~surfaced
    <2>1. surfaced' = surfaced \/ surfaced'
      <3>1. ASSUME NEW w \in Watcher, WatcherNext(w) PROVE surfaced' = surfaced \/ surfaced'
        BY <3>1 DEF WatcherNext, Top, Acquire, TakeStop, NoStop, Match, Surface, Capture,
                    CaptureDies, Resume
      <3>2. CASE ToolNext \/ Calls
        BY <3>2 DEF ToolNext, Calls, CaptureOnHit, CaptureResume, StartWatcher,
                    StopCapturing, SignalWatcher, JoinWatcher
      <3>3. CASE Dolphin
        BY <3>3 DEF Dolphin, HitBp, Stall, Thaw, Exit, threadVars
      <3> QED BY <3>1, <3>2, <3>3 DEF Next, vars, threadVars
    <2> QED BY <2>1 DEF Clean
  <1>2. log' = log \/ \E n \in 0..MaxHits : log' = Append(log, n)
    <2>1. ASSUME NEW w \in Watcher, WatcherNext(w)
          PROVE  log' = log \/ \E n \in 0..MaxHits : log' = Append(log, n)
      <3>1. CASE Capture(w)
        BY <3>1, HitNumber DEF Capture, Base, HoldsHit
      <3> QED BY <2>1, <3>1 DEF WatcherNext, Top, Acquire, TakeStop, NoStop, Match, Surface,
                                CaptureDies, Resume, sessionVars
    <2>2. CASE ToolNext \/ Calls
      BY <2>2 DEF ToolNext, Calls, CaptureOnHit, CaptureResume, StartWatcher,
                  StopCapturing, SignalWatcher, JoinWatcher, sessionVars
    <2>3. CASE Dolphin
      BY <2>3 DEF Dolphin, HitBp, Stall, Thaw, Exit, sessionVars
    <2> QED BY <2>1, <2>2, <2>3 DEF Next, vars, sessionVars
  <1>3. \A i \in DOMAIN log : log[i] # 0
    <2>1. log \in Seq(0..MaxHits)
      BY DEF Base, TypeOK
    <2>2. \A i \in DOMAIN log : i \in DOMAIN log' /\ log'[i] = log[i]
      BY <1>2, <2>1
    <2> QED BY <2>2 DEF Clean
  <1> QED BY <1>1, <1>3 DEF Clean

\* The other steps of a watcher.  A resume finds nothing else on its way: its own
\* stop was the one there was.
LEMMA WatcherOneStop ==
  ASSUME Base, Clean', OneStop, NEW w \in Watcher, WatcherNext(w)
  PROVE  OneStop'
  <1>1. CASE Top(w) \/ Acquire(w) \/ Match(w)
    <2>1. UNCHANGED <<aside, state, hit, stub, cpu, owed, wire>>
      BY <1>1 DEF Top, Acquire, Match, stubVars, sessionVars
    <2>2. \A v \in Watcher : wp'[v] = "resume" => wp[v] = "resume"
      BY <1>1 DEF Top, Acquire, Match, Goto, Base, TypeOK
    <2> QED BY <2>1, <2>2 DEF OneStop, Standing
  <1>2. CASE TakeStop(w)
    BY <1>2, TakeOneStop
  <1>3. CASE Surface(w)
    BY <1>3 DEF Surface, Clean
  <1>4. CASE Capture(w)
    <2>1. hit[w] # Late
      <3>1. log \in Seq(0..MaxHits) /\ hit[w].n \in 0..MaxHits /\ log' = Append(log, hit[w].n)
        BY <1>4, HitNumber DEF Capture, Base, TypeOK, HoldsHit
      <3>2. Len(log) + 1 \in DOMAIN log' /\ log'[Len(log) + 1] = hit[w].n
        BY <3>1
      <3> QED BY <3>2 DEF Clean, Late
    <2>2. owed' \subseteq owed \cup {"reply"} /\ UNCHANGED <<aside, state, hit, stub, cpu, wire>>
      BY <1>4 DEF Capture
    <2>3. \A v \in Watcher : wp'[v] = "resume" => v = w \/ wp[v] = "resume"
      BY <1>4 DEF Capture, Goto, Base, TypeOK
    <2> QED BY <2>1, <2>2, <2>3 DEF OneStop, Standing
  <1>5. CASE NoStop(w) \/ CaptureDies(w) \/ Resume(w)
    <2>1. /\ hit' = [hit EXCEPT ![w] = NoHit] /\ wp'[w] \in {"dead", "top"}
          /\ \A v \in Watcher \ {w} : wp'[v] = wp[v]
          /\ UNCHANGED <<aside, state, stub, wire>>
      BY <1>5 DEF NoStop, CaptureDies, Resume, Leave, Goto, Base, TypeOK, stubVars, sessionVars
    <2>2. \A v \in Watcher : wp'[v] = "resume" => wp[v] = "resume" /\ hit'[v] = hit[v]
      BY <2>1 DEF Base, TypeOK
    <2>3. \A v \in Watcher : hit'[v] = NoHit \/ (v # w /\ hit'[v] = hit[v])
      BY <2>1 DEF Base, TypeOK
    <2>4. CASE UNCHANGED <<cpu, owed>>
      BY <2>1, <2>2, <2>3, <2>4 DEF OneStop, Standing
    <2>5. CASE Resume(w)
      <3>1. hit[w] \notin {Late, NoHit}
        <4>1. hit[w] \in Hits /\ hit[w] # Late
          BY <2>5 DEF Resume, OneStop, Base, HoldsHit
        <4> QED BY <4>1, HitNumber
      <3>2. \A v \in Watcher \ {w} : hit[v] = NoHit
        BY <2>5 DEF Resume, Base, HoldsHit, LockIsReturned, Locked
      <3>3. \A i \in DOMAIN wire : wire[i] = Late
        BY <3>1 DEF OneStop
      <3>4. stub = "up" => "c" \notin owed'
        BY <2>5 DEF Resume, Unanswered, OneStop
      <3> QED BY <2>1, <2>2, <2>3, <3>2, <3>3, <3>4 DEF OneStop
    <2> QED BY <1>5, <2>4, <2>5 DEF NoStop, CaptureDies, stubVars
  <1> QED BY <1>1, <1>2, <1>3, <1>4, <1>5 DEF WatcherNext

\* The tools: capture_on_hit resumes a session that is paused, and there is none.
LEMMA ToolOneStop ==
  ASSUME Base, OneStop, ToolNext \/ Calls
  PROVE  OneStop'
  <1>1. UNCHANGED <<aside, hit, stub, cpu, owed, wire>> /\ state' = "running"
    <2>1. CASE CaptureResume
      BY <2>1 DEF CaptureResume, OneStop
    <2> QED BY <2>1 DEF OneStop, ToolNext, Calls, CaptureOnHit, StartWatcher, StopCapturing,
                        SignalWatcher, JoinWatcher, stubVars, sessionVars
  <1>2. \A v \in Watcher : wp'[v] = "resume" => wp[v] = "resume"
    BY DEF ToolNext, Calls, CaptureOnHit, CaptureResume, StartWatcher, StopCapturing,
           SignalWatcher, JoinWatcher, Goto, Base, TypeOK
  <1> QED BY <1>1, <1>2 DEF OneStop, Standing

\* Dolphin: a hit finds the CPU running and so no other stop on its way, and a
\* late reply is no stop of a hit.
LEMMA DolphinOneStop ==
  ASSUME Base, OneStop, Dolphin
  PROVE  OneStop'
  <1> USE DEF sessionVars, threadVars
  <1>1. ASSUME NEW b \in Bp, HitBp(b) PROVE OneStop'
    <2> DEFINE h == [n |-> hits + 1, bp |-> b]
    <2>1. wire \in Seq(Hits) /\ hits \in Nat /\ h.n = hits + 1
      BY BoundsAssumption DEF Base, TypeOK
    <2>2. /\ cpu = 0 /\ cpu' = hits + 1 /\ wire' = Append(wire, h)
          /\ UNCHANGED <<aside, state, hit, wp, owed>>
      BY <1>1 DEF HitBp
    <2>3. \A i \in DOMAIN wire : wire[i] = Late
      BY <2>2 DEF OneStop, Standing
    <2>4. \A w \in Watcher : hit[w] \in {Late, NoHit}
      BY <2>2 DEF OneStop, Standing
    <2>5. \A i \in DOMAIN wire' : (i = Len(wire) + 1 /\ wire'[i] = h) \/ wire'[i] = Late
      BY <2>1, <2>2, <2>3
    <2>6. stub' = "up" /\ "c" \notin owed' /\ cpu' # 0
      BY <1>1, <2>1, <2>2 DEF HitBp, OneStop
    <2>7. \A i \in DOMAIN wire' : wire'[i] # Late =>
            i = Len(wire) + 1 /\ wire'[i].n = cpu'
      BY <2>1, <2>2, <2>5
    <2> HIDE DEF h
    <2> QED BY <2>2, <2>4, <2>6, <2>7 DEF OneStop, Standing
  <1>2. CASE Stall \/ Exit
    BY <1>2 DEF Stall, Exit, OneStop, Standing
  <1>3. CASE Thaw
    <2>1. /\ wire' \in {wire, Append(wire, Late)} /\ owed' = {}
          /\ cpu' = IF "c" \in owed THEN 0 ELSE cpu
          /\ UNCHANGED <<aside, state, hit, wp>>
      BY <1>3 DEF Thaw
    <2>2. wire \in Seq(Hits)
      BY DEF Base, TypeOK
    <2>3. \A i \in DOMAIN wire' : (i \in DOMAIN wire /\ wire'[i] = wire[i]) \/ wire'[i] = Late
      BY <2>1, <2>2
    <2> QED BY <2>1, <2>3 DEF OneStop, Standing
  <1> QED BY <1>1, <1>2, <1>3 DEF Dolphin

\* Until a stop is surfaced or a late reply is logged as one, the registers a
\* watcher reads are those of the hit whose stop it has: for any number of
\* breakpoints and watchers, and however often the stub stalls.
THEOREM CapturesTheHit == Spec => []CaptureIsOfTheHit
  <1>1. Init => OneStop
    BY DEF Init, OneStop
  <1>2. Base /\ (Clean => OneStop) /\ [Next]_vars => (Clean => OneStop)'
    <2> SUFFICES ASSUME Base, Clean => OneStop, [Next]_vars, Clean'
                 PROVE  OneStop'
      OBVIOUS
    <2>1. OneStop
      BY CleanBefore
    <2>2. CASE UNCHANGED vars
      BY <2>1, <2>2 DEF vars, stubVars, sessionVars, threadVars, OneStop, Standing
    <2>3. CASE \E w \in Watcher : WatcherNext(w)
      BY <2>1, <2>3, WatcherOneStop
    <2>4. CASE ToolNext \/ Calls
      BY <2>1, <2>4, ToolOneStop
    <2>5. CASE Dolphin
      BY <2>1, <2>5, DolphinOneStop
    <2> QED BY <2>2, <2>3, <2>4, <2>5 DEF Next
  <1>3. Base /\ (Clean => OneStop) => CaptureIsOfTheHit
    <2> SUFFICES ASSUME Base, OneStop, NEW w \in Watcher, wp[w] = "capture", hit[w] # Late
                 PROVE  cpu = hit[w].n
      BY DEF CaptureIsOfTheHit, Clean
    <2>1. hit[w] \in Hits /\ NoHit \notin Hits
      BY HitNumber DEF Base, HoldsHit
    <2> QED BY <2>1 DEF OneStop, Standing
  <1> QED BY <1>1, <1>2, <1>3, BaseInit, BaseNext, PTL DEF Spec
-----------------------------------------------------------------------------
(* A hit is handled once, and none is lost                                 *)

\* LoggedOnce holds because the stop reply of a hit is in one place at a time: on
\* the wire, put aside, held by the watcher that is about to capture it, or in
\* the log.  Late replies have number 0, and do not count.
Numbers(s) == {s[i].n : i \in DOMAIN s} \ {0}
OnceIn(s) == \A i \in DOMAIN s : \A j \in DOMAIN s :
               s[i].n # 0 /\ s[i].n = s[j].n => i = j
Handled == {w \in Watcher : wp[w] \in {"match", "capture"}}
Held == {hit[w].n : w \in Handled} \ {0}
Captured == {log[i] : i \in DOMAIN log} \ {0}

OnePlace ==
  /\ OnceIn(wire) /\ OnceIn(aside) /\ LoggedOnce
  /\ Numbers(wire) \cap Numbers(aside) = {}
  /\ Held \cap (Numbers(wire) \cup Numbers(aside)) = {}
  /\ Captured \cap (Numbers(wire) \cup Numbers(aside) \cup Held) = {}
  /\ Numbers(wire) \cup Numbers(aside) \cup Held \cup Captured \subseteq 1..hits

\* The stop of every hit there has been is unread, put aside, being handled or
\* captured, or its watcher has ended without having resumed the CPU: whatever
\* stalls, is refused or surfaced, and however many watchers there are.
NoHitIsLost ==
  1..hits \subseteq Numbers(wire) \cup Numbers(aside) \cup Held \cup Captured \cup left
\* A hit that holds the game is never forgotten: its stop is unread, put aside or
\* in a watcher's hand, captured or not yet, or its watcher has ended.
InHand == {hit[w].n : w \in Watcher}
HaltIsKnown == cpu # 0 => cpu \in Numbers(wire) \cup Numbers(aside) \cup InHand \cup left

HitOnce == OnePlace /\ NoHitIsLost /\ HaltIsKnown

\* A stop reply that is appended, to the wire or to what is put aside.
LEMMA NumbersAppend ==
  ASSUME NEW s \in Seq(Hits), NEW h \in Hits
  PROVE  /\ Numbers(Append(s, h)) = Numbers(s) \cup ({h.n} \ {0})
         /\ OnceIn(s) /\ h.n \notin Numbers(s) => OnceIn(Append(s, h))
  <1> DEFINE t == Append(s, h)
  <1>1. /\ Len(s) \in Nat /\ DOMAIN s = 1..Len(s) /\ DOMAIN t = 1..(Len(s) + 1)
        /\ t[Len(s) + 1] = h /\ \A i \in DOMAIN s : t[i] = s[i]
    BY AppendProperties, LenProperties
  <1> HIDE DEF t
  <1>2. \A i \in DOMAIN t : i \in DOMAIN s \/ i = Len(s) + 1
    BY <1>1
  <1>3. Len(s) + 1 \in DOMAIN t /\ DOMAIN s \subseteq DOMAIN t
    BY <1>1
  <1>4. Numbers(t) = Numbers(s) \cup ({h.n} \ {0})
    BY <1>1, <1>2, <1>3 DEF Numbers
  <1>5. ASSUME OnceIn(s), h.n \notin Numbers(s) PROVE OnceIn(t)
    BY <1>1, <1>2, <1>3, <1>5 DEF OnceIn, Numbers
  <1> QED BY <1>4, <1>5 DEF t

\* The stop reply that is read first.
LEMMA NumbersTail ==
  ASSUME NEW s \in Seq(Hits), s # <<>>
  PROVE  /\ Head(s) \in Hits /\ Tail(s) \in Seq(Hits)
         /\ Numbers(s) = Numbers(Tail(s)) \cup ({Head(s).n} \ {0})
         /\ OnceIn(s) => OnceIn(Tail(s)) /\ Head(s).n \notin Numbers(Tail(s))
  <1> DEFINE t == Tail(s)
  <1>1. Head(s) \in Hits /\ t \in Seq(Hits)
    BY HeadTailProperties
  <1>2. Len(s) \in Nat /\ Len(s) > 0 /\ DOMAIN s = 1..Len(s) /\ Head(s) = s[1]
    BY EmptySeq, LenProperties
  <1>3. DOMAIN t = 1..(Len(s) - 1) /\ \A i \in DOMAIN t : t[i] = s[i + 1]
    BY <1>2
  <1> HIDE DEF t
  <1>4. \A i \in DOMAIN t : i + 1 \in DOMAIN s /\ i + 1 # 1 /\ i \in Nat
    BY <1>2, <1>3
  <1>5. \A i \in DOMAIN s : i = 1 \/ (i - 1 \in DOMAIN t /\ t[i - 1] = s[i])
    BY <1>2, <1>3
  <1>6. Numbers(s) = Numbers(t) \cup ({Head(s).n} \ {0})
    <2>1. 1 \in DOMAIN s
      BY <1>2
    <2>2. ASSUME NEW n \in Numbers(s) PROVE n \in Numbers(t) \cup ({Head(s).n} \ {0})
      <3>1. PICK i \in DOMAIN s : s[i].n = n
        BY DEF Numbers
      <3>2. CASE i = 1
        BY <1>2, <3>1, <3>2 DEF Numbers
      <3>3. CASE i # 1
        <4>1. i - 1 \in DOMAIN t /\ t[i - 1] = s[i]
          BY <1>5, <3>3
        <4> QED BY <3>1, <4>1 DEF Numbers
      <3> QED BY <3>2, <3>3
    <2>3. Numbers(t) \subseteq Numbers(s) /\ {Head(s).n} \ {0} \subseteq Numbers(s)
      BY <1>2, <1>3, <1>4, <2>1 DEF Numbers
    <2> QED BY <2>2, <2>3
  <1>7. ASSUME OnceIn(s) PROVE OnceIn(t) /\ Head(s).n \notin Numbers(t)
    <2>1. 1 \in DOMAIN s
      BY <1>2
    <2>2. ASSUME NEW i \in DOMAIN t, t[i].n # 0 PROVE Head(s).n # t[i].n
      BY <1>2, <1>3, <1>4, <1>7, <2>1, <2>2 DEF OnceIn
    <2>3. ASSUME NEW i \in DOMAIN t, NEW j \in DOMAIN t, t[i].n # 0, t[i].n = t[j].n
          PROVE  i = j
      <3>1. i + 1 = j + 1
        BY <1>3, <1>4, <1>7, <2>3 DEF OnceIn
      <3> QED BY <1>4, <3>1
    <2> QED BY <2>2, <2>3 DEF OnceIn, Numbers
  <1> QED BY <1>1, <1>6, <1>7 DEF t

\* One watcher at most handles a stop, for it has gdb_lock.
HeldIsHandled ==
  \A w \in Watcher : lock = w =>
    Held = IF wp[w] \in {"match", "capture"} THEN {hit[w].n} \ {0} ELSE {}

LEMMA HeldByOne == Base => HeldIsHandled
  BY DEF Base, LockIsReturned, Locked, Held, Handled, HeldIsHandled

\* What leaves the stop replies, the log and the stops being handled alone.
LEMMA SameHits ==
  ASSUME HitOnce, UNCHANGED <<wire, aside, log, hits>>, Held' = Held, left \subseteq left',
         cpu' = 0 \/ (cpu' = cpu /\ InHand \subseteq InHand' \cup left')
  PROVE  HitOnce'
  <1>1. Numbers(wire)' = Numbers(wire) /\ Numbers(aside)' = Numbers(aside) /\ Captured' = Captured
    BY DEF Numbers, Captured
  <1>2. OnceIn(wire)' /\ OnceIn(aside)' /\ LoggedOnce'
    BY DEF HitOnce, OnePlace, OnceIn, LoggedOnce
  <1>3. OnePlace' /\ NoHitIsLost'
    BY <1>1, <1>2 DEF HitOnce, OnePlace, NoHitIsLost
  <1>4. HaltIsKnown'
    BY <1>1 DEF HitOnce, HaltIsKnown
  <1> QED BY <1>3, <1>4 DEF HitOnce

\* A watcher that reads a stop reply holds it from then on.
LEMMA TakeHitOnce ==
  ASSUME Base, Base', HitOnce, NEW w \in Watcher, TakeStop(w)
  PROVE  HitOnce'
  <1>1. lock = w /\ lock' = w /\ wp[w] = "wait" /\ wp'[w] = "match"
    BY DEF Base, TypeOK, LockIsReturned, Locked, TakeStop, Goto
  <1>2. Held = {} /\ Held' = {hit'[w].n} \ {0}
    <2>1. HeldIsHandled /\ HeldIsHandled'
      BY HeldByOne, PTL
    <2>2. Held = {}
      BY <1>1, <2>1 DEF HeldIsHandled
    <2>3. Held' = {hit'[w].n} \ {0}
      BY <1>1, <2>1 DEF HeldIsHandled
    <2> QED BY <2>2, <2>3
  <1>3. UNCHANGED <<log, hits, left>> /\ hit' \in [Watcher -> Hits \cup {NoHit}]
    BY DEF TakeStop, Base, TypeOK
  <1>4. Captured' = Captured /\ LoggedOnce'
    BY <1>3 DEF Captured, LoggedOnce, HitOnce, OnePlace
  <1>5. ASSUME Numbers(wire) \cup Numbers(aside) \subseteq
                 Numbers(wire)' \cup Numbers(aside)' \cup Held'
        PROVE  HaltIsKnown'
    <2>1. cpu' = cpu /\ left' = left /\ hit[w] = NoHit
      BY <1>1 DEF TakeStop, Base, HoldsHit
    <2>2. \A v \in Watcher \ {w} : hit'[v] = hit[v]
      BY DEF TakeStop, Base, TypeOK
    <2>3. \A v \in Watcher : hit[v].n \in InHand' \cup {0}
      <3> SUFFICES ASSUME NEW v \in Watcher PROVE hit[v].n \in InHand' \cup {0}
        OBVIOUS
      <3>1. CASE v = w
        <4>1. NoHit.n = 0
          BY DEF NoHit
        <4>2. hit[v] = NoHit
          BY <2>1, <3>1
        <4> QED BY <4>1, <4>2
      <3>2. CASE v # w
        <4>1. hit'[v].n \in InHand'
          BY DEF InHand
        <4>2. hit'[v].n = hit[v].n
          BY <2>2, <3>2
        <4> QED BY <4>1, <4>2
      <3> QED BY <3>1, <3>2
    <2>4. InHand \subseteq InHand' \cup {0}
      BY <2>3 DEF InHand
    <2>5. Held' \subseteq InHand'
      BY <1>2 DEF InHand
    <2> QED BY <1>5, <2>1, <2>4, <2>5 DEF HaltIsKnown, HitOnce
  <1>6. CASE aside # <<>>
    <2>1. aside' = Tail(aside) /\ wire' = wire /\ hit'[w] = Head(aside)
      BY <1>6 DEF TakeStop, Base, TypeOK
    <2>2. /\ Numbers(aside) = Numbers(aside)' \cup Held'
          /\ OnceIn(aside)' /\ Held' \cap Numbers(aside)' = {}
      <3>1. aside \in Seq(Hits)
        BY DEF Base, TypeOK
      <3>2. /\ Numbers(aside) = Numbers(Tail(aside)) \cup ({Head(aside).n} \ {0})
            /\ OnceIn(Tail(aside)) /\ Head(aside).n \notin Numbers(Tail(aside))
        BY <1>6, <3>1, NumbersTail DEF HitOnce, OnePlace
      <3>3. Numbers(aside)' = Numbers(Tail(aside)) /\ OnceIn(aside)' = OnceIn(Tail(aside))
        BY <2>1 DEF Numbers, OnceIn
      <3> QED BY <1>2, <2>1, <3>2, <3>3
    <2>3. Numbers(wire)' = Numbers(wire) /\ OnceIn(wire)'
      BY <2>1 DEF Numbers, OnceIn, HitOnce, OnePlace
    <2>4. OnePlace' /\ NoHitIsLost'
      BY <1>2, <1>3, <1>4, <2>2, <2>3 DEF HitOnce, OnePlace, NoHitIsLost
    <2> QED BY <1>5, <2>2, <2>3, <2>4 DEF HitOnce
  <1>7. CASE aside = <<>>
    <2>1. wire # <<>> /\ wire' = Tail(wire) /\ aside' = aside /\ hit'[w] = Head(wire)
      BY <1>7 DEF TakeStop, Base, TypeOK
    <2>2. /\ Numbers(wire) = Numbers(wire)' \cup Held'
          /\ OnceIn(wire)' /\ Held' \cap Numbers(wire)' = {}
      <3>1. wire \in Seq(Hits)
        BY DEF Base, TypeOK
      <3>2. /\ Numbers(wire) = Numbers(Tail(wire)) \cup ({Head(wire).n} \ {0})
            /\ OnceIn(Tail(wire)) /\ Head(wire).n \notin Numbers(Tail(wire))
        BY <2>1, <3>1, NumbersTail DEF HitOnce, OnePlace
      <3>3. Numbers(wire)' = Numbers(Tail(wire)) /\ OnceIn(wire)' = OnceIn(Tail(wire))
        BY <2>1 DEF Numbers, OnceIn
      <3> QED BY <1>2, <2>1, <3>2, <3>3
    <2>3. Numbers(aside)' = Numbers(aside) /\ OnceIn(aside)'
      BY <2>1 DEF Numbers, OnceIn, HitOnce, OnePlace
    <2>4. OnePlace' /\ NoHitIsLost'
      BY <1>2, <1>3, <1>4, <2>2, <2>3 DEF HitOnce, OnePlace, NoHitIsLost
    <2> QED BY <1>5, <2>2, <2>3, <2>4 DEF HitOnce
  <1> QED BY <1>6, <1>7

\* A watcher that does not want the stop puts it back, and lets go of it.
LEMMA SurfaceHitOnce ==
  ASSUME Base, Base', HitOnce, NEW w \in Watcher, Surface(w)
  PROVE  HitOnce'
  <1>1. lock = w /\ wp[w] = "match" /\ hit[w] \in Hits
    BY DEF Base, HoldsHit, LockIsReturned, Locked, Surface
  <1>2. Held = {hit[w].n} \ {0} /\ Held' = {}
    <2>1. Handled' = {}
      BY NamesAssumption DEF Base, LockIsReturned, Locked, Surface, Leave, Handled
    <2> QED BY <1>1, <2>1, HeldByOne DEF Held, HeldIsHandled
  <1>3. /\ aside' = Append(aside, hit[w]) /\ aside \in Seq(Hits)
        /\ UNCHANGED <<wire, log, hits, left>>
    BY DEF Surface, stubVars, Base, TypeOK
  <1>4. /\ Numbers(Append(aside, hit[w])) = Numbers(aside) \cup Held
        /\ OnceIn(Append(aside, hit[w]))
    <2>1. hit[w].n \notin Numbers(aside)
      BY <1>2 DEF HitOnce, OnePlace, Numbers
    <2> QED BY <1>1, <1>2, <1>3, <2>1, NumbersAppend DEF HitOnce, OnePlace
  <1>5. Numbers(aside)' = Numbers(aside) \cup Held /\ OnceIn(aside)'
    BY <1>3, <1>4 DEF Numbers, OnceIn
  <1>6. /\ Captured' = Captured /\ LoggedOnce'
        /\ Numbers(wire)' = Numbers(wire) /\ OnceIn(wire)'
    BY <1>3 DEF Captured, LoggedOnce, Numbers, OnceIn, HitOnce, OnePlace
  <1>7. OnePlace' /\ NoHitIsLost'
    BY <1>2, <1>3, <1>5, <1>6 DEF HitOnce, OnePlace, NoHitIsLost
  <1>8. HaltIsKnown'
    <2>1. cpu' = cpu /\ left' = left
      BY DEF Surface, stubVars
    <2>2. \A v \in Watcher \ {w} : hit'[v] = hit[v]
      BY DEF Surface, Leave, Base, TypeOK
    <2>3. InHand \subseteq InHand' \cup {hit[w].n}
      BY <2>2 DEF InHand
    <2> QED BY <1>2, <1>5, <1>6, <2>1, <2>3 DEF HaltIsKnown, HitOnce
  <1> QED BY <1>7, <1>8 DEF HitOnce

\* A watcher that has captured its stop resumes the CPU next, and nothing else.
LEMMA CaptureHitOnce ==
  ASSUME Base, Base', HitOnce, NEW w \in Watcher, Capture(w)
  PROVE  HitOnce'
  <1>1. lock = w /\ wp[w] = "capture" /\ hit[w] \in Hits /\ lock' = w /\ wp'[w] = "resume"
    BY DEF Base, TypeOK, HoldsHit, LockIsReturned, Locked, Capture, Goto
  <1>2. Held = {hit[w].n} \ {0} /\ Held' = {}
    <2>1. Handled' = {}
      BY <1>1 DEF Base, LockIsReturned, Locked, Handled
    <2> QED BY <1>1, <2>1, HeldByOne DEF Held, HeldIsHandled
  <1>3. /\ log' = Append(log, hit[w].n) /\ log \in Seq(0..MaxHits) /\ hit[w].n \in 0..MaxHits
        /\ UNCHANGED <<wire, aside, hits, left>>
    BY <1>1, HitNumber DEF Capture, Base, TypeOK
  <1>4. /\ Len(log) \in Nat /\ DOMAIN log = 1..Len(log) /\ DOMAIN log' = 1..(Len(log) + 1)
        /\ log'[Len(log) + 1] = hit[w].n /\ \A i \in DOMAIN log : log'[i] = log[i]
    BY <1>3, AppendProperties, LenProperties
  <1>5. \A i \in DOMAIN log' : i \in DOMAIN log \/ i = Len(log) + 1
    BY <1>4
  <1>6. Len(log) + 1 \in DOMAIN log' /\ DOMAIN log \subseteq DOMAIN log'
    BY <1>4
  <1>7. Captured' = Captured \cup Held
    BY <1>2, <1>4, <1>5, <1>6 DEF Captured
  <1>8. LoggedOnce'
    <2>1. \A i \in DOMAIN log : log[i] # 0 => log[i] # hit[w].n
      BY <1>2 DEF HitOnce, OnePlace, Captured
    <2> QED BY <1>4, <1>5, <2>1 DEF LoggedOnce, HitOnce, OnePlace
  <1>9. /\ Numbers(wire)' = Numbers(wire) /\ OnceIn(wire)'
        /\ Numbers(aside)' = Numbers(aside) /\ OnceIn(aside)'
    BY <1>3 DEF Numbers, OnceIn, HitOnce, OnePlace
  <1>10. OnePlace' /\ NoHitIsLost'
    BY <1>2, <1>3, <1>7, <1>8, <1>9 DEF HitOnce, OnePlace, NoHitIsLost
  <1>11. HaltIsKnown'
    BY <1>9 DEF HaltIsKnown, HitOnce, InHand, Capture
  <1> QED BY <1>10, <1>11 DEF HitOnce

\* The other steps of a watcher: one that dies in its capture leaves its hit.
LEMMA WatcherHitOnce ==
  ASSUME Base, Base', HitOnce, NEW w \in Watcher, WatcherNext(w)
  PROVE  HitOnce'
  <1>1. CASE Top(w) \/ Acquire(w) \/ NoStop(w) \/ Match(w) \/ Resume(w)
    <2>1. /\ UNCHANGED <<wire, aside, log, hits>> /\ left \subseteq left'
          /\ \A v \in Watcher \ {w} : wp'[v] = wp[v] /\ hit'[v] = hit[v]
      BY <1>1 DEF Top, Acquire, NoStop, Match, Resume, Leave, Goto, Unanswered, Base, TypeOK,
                  stubVars, sessionVars
    <2>2. Held' = Held
      <3>1. \/ w \notin Handled /\ w \notin Handled'
            \/ w \in Handled /\ w \in Handled' /\ hit'[w] = hit[w]
        BY <1>1 DEF Top, Acquire, NoStop, Match, Resume, Leave, Goto, Base, TypeOK, Handled
      <3>2. Handled' = Handled /\ \A v \in Handled : hit'[v] = hit[v]
        BY <2>1, <3>1 DEF Handled
      <3> QED BY <3>2 DEF Held
    <2>3. cpu' = 0 \/ (cpu' = cpu /\ InHand \subseteq InHand' \cup left')
      <3>1. cpu' = 0 \/ (cpu' = cpu /\ (hit'[w] = hit[w] \/ hit[w].n \in left'))
        <4>1. CASE Resume(w)
          BY <4>1 DEF Resume, Unanswered
        <4>2. CASE NoStop(w)
          BY <4>2 DEF NoStop, Leave, Base, HoldsHit, TypeOK, stubVars
        <4> QED BY <1>1, <4>1, <4>2 DEF Top, Acquire, Match, stubVars
      <3> QED BY <2>1, <3>1 DEF InHand
    <2> QED BY <2>1, <2>2, <2>3, SameHits
  <1>2. CASE CaptureDies(w)
    <2>1. /\ UNCHANGED <<wire, aside, log, hits>> /\ left' = left \cup {hit[w].n}
          /\ wp[w] = "capture" /\ lock = w /\ lock' = "free"
      BY <1>2 DEF CaptureDies, Leave, Base, LockIsReturned, Locked, stubVars, sessionVars
    <2>2. Held = {hit[w].n} \ {0} /\ Held' = {}
      <3>1. Handled' = {}
        BY <2>1, NamesAssumption DEF Base, LockIsReturned, Locked, Handled
      <3> QED BY <2>1, <3>1, HeldByOne DEF Held, HeldIsHandled
    <2>3. Numbers(wire)' = Numbers(wire) /\ Numbers(aside)' = Numbers(aside) /\ Captured' = Captured
      BY <2>1 DEF Numbers, Captured
    <2>4. OnceIn(wire)' /\ OnceIn(aside)' /\ LoggedOnce'
      BY <2>1 DEF HitOnce, OnePlace, OnceIn, LoggedOnce
    <2>5. OnePlace' /\ NoHitIsLost'
      BY <2>1, <2>2, <2>3, <2>4 DEF HitOnce, OnePlace, NoHitIsLost
    <2>6. HaltIsKnown'
      <3>1. cpu' = cpu /\ \A v \in Watcher \ {w} : hit'[v] = hit[v]
        BY <1>2 DEF CaptureDies, Leave, Base, TypeOK, stubVars
      <3>2. InHand \subseteq InHand' \cup {hit[w].n}
        BY <3>1 DEF InHand
      <3> QED BY <2>1, <2>3, <3>1, <3>2 DEF HaltIsKnown, HitOnce
    <2> QED BY <2>5, <2>6 DEF HitOnce
  <1> QED BY <1>1, <1>2, TakeHitOnce, SurfaceHitOnce, CaptureHitOnce DEF WatcherNext

\* The tools handle no stops.
LEMMA ToolHitOnce ==
  ASSUME Base, HitOnce, ToolNext \/ Calls
  PROVE  HitOnce'
  <1>1. UNCHANGED <<wire, aside, log, hits, hit, left>>
    BY DEF ToolNext, Calls, CaptureOnHit, CaptureResume, StartWatcher, StopCapturing,
           SignalWatcher, JoinWatcher, stubVars, sessionVars
  <1>2. Handled' = Handled
    <2>1. CASE StartWatcher
      BY <2>1 DEF StartWatcher, Goto, Live, Handled, Base, TypeOK
    <2> QED BY <2>1 DEF ToolNext, Calls, CaptureOnHit, CaptureResume, StopCapturing,
                        SignalWatcher, JoinWatcher, Handled
  <1>3. cpu' \in {0, cpu} /\ InHand' = InHand /\ Held' = Held
    <2>1. CASE CaptureResume
      BY <1>1, <1>2, <2>1 DEF CaptureResume, InHand, Held, Base, TypeOK
    <2> QED BY <1>1, <1>2, <2>1 DEF ToolNext, Calls, CaptureOnHit, StartWatcher, StopCapturing,
               SignalWatcher, JoinWatcher, stubVars, InHand, Held
  <1> QED BY <1>1, <1>3, SameHits

\* Dolphin: a hit has a number of its own, and a late reply is no hit's.
LEMMA DolphinHitOnce ==
  ASSUME Base, HitOnce, Dolphin
  PROVE  HitOnce'
  <1>1. UNCHANGED <<aside, log, wp, hit, left>>
    BY DEF Dolphin, HitBp, Stall, Thaw, Exit, sessionVars, threadVars
  <1>2. /\ Held' = Held /\ Captured' = Captured /\ LoggedOnce'
        /\ Numbers(aside)' = Numbers(aside) /\ OnceIn(aside)'
    BY <1>1 DEF Held, Handled, Captured, LoggedOnce, Numbers, OnceIn, HitOnce, OnePlace
  <1>3. InHand' = InHand
    BY <1>1 DEF InHand
  <1>4. wire \in Seq(Hits) /\ hits \in Nat
    BY BoundsAssumption DEF Base, TypeOK
  <1>5. ASSUME NEW b \in Bp, HitBp(b) PROVE HitOnce'
    <2> DEFINE h == [n |-> hits + 1, bp |-> b]
    <2>1. /\ wire' = Append(wire, h) /\ hits' = hits + 1 /\ h \in Hits /\ h.n = hits + 1
      BY <1>4, <1>5, BoundsAssumption DEF HitBp, Hits
    <2> HIDE DEF h
    <2>2. /\ Numbers(wire) \cup Numbers(aside) \cup Held \cup Captured \subseteq 1..hits
          /\ hits + 1 \notin 1..hits /\ 1..(hits + 1) = 1..hits \cup {hits + 1}
      BY <1>4 DEF HitOnce, OnePlace
    <2>3. Numbers(Append(wire, h)) = Numbers(wire) \cup {hits + 1} /\ OnceIn(Append(wire, h))
      BY <1>4, <2>1, <2>2, NumbersAppend DEF HitOnce, OnePlace
    <2>4. Numbers(wire)' = Numbers(wire) \cup {hits + 1} /\ OnceIn(wire)'
      BY <2>1, <2>3 DEF Numbers, OnceIn
    <2>5. OnePlace' /\ NoHitIsLost'
      BY <1>1, <1>2, <2>1, <2>2, <2>4 DEF HitOnce, OnePlace, NoHitIsLost
    <2>6. HaltIsKnown'
      BY <1>5, <2>1, <2>4 DEF HaltIsKnown, HitBp
    <2> QED BY <2>5, <2>6 DEF HitOnce
  <1>6. CASE Stall \/ Exit
    BY <1>1, <1>2, <1>6, <1>3, SameHits DEF Stall, Exit
  <1>7. CASE Thaw
    <2>1. hits' = hits /\ (wire' = wire \/ wire' = Append(wire, Late)) /\ cpu' \in {0, cpu}
      BY <1>7 DEF Thaw
    <2>2. CASE wire' = wire
      BY <1>1, <1>2, <1>3, <2>1, <2>2, SameHits
    <2>3. CASE wire' = Append(wire, Late)
      <3>1. Late.n = 0 /\ Late.n \notin Numbers(wire) /\ Late \in Hits
        BY HitNumber DEF Late, Numbers
      <3>2. OnceIn(wire) /\ Numbers(wire) \cup ({Late.n} \ {0}) = Numbers(wire)
        BY <3>1 DEF HitOnce, OnePlace
      <3>3. Numbers(Append(wire, Late)) = Numbers(wire) /\ OnceIn(Append(wire, Late))
        BY <1>4, <3>1, <3>2, NumbersAppend
      <3>4. Numbers(wire)' = Numbers(wire) /\ OnceIn(wire)'
        BY <2>3, <3>3 DEF Numbers, OnceIn
      <3>5. OnePlace' /\ NoHitIsLost'
        BY <1>1, <1>2, <2>1, <3>4 DEF HitOnce, OnePlace, NoHitIsLost
      <3>6. HaltIsKnown'
        BY <1>1, <1>2, <1>3, <2>1, <3>4 DEF HaltIsKnown, HitOnce
      <3> QED BY <3>5, <3>6 DEF HitOnce
    <2> QED BY <2>1, <2>2, <2>3
  <1> QED BY <1>5, <1>6, <1>7 DEF Dolphin

\* Every step keeps a hit in its one place.
LEMMA HitOnceAlways == Spec => []HitOnce
  <1>1. Init => HitOnce
    BY DEF Init, HitOnce, OnePlace, NoHitIsLost, HaltIsKnown, OnceIn, Numbers, Captured, Held, Handled,
           LoggedOnce
  <1>2. Base /\ Base' /\ HitOnce /\ [Next]_vars => HitOnce'
    <2> SUFFICES ASSUME Base, Base', HitOnce, [Next]_vars PROVE HitOnce'
      OBVIOUS
    <2>1. CASE UNCHANGED vars
      <3>1. /\ UNCHANGED <<wire, aside, log, hits, left, cpu>>
            /\ Held' = Held /\ InHand' = InHand
        BY <2>1 DEF vars, stubVars, sessionVars, threadVars, Held, Handled, InHand
      <3> QED BY <3>1, SameHits
    <2>2. CASE \E w \in Watcher : WatcherNext(w)
      BY <2>2, WatcherHitOnce
    <2>3. CASE ToolNext \/ Calls
      BY <2>3, ToolHitOnce
    <2>4. CASE Dolphin
      BY <2>4, DolphinHitOnce
    <2> QED BY <2>1, <2>2, <2>3, <2>4 DEF Next
  <1> QED BY <1>1, <1>2, BaseInit, BaseNext, PTL DEF Spec

\* No hit is captured twice, by however many watchers, however often the stub
\* stalls or refuses, and whichever stops are surfaced and taken up again.
THEOREM CapturesOnce == Spec => []LoggedOnce
  BY HitOnceAlways, PTL DEF HitOnce, OnePlace

\* No hit is lost: until it is captured its stop waits to be read or is being
\* handled, unless the watcher that had it has ended; and the hit that holds the
\* game has not been let go of.  (What HaltEnds says of where this leads is left
\* to TLC.)
THEOREM EveryHitIsKept == Spec => [](NoHitIsLost /\ HaltIsKnown)
  BY HitOnceAlways, PTL DEF HitOnce
===============================================================================
