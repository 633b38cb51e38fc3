------------------------------ MODULE StopStream ------------------------------
(***************************************************************************)
(* What the callers of GDBStub (gdb/client.py) rely on: the stop replies   *)
(* of the target form one FIFO stream.  Commands (registers, memory,       *)
(* breakpoints, qC) neither take from the stream nor reorder it; only      *)
(* wait_for_stop, step and drain_stop_replies take from its front, and     *)
(* `c' and `s' are executed after every interrupt byte sent before them.   *)
(* GdbClient refines this module; DebugSession is written on top of it.    *)
(***************************************************************************)
EXTENDS Integers, Sequences

CONSTANT Bp                    \* the breakpoints and watchpoints that can be hit

\* why a stop reply was sent: a hit, the answer to 0x03, the end of a step
Cause == Bp \cup {"int", "step"}

ASSUME BpAssumption == Bp \cap {"int", "step", "none"} = {}

VARIABLES cpu,      \* "halted" or "running"
          intr,     \* interrupt bytes sent and not yet seen by the stub
          stops     \* stop replies sent by the stub and not yet taken

streamVars == <<cpu, intr, stops>>

StreamTypeOK == /\ cpu \in {"halted", "running"}
                /\ intr \in Nat
                /\ stops \in Seq(Cause)

StreamInit == cpu = "halted" /\ intr = 0 /\ stops = <<>>

\* GDBStub.interrupt
Interrupt == intr' = intr + 1 /\ UNCHANGED <<cpu, stops>>

\* the stub sees a 0x03: it halts and answers, even when it was halted already
ServeInterrupt == /\ intr > 0
                  /\ intr' = intr - 1
                  /\ cpu' = "halted"
                  /\ stops' = Append(stops, "int")

\* "Dolphin's stub occasionally drops the first 0x03" (execution_tools.pause)
DropInterrupt == intr > 0 /\ intr' = intr - 1 /\ UNCHANGED <<cpu, stops>>

\* the running CPU reaches breakpoint or watchpoint b
Hit(b) == /\ cpu = "running"
          /\ cpu' = "halted"
          /\ stops' = Append(stops, b)
          /\ UNCHANGED intr

\* `c': the stub reads its input in order, so no interrupt is still ahead of it
Continue == intr = 0 /\ cpu' = "running" /\ UNCHANGED <<intr, stops>>

\* `s': one instruction, then a stop reply
StepInsn == /\ intr = 0
            /\ cpu' = "halted"
            /\ stops' = Append(stops, "step")
            /\ UNCHANGED intr

\* the n oldest stops are taken: one by wait_for_stop and step, any number by a drain
Take(n) == /\ n \in 1..Len(stops)
           /\ stops' = SubSeq(stops, n + 1, Len(stops))
           /\ UNCHANGED <<cpu, intr>>

\* the connection ends, or a new target is launched: unread bytes are gone,
\* what the client had buffered stays
Down == /\ intr' = 0
        /\ cpu' \in {"halted", "running"}
        /\ \E n \in 0..Len(stops) : stops' = SubSeq(stops, 1, n)

StreamNext == \/ Interrupt \/ ServeInterrupt \/ DropInterrupt
              \/ \E b \in Bp : Hit(b)
              \/ Continue \/ StepInsn
              \/ \E n \in 1..Len(stops) : Take(n)
              \/ Down

StreamSpec == StreamInit /\ [][StreamNext]_streamVars

=============================================================================
