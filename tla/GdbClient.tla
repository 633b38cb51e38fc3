------------------------------ MODULE GdbClient ------------------------------
(***************************************************************************)
(* GDBStub, the RSP client of gdb/client.py, against Dolphin's GDB stub.   *)
(*                                                                         *)
(* The byte stream is modelled at the granularity the client parses it:    *)
(* a `+' or `-' and whole `$...#xx' packets.  rx is what the stub has sent *)
(* and the client has not consumed (the socket's buffer and _recv_buf, in  *)
(* that order of reading, are one sequence); tx is what the client has     *)
(* sent and the stub has not served.  A call of the client is a sequence   *)
(* of steps (send, ack, reply or stop), each of which reads one token,     *)
(* times out, or finds the peer gone.                                      *)
(*                                                                         *)
(* The stub is external code, modelled from how client.py, session.py and  *)
(* the tools use it: Dolphin's CPU thread both raises hits and serves      *)
(* packets, so the ack of a command and its reply are contiguous; while    *)
(* that thread is stalled (UI-pause) nothing is served; the listener       *)
(* accepts one connection per launch.                                      *)
(*                                                                         *)
(* Operators commented "Mutant" are faulty variants of the definition that *)
(* follows them; no specification uses them.                               *)
(***************************************************************************)
EXTENDS Integers, Sequences

CONSTANTS Bp,         \* breakpoints and watchpoints that can be hit
          Tags,       \* bound: requests are told apart modulo Tags
          MaxQueue,   \* bound: a call sends only when fewer tokens are in flight
          MayRefuse,  \* can the stub answer `-' or overlook an interrupt byte?
          MayStall,   \* can the stub stop serving for longer than a read timeout?
          MayVanish   \* can Dolphin exit and be launched again?

ASSUME BpAssumption == Bp \cap {"int", "step", "none"} = {}
ASSUME TagsAssumption == Tags \in Nat \ {0}
ASSUME MaxQueueAssumption == MaxQueue \in Nat
ASSUME FlagsAssumption == {MayRefuse, MayStall, MayVanish} \subseteq BOOLEAN

VARIABLES
  \* the client
  link,       \* self.sock: "none", "up", or "eof" (open, but the peer is gone)
  rx,         \* unconsumed input
  pending,    \* self._pending_replies
  op,         \* the method running, or run last
  stage,      \* how far it is: idle, ack, reply, stop, drain
  tag,        \* identifies the request it sent
  ret,        \* what the last method returned or raised
  \* the stub
  tx,         \* requests not yet served
  cpu,        \* "halted" or "running"
  stalled,    \* the serving thread is frozen
  listener    \* a launched Dolphin waits for its one connection

clientVars == <<op, stage, tag, ret>>
vars == <<link, rx, pending, op, stage, tag, ret, tx, cpu, stalled, listener>>

-----------------------------------------------------------------------------
(* Tokens of the stream                                                    *)

Cause == Bp \cup {"int", "step"}
TagSet == 0..(Tags - 1)

Ack == [t |-> "ack", tag |-> 0, why |-> "none"]
Nak == [t |-> "nak", tag |-> 0, why |-> "none"]
Reply(n) == [t |-> "reply", tag |-> n, why |-> "none"]
Stop(w) == [t |-> "stop", tag |-> 0, why |-> w]

Packet == {Reply(n) : n \in TagSet} \cup {Stop(w) : w \in Cause}
Token == Packet \cup {Ack, Nak}

IsPacket(k) == k.t \in {"reply", "stop"}
IsStop(k) == k.t = "stop"

Queries == {"cmd", "probe", "detach"}       \* answered by a reply
Senders == Queries \cup {"continue", "step"} \* go through _send_packet
Ops == Senders \cup {"none", "connect", "close", "interrupt", "wait", "drain",
                     "drain_pending"}
Stages == {"idle", "ack", "reply", "stop", "drain"}
Outcomes == {"ok", "value", "false", "timeout", "lost", "error", "protocol"}
Request == [op : Senders \cup {"interrupt"}, tag : TagSet]
Result == [op : Ops, tag : TagSet, pkt : Packet \cup {Ack}, out : Outcomes]

\* the first `$' of the stream: _read_packet_from_wire skips what precedes it
HasPacket(s) == \E i \in 1..Len(s) : IsPacket(s[i])
FirstPacket(s) == CHOOSE i \in 1..Len(s) :
                    IsPacket(s[i]) /\ \A j \in 1..(i - 1) : ~IsPacket(s[j])
After(s, i) == SubSeq(s, i + 1, Len(s))

InFlight == Len(tx) + Len(rx) + Len(pending)
Room == InFlight < MaxQueue

-----------------------------------------------------------------------------
Init == /\ link = "none" /\ rx = <<>> /\ pending = <<>> /\ tx = <<>>
        /\ op = "none" /\ stage = "idle" /\ tag = 0
        /\ ret = [op |-> "none", tag |-> 0, pkt |-> Ack, out |-> "ok"]
        /\ cpu = "halted" /\ stalled = FALSE /\ listener = TRUE

\* method o is over with outcome out and packet p
Return(o, out, p) == /\ op' = o /\ stage' = "idle" /\ tag' = tag
                     /\ ret' = [op |-> o, tag |-> tag, pkt |-> p, out |-> out]

\* close(): the socket and _recv_buf are dropped, _pending_replies is not
LinkDown == link' = "none" /\ rx' = <<>> /\ tx' = <<>>

stubVars == <<cpu, stalled, listener>>

\* An exception ends method o, `rest' being the input left unread.  A lost
\* connection closes the socket; detach catches everything and then closes;
\* probe_responsive and is_alive turn an exception into False.
Raise(o, out, rest) ==
  /\ IF out = "lost" \/ o = "detach"
       THEN LinkDown
       ELSE rx' = rest /\ UNCHANGED <<link, tx>>
  /\ Return(o, CASE o = "probe" -> "false"
                 [] o = "detach" -> "ok"
                 [] OTHER -> out, Ack)

-----------------------------------------------------------------------------
(* Client: connection life cycle                                           *)

Connect == /\ stage = "idle" /\ link = "none" /\ listener
           /\ link' = "up" /\ listener' = FALSE
           /\ rx' = <<>> /\ tx' = <<>>
           /\ Return("connect", "ok", Ack)
           /\ UNCHANGED <<pending, cpu, stalled>>

ConnectRefused == /\ stage = "idle" /\ link = "none" /\ ~listener
                  /\ Return("connect", "lost", Ack)
                  /\ UNCHANGED <<link, rx, tx, pending, stubVars>>

Close == /\ stage = "idle" /\ link # "none"
         /\ LinkDown
         /\ Return("close", "ok", Ack)
         /\ UNCHANGED <<pending, stubVars>>

-----------------------------------------------------------------------------
(* Client: sending                                                         *)

\* _send_packet on an open socket; a peer that is gone may still accept the bytes
Send(o) == /\ stage = "idle" /\ link # "none" /\ Room
           /\ op' = o /\ stage' = "ack"
           /\ tag' = (tag + 1) % Tags
           /\ tx' = IF link = "up" THEN Append(tx, [op |-> o, tag |-> tag']) ELSE tx
           /\ UNCHANGED <<link, rx, pending, ret, stubVars>>

\* _require_sock raises, or sendall fails
SendFails(o) == /\ stage = "idle" /\ link # "up"
                /\ Raise(o, "lost", rx)
                /\ UNCHANGED <<pending, stubVars>>

\* interrupt(): a bare 0x03, which the stub does not acknowledge
Interrupt == /\ stage = "idle" /\ link # "none" /\ Room
             /\ tx' = IF link = "up"
                        THEN Append(tx, [op |-> "interrupt", tag |-> 0]) ELSE tx
             /\ Return("interrupt", "ok", Ack)
             /\ UNCHANGED <<link, rx, pending, stubVars>>

InterruptFails == /\ stage = "idle" /\ link # "up"
                  /\ Raise("interrupt", "lost", rx)
                  /\ UNCHANGED <<pending, stubVars>>

-----------------------------------------------------------------------------
(* Client: _consume_ack                                                    *)

\* Mutant: the probe is content with the ack and leaves the reply unread
AckPlusProbe == /\ stage = "ack" /\ rx # <<>> /\ Head(rx) = Ack
                /\ rx' = Tail(rx)
                /\ IF op \in {"continue", "probe"}
                     THEN Return(op, "ok", Ack)
                     ELSE /\ stage' = IF op \in Queries THEN "reply" ELSE "stop"
                          /\ UNCHANGED <<op, tag, ret>>
                /\ UNCHANGED <<link, tx, pending, stubVars>>

\* `+': a query goes on to read its reply, a step to wait for its stop
AckPlus == /\ stage = "ack" /\ rx # <<>> /\ Head(rx) = Ack
           /\ rx' = Tail(rx)
           /\ IF op = "continue"
                THEN Return(op, "ok", Ack)
                ELSE /\ stage' = IF op \in Queries THEN "reply" ELSE "stop"
                     /\ UNCHANGED <<op, tag, ret>>
           /\ UNCHANGED <<link, tx, pending, stubVars>>

\* Mutant: whatever comes before the ack is buffered, a `-' included
AckOobAny == /\ stage = "ack" /\ rx # <<>> /\ Head(rx) # Ack
             /\ pending' = Append(pending, Head(rx))
             /\ rx' = Tail(rx)
             /\ UNCHANGED <<link, tx, clientVars, stubVars>>

\* `$': a whole out-of-band packet is moved to _pending_replies
AckOob == /\ stage = "ack" /\ rx # <<>> /\ IsPacket(Head(rx))
          /\ pending' = Append(pending, Head(rx))
          /\ rx' = Tail(rx)
          /\ UNCHANGED <<link, tx, clientVars, stubVars>>

\* Mutant: the `-' is left in the buffer
AckNakUnread == /\ stage = "ack" /\ rx # <<>> /\ Head(rx) = Nak
                /\ Raise(op, "protocol", rx)
                /\ UNCHANGED <<pending, stubVars>>

\* `-': GDBProtocolError, "retransmit unsupported"
AckNak == /\ stage = "ack" /\ rx # <<>> /\ Head(rx) = Nak
          /\ Raise(op, "protocol", Tail(rx))
          /\ UNCHANGED <<pending, stubVars>>

-----------------------------------------------------------------------------
(* Client: reading packets                                                 *)

\* Mutant: cmd() reads its reply with _read_packet, buffered packets first
ReadReplyBuffered ==
  /\ stage = "reply"
  /\ IF pending # <<>>
       THEN /\ Return(op, "value", Head(pending))
            /\ pending' = Tail(pending) /\ UNCHANGED <<link, rx, tx>>
       ELSE /\ HasPacket(rx)
            /\ rx' = After(rx, FirstPacket(rx))
            /\ Return(op, "value", rx[FirstPacket(rx)])
            /\ UNCHANGED <<link, tx, pending>>
  /\ UNCHANGED stubVars

\* cmd(): the reply comes from the wire, never from _pending_replies
ReadReply == /\ stage = "reply" /\ HasPacket(rx)
             /\ LET i == FirstPacket(rx) IN
                  /\ IF op = "detach"
                       THEN LinkDown
                       ELSE rx' = After(rx, i) /\ UNCHANGED <<link, tx>>
                  /\ Return(op, "value", rx[i])
             /\ UNCHANGED <<pending, stubVars>>

\* wait_for_stop
Wait == /\ stage = "idle"
        /\ op' = "wait" /\ stage' = "stop"
        /\ UNCHANGED <<link, rx, tx, pending, tag, ret, stubVars>>

\* _read_packet: buffered packets come first, even without a socket
TakePending == /\ stage = "stop" /\ pending # <<>>
               /\ pending' = Tail(pending)
               /\ Return(op, "value", Head(pending))
               /\ UNCHANGED <<link, rx, tx, stubVars>>

\* Mutant: the wire is read although a packet is buffered
TakeWireFirst == /\ stage = "stop" /\ HasPacket(rx)
                 /\ LET i == FirstPacket(rx) IN
                      rx' = After(rx, i) /\ Return(op, "value", rx[i])
                 /\ UNCHANGED <<link, tx, pending, stubVars>>

TakeWire == /\ stage = "stop" /\ pending = <<>> /\ HasPacket(rx)
            /\ LET i == FirstPacket(rx) IN
                 rx' = After(rx, i) /\ Return(op, "value", rx[i])
            /\ UNCHANGED <<link, tx, pending, stubVars>>

\* drain_stop_replies: the buffered packets, then the wire until a read times
\* out, the connection ends or the deadline passes
Drain == /\ stage = "idle"
         /\ op' = "drain" /\ stage' = "drain"
         /\ pending' = <<>>
         /\ UNCHANGED <<link, rx, tx, tag, ret, stubVars>>

DrainWire == /\ stage = "drain" /\ HasPacket(rx)
             /\ rx' = After(rx, FirstPacket(rx))
             /\ UNCHANGED <<link, tx, pending, clientVars, stubVars>>

DrainDone == /\ stage = "drain"
             /\ Return(op, "ok", Ack)
             /\ (link = "eof" /\ LinkDown) \/ UNCHANGED <<link, rx, tx>>
             /\ UNCHANGED <<pending, stubVars>>

DrainPending == /\ stage = "idle" /\ pending # <<>>
                /\ pending' = <<>>
                /\ Return("drain_pending", "ok", Ack)
                /\ UNCHANGED <<link, rx, tx, stubVars>>

\* nothing to read at this stage
Dry == \/ stage = "ack" /\ rx = <<>>
       \/ stage = "reply" /\ ~HasPacket(rx)
       \/ stage = "stop" /\ pending = <<>> /\ ~HasPacket(rx)

\* Mutant: a wait for a stop never times out
TimeoutNotStop == /\ link = "up" /\ Dry
                  /\ stage # "stop" /\ (stalled \/ tx = <<>>)
                  /\ Raise(op, "timeout", rx)
                  /\ UNCHANGED <<pending, stubVars>>

\* socket.timeout.  A stop may be long in coming; an ack or a reply is late
\* only when the stub is stalled or has nothing to serve.
Timeout == /\ link = "up" /\ Dry
           /\ stage = "stop" \/ stalled \/ tx = <<>>
           /\ Raise(op, "timeout", rx)
           /\ UNCHANGED <<pending, stubVars>>

\* recv returns b"", or there is no socket: ConnectionLost
Lost == /\ link # "up" /\ Dry
        /\ Raise(op, "lost", rx)
        /\ UNCHANGED <<pending, stubVars>>

\* recv fails instead: the OSError is passed on, and the socket stays open
LostOpen == /\ link = "eof" /\ Dry
            /\ Raise(op, "error", rx)
            /\ UNCHANGED <<pending, stubVars>>

\* the `+' for a packet that has been read cannot be sent: the packet is lost
AckLost == /\ link = "eof"
           /\ \/ stage = "ack" /\ rx # <<>> /\ IsPacket(Head(rx))
              \/ stage = "reply" /\ HasPacket(rx)
              \/ stage = "stop" /\ pending = <<>> /\ HasPacket(rx)
           /\ Raise(op, "lost", rx)
           /\ UNCHANGED <<pending, stubVars>>

-----------------------------------------------------------------------------
(* The stub (external)                                                     *)

\* what serving request r sends back
Answer(r) == CASE r.op \in Queries    -> <<Ack, Reply(r.tag)>>
               [] r.op = "continue"   -> <<Ack>>
               [] r.op = "step"       -> <<Ack, Stop("step")>>
               [] r.op = "interrupt"  -> <<Stop("int")>>

\* and what it does to the CPU
CpuAfter(r) == CASE r.op \in {"continue", "detach"} -> "running"
                 [] r.op \in {"step", "interrupt"}  -> "halted"
                 [] OTHER                           -> cpu

Serving == link = "up" /\ ~stalled

Serve == /\ Serving /\ tx # <<>>
         /\ rx' = rx \o Answer(Head(tx))
         /\ cpu' = CpuAfter(Head(tx))
         /\ tx' = Tail(tx)
         /\ UNCHANGED <<link, pending, clientVars, stalled, listener>>

\* a packet is refused, or an interrupt byte is overlooked
ServeNot == /\ MayRefuse /\ Serving /\ tx # <<>>
            /\ rx' = IF Head(tx).op = "interrupt" THEN rx ELSE Append(rx, Nak)
            /\ tx' = Tail(tx)
            /\ UNCHANGED <<link, pending, clientVars, stubVars>>

Hit(b) == /\ Serving /\ cpu = "running"
          /\ rx' = Append(rx, Stop(b))
          /\ cpu' = "halted"
          /\ UNCHANGED <<link, tx, pending, clientVars, stalled, listener>>

Stall == /\ MayStall /\ stalled' = ~stalled
         /\ UNCHANGED <<link, rx, tx, pending, clientVars, cpu, listener>>

\* Dolphin exits: what it has sent can still be read, what it has not read is lost
Vanish == /\ MayVanish /\ (link = "up" \/ listener)
          /\ listener' = FALSE
          /\ link' = IF link = "up" THEN "eof" ELSE link
          /\ tx' = <<>>
          /\ UNCHANGED <<rx, pending, clientVars, cpu, stalled>>

\* a new launch halts at boot and listens for one connection
Launch == /\ MayVanish /\ link # "up" /\ ~listener
          /\ listener' = TRUE /\ cpu' = "halted" /\ stalled' = FALSE
          /\ UNCHANGED <<link, rx, tx, pending, clientVars>>

-----------------------------------------------------------------------------
Begin == \/ Connect \/ ConnectRefused \/ Close
         \/ \E o \in Senders : Send(o) \/ SendFails(o)
         \/ Interrupt \/ InterruptFails
         \/ Wait \/ Drain \/ DrainPending

\* the running method reads on
Read == \/ AckPlus \/ AckOob \/ AckNak
        \/ ReadReply \/ TakePending \/ TakeWire
        \/ DrainWire \/ DrainDone
        \/ Timeout \/ Lost \/ LostOpen \/ AckLost

Stub == Serve \/ ServeNot \/ (\E b \in Bp : Hit(b))
        \/ Stall \/ Vanish \/ Launch

Next == Begin \/ Read \/ Stub

Spec == Init /\ [][Next]_vars

\* The reading thread is scheduled, and a stub that is not stalled serves.
FairSpec == Spec /\ WF_vars(Read) /\ WF_vars(Serve \/ ServeNot)

-----------------------------------------------------------------------------
(* Properties                                                              *)

TypeOK ==
  /\ link \in {"none", "up", "eof"}
  /\ rx \in Seq(Token) /\ pending \in Seq(Packet) /\ tx \in Seq(Request)
  /\ op \in Ops /\ stage \in Stages
  /\ tag \in TagSet /\ ret \in Result
  /\ cpu \in {"halted", "running"}
  /\ stalled \in BOOLEAN /\ listener \in BOOLEAN

AllStops(s) == \A i \in 1..Len(s) : IsStop(s[i])
AllInterrupts(q, n) == \A i \in 1..n : q[i].op = "interrupt"

\* the answer to request n of method o is at position k of the input s, which
\* otherwise holds stop replies only
AnsweredAt(s, k, o, n) ==
  LET own == IF s[k] = Ack /\ o \in Queries THEN {k, k + 1} ELSE {k} IN
  /\ k \in 1..Len(s) /\ s[k] \in {Ack, Nak}
  /\ s[k] = Ack /\ o \in Queries => k < Len(s) /\ s[k + 1] = Reply(n)
  /\ \A i \in (1..Len(s)) \ own : IsStop(s[i])

\* While the stub answers in time, the input never holds more than the answer
\* to the one outstanding request (client.py, "one outstanding command at a
\* time"); all the rest of it is stop replies, whatever the method's stage is
\* and however the last one ended.
StreamShape ==
  /\ link # "up" => tx = <<>>
  /\ stage \in {"idle", "stop", "drain"} =>
       AllStops(rx) /\ AllInterrupts(tx, Len(tx))
  /\ stage = "stop" => op \in {"wait", "step"}
  /\ stage = "ack" =>
       /\ op \in Senders
       /\ \/ /\ AllStops(rx)
             /\ tx # <<>> => /\ tx[Len(tx)] = [op |-> op, tag |-> tag]
                            /\ AllInterrupts(tx, Len(tx) - 1)
          \/ tx = <<>> /\ \E k \in 1..Len(rx) : AnsweredAt(rx, k, op, tag)
  /\ stage = "reply" =>
       /\ op \in Queries /\ tx = <<>>
       /\ rx # <<>> /\ rx[1] = Reply(tag) /\ AllStops(Tail(rx))

\* cmd() returns the response to *this* command, whatever stop replies arrive
\* before its ack or after its reply (client.py, cmd and _consume_ack).
ReplyMatches ==
  ret.op \in Queries /\ ret.out = "value" => ret.pkt = Reply(ret.tag)

\* wait_for_stop and step return stop replies, and only stop replies are ever
\* buffered in _pending_replies.
StopMatches ==
  /\ ret.op \in {"wait", "step"} /\ ret.out = "value" => IsStop(ret.pkt)
  /\ \A i \in 1..Len(pending) : IsStop(pending[i])

\* Every method of the client returns: all its reads have a timeout.
CallsReturn == (stage # "idle") ~> (stage = "idle")

\* After the last stall (the last UI-pause) the client is eventually back in
\* step with the stub, from when on every command returns its own reply:
\* README, "the stub recovers cleanly when you resume".
RecoversCleanly ==
  []<>stalled \/ <>[][stage = "reply" /\ stage' = "idle" => ReplyMatches']_vars

\* What does recover it is a new connection: connect and close drop _recv_buf.  A
\* client that goes on losing or closing its connections is in step after the last
\* stall (in _pending_replies late packets survive, but cmd() does not read them);
\* one that keeps the same connection for good is not spoken of here.
ReconnectRecovers == <>[](link # "none") \/ RecoversCleanly

\* The request before which all others are interrupts, if there is one, and the
\* input without its answer (see StreamShape).
Outstanding == tx # <<>> /\ tx[Len(tx)].op # "interrupt"
FirstOwn(s) == CHOOSE i \in 1..Len(s) :
                 ~IsStop(s[i]) /\ \A j \in 1..(i - 1) : IsStop(s[j])
LastOwn(s) == CHOOSE i \in 1..Len(s) :
                ~IsStop(s[i]) /\ \A j \in (i + 1)..Len(s) : IsStop(s[j])
Stops(s) == IF AllStops(s) THEN s
            ELSE SubSeq(s, 1, FirstOwn(s) - 1) \o SubSeq(s, LastOwn(s) + 1, Len(s))
Causes(s) == [i \in 1..Len(s) |-> s[i].why]

\* The stop replies form one FIFO stream that commands leave alone.
intr == IF Outstanding THEN Len(tx) - 1 ELSE Len(tx)
stops == Causes(pending \o Stops(rx))
Stream == INSTANCE StopStream WITH Bp <- Bp, cpu <- cpu, stops <- stops, intr <- intr
StopsAreAStream == Stream!StreamSpec

=============================================================================
