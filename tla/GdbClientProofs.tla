--------------------------- MODULE GdbClientProofs ---------------------------
(***************************************************************************)
(* Proofs about GdbClient: types, and that every packet reaches its caller *)
(* as long as the stub does not stall.  The invariant of the second proof  *)
(* says where the answer of the outstanding command is.                    *)
(***************************************************************************)
EXTENDS GdbClient, WellFoundedInduction, TLAPS

\* The packet _read_packet_from_wire returns is the first one of the input.
LEMMA FirstPacketLemma ==
  ASSUME NEW s, Len(s) \in Nat, HasPacket(s)
  PROVE  /\ FirstPacket(s) \in 1..Len(s)
         /\ IsPacket(s[FirstPacket(s)])
         /\ \A j \in 1..(FirstPacket(s) - 1) : ~IsPacket(s[j])
  <1> DEFINE T == {i \in 1..Len(s) : IsPacket(s[i])}
             R == {ss \in Nat \X Nat : ss[1] < ss[2]}
  <1>1. T \subseteq Nat /\ T # {}
    BY DEF HasPacket
  <1>2. IsWellFoundedOn(R, Nat)
    BY NatLessThanWellFounded DEF OpToRel
  <1>3. PICK i \in T : \A j \in T : ~(<<j, i>> \in R)
    <2> HIDE DEF T, R
    <2> QED BY <1>1, <1>2, WFMin, Zenon
  <1>4. i \in 1..Len(s) /\ IsPacket(s[i])
    OBVIOUS
  <1>5. ASSUME NEW j \in 1..(i - 1), IsPacket(s[j]) PROVE FALSE
    <2>1. j \in T /\ j \in Nat /\ i \in Nat /\ j < i
      BY <1>4, <1>5
    <2>2. <<j, i>> \in R
      BY <2>1
    <2> QED BY <1>3, <2>1, <2>2
  <1> QED
    BY <1>4, <1>5 DEF FirstPacket

-----------------------------------------------------------------------------
(* Tokens                                                                  *)

\* Acks, replies and stops are different tokens; the packets are the tokens
\* that begin with `$'.
LEMMA TokenFacts ==
  /\ Ack \in Token /\ Nak \in Token /\ Ack # Nak
  /\ Packet \subseteq Token
  /\ ~IsPacket(Ack) /\ ~IsPacket(Nak) /\ ~IsStop(Ack) /\ ~IsStop(Nak)
  /\ \A n \in TagSet : Reply(n) \in Packet /\ IsPacket(Reply(n)) /\ ~IsStop(Reply(n))
  /\ \A w \in Cause : Stop(w) \in Packet /\ IsStop(Stop(w))
  /\ \A k \in Token : IsPacket(k) => k \in Packet
  /\ \A k \in Token : IsStop(k) => IsPacket(k)
  /\ Cause = Bp \cup {"int", "step"}
  <1> USE DEF Ack, Nak, Token, Packet, IsPacket, IsStop, Reply, Stop
  <1>1. /\ Ack \in Token /\ Nak \in Token /\ Ack # Nak
        /\ Packet \subseteq Token
        /\ ~IsPacket(Ack) /\ ~IsPacket(Nak) /\ ~IsStop(Ack) /\ ~IsStop(Nak)
    OBVIOUS
  <1>2. \A n \in TagSet :
          Reply(n) \in Packet /\ IsPacket(Reply(n)) /\ ~IsStop(Reply(n))
    OBVIOUS
  <1>3. \A w \in Cause : Stop(w) \in Packet /\ IsStop(Stop(w))
    OBVIOUS
  <1>4. \A k \in Token : IsPacket(k) => k \in Packet
    OBVIOUS
  <1>5. \A k : IsStop(k) => IsPacket(k)
    OBVIOUS
  <1>6. Cause = Bp \cup {"int", "step"}
    BY DEF Cause
  <1> HIDE DEF Ack, Nak, Token, Packet, IsPacket, IsStop, Reply, Stop
  <1> QED
    BY <1>1, <1>2, <1>3, <1>4, <1>5, <1>6

\* The empty sequence is a sequence of tokens, of packets and of requests.
LEMMA EmptyIsTyped == <<>> \in Seq(Token) /\ <<>> \in Seq(Packet) /\ <<>> \in Seq(Request)
  OBVIOUS

\* The packet read is one, and the input left is still made of tokens.
LEMMA ReadLemma ==
  ASSUME NEW s \in Seq(Token), HasPacket(s)
  PROVE  /\ FirstPacket(s) \in 1..Len(s)
         /\ s[FirstPacket(s)] \in Packet
         /\ After(s, FirstPacket(s)) \in Seq(Token)
  <1>1. FirstPacket(s) \in 1..Len(s) /\ IsPacket(s[FirstPacket(s)])
    BY FirstPacketLemma
  <1>2. s[FirstPacket(s)] \in Packet
    BY <1>1, TokenFacts
  <1> QED
    BY <1>1, <1>2 DEF After

\* What the stub sends back for a request.
LEMMA AnswerLemma ==
  ASSUME NEW r \in Request
  PROVE  /\ r.op \in Queries => Answer(r) = <<Ack, Reply(r.tag)>>
         /\ r.op = "continue" => Answer(r) = <<Ack>>
         /\ r.op = "step" => Answer(r) = <<Ack, Stop("step")>>
         /\ r.op = "interrupt" => Answer(r) = <<Stop("int")>>
         /\ r.op \in Queries \/ r.op \in {"continue", "step", "interrupt"}
         /\ Answer(r) \in Seq(Token)
  BY TokenFacts DEF Answer, Request, Senders, Queries

-----------------------------------------------------------------------------
(* Type correctness                                                        *)

\* A call that returns leaves its result and the caller's state typed.
LEMMA ReturnType ==
  ASSUME TypeOK, NEW o \in Ops, NEW out \in Outcomes, NEW p \in Packet \cup {Ack},
         Return(o, out, p)
  PROVE  op' \in Ops /\ stage' \in Stages /\ tag' \in TagSet /\ ret' \in Result
  BY DEF TypeOK, Return, Stages, Result

\* So does a call that raises, and whatever it leaves on the wire is typed.
LEMMA RaiseType ==
  ASSUME TypeOK, NEW o \in Ops, NEW out \in Outcomes, NEW rest \in Seq(Token),
         Raise(o, out, rest)
  PROVE  /\ op' \in Ops /\ stage' \in Stages /\ tag' \in TagSet /\ ret' \in Result
         /\ rx' \in Seq(Token) /\ tx' \in Seq(Request)
         /\ link' \in {"none", "up", "eof"}
  <1>1. PICK res \in Outcomes : Return(o, res, Ack)
    BY DEF Raise, Outcomes
  <1>2. op' \in Ops /\ stage' \in Stages /\ tag' \in TagSet /\ ret' \in Result
    BY <1>1, ReturnType
  <1> QED
    BY <1>2, EmptyIsTyped DEF Raise, LinkDown, TypeOK

\* The client is well typed when it is created.
LEMMA TypeInit == Init => TypeOK
  <1> SUFFICES ASSUME Init PROVE TypeOK
    OBVIOUS
  <1> USE TagsAssumption, EmptyIsTyped
  <1>1. ret \in Result
    BY TokenFacts DEF Init, Result, Ops, Outcomes, TagSet
  <1>2. stalled \in BOOLEAN /\ listener \in BOOLEAN
    BY DEF Init
  <1>3. op \in Ops /\ stage \in Stages /\ tag \in TagSet
    BY DEF Init, Ops, Stages, TagSet
  <1> QED BY <1>1, <1>2, <1>3 DEF Init, TypeOK

\* The client and the stub stay well-typed in every configuration, stalls
\* included: nothing but packets is ever buffered or returned by client.py.
THEOREM TypeCorrect == Spec => []TypeOK
  <1> USE TagsAssumption, EmptyIsTyped DEF stubVars, clientVars
  <1>1. Init => TypeOK
    BY TypeInit
  <1>2. TypeOK /\ [Next]_vars => TypeOK'
    <2> SUFFICES ASSUME TypeOK, [Next]_vars PROVE TypeOK'
      OBVIOUS
    <2> USE DEF TypeOK
    <2>1. CASE Connect
      <3>1. op' \in Ops /\ stage' \in Stages /\ tag' \in TagSet /\ ret' \in Result
        BY <2>1, ReturnType DEF Connect, Ops, Outcomes
      <3> QED BY <2>1, <3>1 DEF Connect
    <2>2. CASE ConnectRefused
      <3>1. op' \in Ops /\ stage' \in Stages /\ tag' \in TagSet /\ ret' \in Result
        BY <2>2, ReturnType DEF ConnectRefused, Ops, Outcomes
      <3> QED BY <2>2, <3>1 DEF ConnectRefused
    <2>3. CASE Close
      <3>1. op' \in Ops /\ stage' \in Stages /\ tag' \in TagSet /\ ret' \in Result
        BY <2>3, ReturnType DEF Close, Ops, Outcomes
      <3> QED BY <2>3, <3>1 DEF Close, LinkDown
    <2>4. ASSUME NEW o \in Senders, Send(o) PROVE TypeOK'
      <3>1. tag' \in TagSet
        BY <2>4 DEF Send, TagSet
      <3>2. [op |-> o, tag |-> tag'] \in Request
        BY <3>1 DEF Request
      <3>3. tx' \in Seq(Request)
        BY <2>4, <3>2 DEF Send
      <3> QED BY <2>4, <3>1, <3>3 DEF Send, Ops, Stages
    <2>5. ASSUME NEW o \in Senders, SendFails(o) PROVE TypeOK'
      <3>1. o \in Ops /\ "lost" \in Outcomes
        BY DEF Ops, Outcomes
      <3> QED BY <2>5, <3>1, RaiseType DEF SendFails
    <2>6. CASE Interrupt
      <3>1. op' \in Ops /\ stage' \in Stages /\ tag' \in TagSet /\ ret' \in Result
        BY <2>6, ReturnType DEF Interrupt, Ops, Outcomes
      <3>2. [op |-> "interrupt", tag |-> 0] \in Request
        BY DEF Request, TagSet
      <3>3. tx' \in Seq(Request)
        BY <2>6, <3>2 DEF Interrupt
      <3> QED BY <2>6, <3>1, <3>3 DEF Interrupt
    <2>7. CASE InterruptFails
      <3>1. "interrupt" \in Ops /\ "lost" \in Outcomes
        BY DEF Ops, Outcomes
      <3> QED BY <2>7, <3>1, RaiseType DEF InterruptFails
    <2>8. CASE Wait
      BY <2>8 DEF Wait, Ops, Stages
    <2>9. CASE Drain
      BY <2>9 DEF Drain, Ops, Stages
    <2>10. CASE DrainPending
      <3>1. op' \in Ops /\ stage' \in Stages /\ tag' \in TagSet /\ ret' \in Result
        BY <2>10, ReturnType DEF DrainPending, Ops, Outcomes
      <3> QED BY <2>10, <3>1 DEF DrainPending
    <2>11. CASE AckPlus
      <3>1. op' \in Ops /\ stage' \in Stages /\ tag' \in TagSet /\ ret' \in Result
        <4>1. CASE op = "continue"
          BY <2>11, <4>1, ReturnType DEF AckPlus, Outcomes
        <4>2. CASE op # "continue"
          BY <2>11, <4>2 DEF AckPlus, Stages
        <4> QED BY <4>1, <4>2
      <3> QED BY <2>11, <3>1 DEF AckPlus
    <2>12. CASE AckOob
      <3>1. Head(rx) \in Packet
        BY <2>12, TokenFacts DEF AckOob
      <3> QED BY <2>12, <3>1 DEF AckOob
    <2>13. CASE AckNak
      <3>1. Tail(rx) \in Seq(Token) /\ "protocol" \in Outcomes
        BY <2>13 DEF AckNak, Outcomes
      <3> QED BY <2>13, <3>1, RaiseType DEF AckNak
    <2>14. CASE ReadReply
      <3>1. rx[FirstPacket(rx)] \in Packet /\ After(rx, FirstPacket(rx)) \in Seq(Token)
        BY <2>14, ReadLemma DEF ReadReply
      <3>2. op' \in Ops /\ stage' \in Stages /\ tag' \in TagSet /\ ret' \in Result
        BY <2>14, <3>1, ReturnType DEF ReadReply, Outcomes
      <3> QED BY <2>14, <3>1, <3>2 DEF ReadReply, LinkDown
    <2>15. CASE TakePending
      <3>1. Head(pending) \in Packet
        BY <2>15 DEF TakePending
      <3>2. op' \in Ops /\ stage' \in Stages /\ tag' \in TagSet /\ ret' \in Result
        BY <2>15, <3>1, ReturnType DEF TakePending, Outcomes
      <3> QED BY <2>15, <3>2 DEF TakePending
    <2>16. CASE TakeWire
      <3>1. rx[FirstPacket(rx)] \in Packet /\ After(rx, FirstPacket(rx)) \in Seq(Token)
        BY <2>16, ReadLemma DEF TakeWire
      <3>2. op' \in Ops /\ stage' \in Stages /\ tag' \in TagSet /\ ret' \in Result
        BY <2>16, <3>1, ReturnType DEF TakeWire, Outcomes
      <3> QED BY <2>16, <3>1, <3>2 DEF TakeWire
    <2>17. CASE DrainWire
      <3>1. After(rx, FirstPacket(rx)) \in Seq(Token)
        BY <2>17, ReadLemma DEF DrainWire
      <3> QED BY <2>17, <3>1 DEF DrainWire
    <2>18. CASE DrainDone
      <3>1. op' \in Ops /\ stage' \in Stages /\ tag' \in TagSet /\ ret' \in Result
        BY <2>18, ReturnType DEF DrainDone, Outcomes
      <3> QED BY <2>18, <3>1 DEF DrainDone, LinkDown
    <2>19. CASE Timeout
      <3>1. "timeout" \in Outcomes
        BY DEF Outcomes
      <3> QED BY <2>19, <3>1, RaiseType DEF Timeout
    <2>20. CASE Lost \/ LostOpen \/ AckLost
      <3>1. {"lost", "error"} \subseteq Outcomes
        BY DEF Outcomes
      <3> QED BY <2>20, <3>1, RaiseType DEF Lost, LostOpen, AckLost
    <2>21. CASE Serve
      <3>1. Head(tx) \in Request /\ Tail(tx) \in Seq(Request)
        BY <2>21 DEF Serve
      <3>2. rx' \in Seq(Token)
        BY <2>21, <3>1, AnswerLemma DEF Serve
      <3>3. cpu' \in {"halted", "running"}
        BY <2>21 DEF Serve, CpuAfter
      <3> QED BY <2>21, <3>1, <3>2, <3>3 DEF Serve
    <2>22. CASE ServeNot
      BY <2>22, TokenFacts DEF ServeNot
    <2>23. ASSUME NEW b \in Bp, Hit(b) PROVE TypeOK'
      <3>1. Stop(b) \in Token
        BY TokenFacts
      <3> QED BY <2>23, <3>1 DEF Hit
    <2>24. CASE Stall
      BY <2>24 DEF Stall
    <2>25. CASE Vanish
      BY <2>25 DEF Vanish
    <2>26. CASE Launch
      BY <2>26 DEF Launch
    <2>27. CASE UNCHANGED vars
      BY <2>27 DEF vars
    <2> QED
      BY <2>1, <2>2, <2>3, <2>4, <2>5, <2>6, <2>7, <2>8, <2>9, <2>10, <2>11,
         <2>12, <2>13, <2>14, <2>15, <2>16, <2>17, <2>18, <2>19, <2>20, <2>21,
         <2>22, <2>23, <2>24, <2>25, <2>26, <2>27
         DEF Next, Begin, Read, Stub
  <1> QED
    BY <1>1, <1>2, PTL DEF Spec

-----------------------------------------------------------------------------
(* The shape of the input                                                  *)

\* Reading from a stream of stop replies, or a stop at its end, leaves one.
LEMMA StopsLemma ==
  ASSUME NEW s \in Seq(Token), AllStops(s)
  PROVE  /\ s # <<>> => AllStops(Tail(s)) /\ IsStop(Head(s))
         /\ \A i \in 1..Len(s) : AllStops(After(s, i)) /\ IsStop(s[i])
         /\ \A w \in Cause : AllStops(Append(s, Stop(w)))
  BY TokenFacts DEF AllStops, After

\* an out-of-band stop reply is taken from in front of the answer
LEMMA AnsweredTail ==
  ASSUME NEW s \in Seq(Token), NEW k, NEW o, NEW n, AnsweredAt(s, k, o, n),
         s # <<>>, IsPacket(Head(s))
  PROVE  IsStop(Head(s)) /\ AnsweredAt(Tail(s), k - 1, o, n)
  <1>1. k \in 1..Len(s) /\ k # 1 /\ Head(s) = s[1]
    BY TokenFacts DEF AnsweredAt
  <1>2. IsStop(s[1])
    BY <1>1 DEF AnsweredAt
  <1>3. /\ Tail(s) \in Seq(Token) /\ Len(Tail(s)) = Len(s) - 1
        /\ \A i \in 1..Len(Tail(s)) : Tail(s)[i] = s[i + 1]
    OBVIOUS
  <1>4. k - 1 \in 1..Len(Tail(s)) /\ Tail(s)[k - 1] = s[k]
    BY <1>1, <1>3
  <1>5. Tail(s)[k - 1] = Ack /\ o \in Queries =>
          k - 1 < Len(Tail(s)) /\ Tail(s)[(k - 1) + 1] = Reply(n)
    BY <1>1, <1>3, <1>4 DEF AnsweredAt
  <1>6. ASSUME NEW i \in 1..Len(Tail(s)), i # k - 1,
               ~(Tail(s)[k - 1] = Ack /\ o \in Queries /\ i = (k - 1) + 1)
        PROVE  IsStop(Tail(s)[i])
    BY <1>1, <1>3, <1>4, <1>6 DEF AnsweredAt
  <1>7. Tail(s)[k - 1] \in {Ack, Nak}
    BY <1>4 DEF AnsweredAt
  <1> QED
    BY <1>1, <1>2, <1>4, <1>5, <1>6, <1>7 DEF AnsweredAt

\* a stop reply that arrives late goes behind the answer
LEMMA AnsweredAppend ==
  ASSUME NEW s \in Seq(Token), NEW k, NEW o, NEW n, AnsweredAt(s, k, o, n),
         NEW w \in Cause
  PROVE  AnsweredAt(Append(s, Stop(w)), k, o, n)
  <1> DEFINE z == Append(s, Stop(w))
  <1>1. /\ Len(z) = Len(s) + 1 /\ z[Len(s) + 1] = Stop(w)
        /\ \A i \in 1..Len(s) : z[i] = s[i]
    BY TokenFacts
  <1>2. IsStop(Stop(w))
    BY TokenFacts
  <1> HIDE DEF z
  <1> QED
    BY <1>1, <1>2 DEF AnsweredAt, z

\* serving the outstanding request puts its answer behind the stop replies
LEMMA AnsweredNow ==
  ASSUME NEW s \in Seq(Token), AllStops(s), NEW r \in Request, r.op # "interrupt"
  PROVE  /\ AnsweredAt(s \o Answer(r), Len(s) + 1, r.op, r.tag)
         /\ AnsweredAt(Append(s, Nak), Len(s) + 1, r.op, r.tag)
  <1> DEFINE k == Len(s) + 1
             z == s \o Answer(r)
  <1>1. IsStop(Stop("step")) /\ Ack # Nak /\ Len(s) \in Nat
    BY TokenFacts
  <1>2. /\ Answer(r) \in Seq(Token) /\ Len(z) = Len(s) + Len(Answer(r))
        /\ \A i \in 1..Len(s) : z[i] = s[i]
        /\ \A i \in 1..Len(Answer(r)) : z[Len(s) + i] = Answer(r)[i]
    BY AnswerLemma
  <1>3. \A i \in 1..Len(s) : IsStop(z[i])
    BY <1>2 DEF AllStops
  <1>4. ASSUME r.op \in Queries PROVE AnsweredAt(z, k, r.op, r.tag)
    <2>1. Len(Answer(r)) = 2 /\ Answer(r)[1] = Ack /\ Answer(r)[2] = Reply(r.tag)
      BY <1>4, AnswerLemma
    <2>2. Len(z) = k + 1 /\ z[k] = Ack /\ z[k + 1] = Reply(r.tag)
      BY <1>1, <1>2, <2>1
    <2> HIDE DEF z
    <2> QED BY <1>1, <1>3, <1>4, <2>2 DEF AnsweredAt
  <1>5. ASSUME r.op = "continue" PROVE AnsweredAt(z, k, r.op, r.tag)
    <2>1. Len(Answer(r)) = 1 /\ Answer(r)[1] = Ack
      BY <1>5, AnswerLemma
    <2>2. Len(z) = k /\ z[k] = Ack
      BY <1>1, <1>2, <2>1
    <2> HIDE DEF z
    <2> QED BY <1>1, <1>3, <1>5, <2>2 DEF AnsweredAt, Queries
  <1>6. ASSUME r.op = "step" PROVE AnsweredAt(z, k, r.op, r.tag)
    <2>1. Len(Answer(r)) = 2 /\ Answer(r)[1] = Ack /\ Answer(r)[2] = Stop("step")
      BY <1>6, AnswerLemma
    <2>2. Len(z) = k + 1 /\ z[k] = Ack /\ IsStop(z[k + 1])
      BY <1>1, <1>2, <2>1
    <2> HIDE DEF z
    <2> QED BY <1>1, <1>3, <1>6, <2>2 DEF AnsweredAt, Queries
  <1>7. AnsweredAt(Append(s, Nak), Len(s) + 1, r.op, r.tag)
    BY <1>1, TokenFacts DEF AnsweredAt, AllStops
  <1> QED
    BY <1>4, <1>5, <1>6, <1>7, AnswerLemma

\* when the ack is at the front, the reply is next and the rest is stops
LEMMA AnsweredHead ==
  ASSUME NEW s \in Seq(Token), NEW k, NEW o, NEW n, AnsweredAt(s, k, o, n),
         s # <<>>, Head(s) \in {Ack, Nak}
  PROVE  /\ Head(s) = Ack /\ o \in Queries =>
              /\ Tail(s) # <<>> /\ Tail(s)[1] = Reply(n)
              /\ AllStops(Tail(Tail(s)))
         /\ ~(Head(s) = Ack /\ o \in Queries) => AllStops(Tail(s))
  <1>1. Head(s) = s[1] /\ ~IsStop(s[1]) /\ Ack # Nak
    BY TokenFacts
  <1>2. k = 1
    BY <1>1 DEF AnsweredAt
  <1>3. /\ Tail(s) \in Seq(Token) /\ Len(Tail(s)) = Len(s) - 1
        /\ \A i \in 1..Len(Tail(s)) : Tail(s)[i] = s[i + 1]
    OBVIOUS
  <1>4. ASSUME Head(s) = Ack, o \in Queries
        PROVE  Tail(s) # <<>> /\ Tail(s)[1] = Reply(n) /\ AllStops(Tail(Tail(s)))
    <2>1. 1 < Len(s) /\ s[2] = Reply(n) /\ \A i \in 3..Len(s) : IsStop(s[i])
      BY <1>1, <1>2, <1>4 DEF AnsweredAt
    <2>2. Len(Tail(s)) > 0 /\ Tail(s)[1] = Reply(n)
      BY <2>1, <1>3
    <2>2a. Tail(s) # <<>>
      BY <2>2
    <2>3. /\ Len(Tail(Tail(s))) = Len(Tail(s)) - 1
          /\ \A i \in 1..(Len(Tail(s)) - 1) : Tail(Tail(s))[i] = Tail(s)[i + 1]
      BY <2>2a, <1>3
    <2>4. /\ Len(Tail(Tail(s))) = Len(s) - 2
          /\ \A i \in 1..(Len(s) - 2) : Tail(Tail(s))[i] = s[i + 2]
      BY <2>1, <2>3, <1>3
    <2> QED BY <2>1, <2>2, <2>2a, <2>4 DEF AllStops
  <1>5. ASSUME ~(Head(s) = Ack /\ o \in Queries) PROVE AllStops(Tail(s))
    BY <1>1, <1>2, <1>3, <1>5 DEF AnsweredAt, AllStops
  <1> QED
    BY <1>4, <1>5

-----------------------------------------------------------------------------
(* Packets reach the caller they are meant for                             *)

\* a read times out on an ack that a stalled stub is still to send
LateTimeout == Timeout /\ stage = "ack" /\ tx # <<>>

\* what a step does to the results: they are as right as they were
Matched == (ReplyMatches => ReplyMatches') /\ (StopMatches => StopMatches')

\* what a stream without tokens and requests satisfies
EmptyShape == AllStops(<<>>) /\ AllInterrupts(<<>>, Len(<<>>))

\* An empty stream has the shape of an idle one.
LEMMA EmptyShapeLemma == EmptyShape
  BY DEF EmptyShape, AllStops, AllInterrupts

\* A method that returns leaves the stream in shape if only stop replies are
\* left to read and only interrupts to serve.
LEMMA ReturnShape ==
  ASSUME NEW o, NEW out, NEW p, Return(o, out, p),
         AllStops(rx'), AllInterrupts(tx', Len(tx')), link' # "up" => tx' = <<>>
  PROVE  StreamShape' /\ ret' = [op |-> o, tag |-> tag, pkt |-> p, out |-> out]
  BY DEF Return, StreamShape, AllStops, AllInterrupts

\* An exception leaves it so too, and returns no packet.
LEMMA RaiseShape ==
  ASSUME NEW o, NEW out \in {"timeout", "lost", "error", "protocol"}, NEW rest,
         Raise(o, out, rest), AllStops(rest), StreamShape,
         out # "lost" => AllInterrupts(tx, Len(tx))
  PROVE  StreamShape' /\ ret'.out # "value"
  <1>1. /\ AllStops(rx') /\ AllInterrupts(tx', Len(tx'))
        /\ link' # "up" => tx' = <<>>
    BY EmptyShapeLemma
       DEF Raise, LinkDown, EmptyShape, StreamShape, AllStops, AllInterrupts
  <1>2. PICK res \in {"false", "ok", "timeout", "lost", "error", "protocol"} : Return(o, res, Ack)
    BY DEF Raise
  <1> QED
    BY <1>1, <1>2, ReturnShape

\* A call that ends without a packet leaves the caller's view of packets alone.
LEMMA NoValue ==
  ASSUME ret'.out # "value", pending' = pending
  PROVE  Matched
  BY DEF Matched, ReplyMatches, StopMatches

\* Every other step of the client and the stub keeps the shape of the stream, and
\* what is read from a stream in shape is what the caller asked for.
LEMMA InStepNext ==
  ASSUME TypeOK, StreamShape, TypeOK', Next, ~LateTimeout
  PROVE  StreamShape' /\ Matched
  <1> USE DEF stubVars, clientVars
  <1>0. TypeOK /\ StreamShape
    OBVIOUS
  <1>t. rx \in Seq(Token) /\ pending \in Seq(Packet) /\ tx \in Seq(Request) /\ tag \in TagSet
    BY <1>0 DEF TypeOK
  <1>i. /\ link # "up" => tx = <<>>
        /\ stage \in {"idle", "stop", "drain"} =>
             AllStops(rx) /\ AllInterrupts(tx, Len(tx))
        /\ stage = "stop" => op \in {"wait", "step"}
    BY <1>0 DEF StreamShape
  <1>1. CASE Connect \/ Close
    <2>1. rx' = <<>> /\ tx' = <<>> /\ pending' = pending
      BY <1>0, <1>1 DEF Connect, Close, LinkDown
    <2>2. AllStops(rx') /\ AllInterrupts(tx', Len(tx'))
      BY <2>1, EmptyShapeLemma DEF EmptyShape
    <2>3. PICK o : Return(o, "ok", Ack)
      BY <1>1 DEF Connect, Close
    <2>4. StreamShape' /\ ret'.out # "value"
      BY <2>1, <2>2, <2>3, ReturnShape
    <2> QED BY <1>0, <2>1, <2>4, NoValue
  <1>2. CASE ConnectRefused
    <2>1. /\ AllStops(rx') /\ AllInterrupts(tx', Len(tx'))
          /\ link' # "up" => tx' = <<>>
          /\ pending' = pending
      BY <1>0, <1>2, <1>i DEF ConnectRefused
    <2>2. StreamShape' /\ ret'.out # "value"
      BY <1>2, <2>1, ReturnShape DEF ConnectRefused
    <2> QED BY <1>0, <2>1, <2>2, NoValue
  <1>3. ASSUME NEW o \in Senders, Send(o)
        PROVE  StreamShape' /\ Matched
    <2>1. AllStops(rx') /\ op' = o /\ stage' = "ack" /\ (link' # "up" => tx' = <<>>)
      BY <1>3, <1>i DEF Send
    <2>2. ASSUME link = "up"
          PROVE  tx'[Len(tx')] = [op |-> op', tag |-> tag'] /\ AllInterrupts(tx', Len(tx') - 1)
      <3> DEFINE r == [op |-> o, tag |-> tag']
      <3>1. r \in Request
        BY DEF Request, TypeOK
      <3>2. tx' = Append(tx, r) /\ op' = o
        BY <1>3, <2>2 DEF Send
      <3> HIDE DEF r
      <3>3. Len(tx') = Len(tx) + 1 /\ tx'[Len(tx')] = r /\ \A i \in 1..Len(tx) : tx'[i] = tx[i]
        BY <1>t, <3>1, <3>2
      <3>4. AllInterrupts(tx, Len(tx)) /\ Len(tx) \in Nat
        BY <1>3, <1>i, <1>t DEF Send
      <3>5. AllInterrupts(tx', Len(tx') - 1)
        BY <3>3, <3>4 DEF AllInterrupts
      <3> QED BY <3>2, <3>3, <3>5 DEF r
    <2>3. StreamShape'
      BY <1>3, <2>1, <2>2 DEF Send, StreamShape, AllStops, AllInterrupts
    <2>4. Matched
      BY <1>0, <1>3 DEF Send, Matched, ReplyMatches, StopMatches
    <2> QED BY <2>3, <2>4
  <1>4. ASSUME NEW o, stage = "idle", Raise(o, "lost", rx), UNCHANGED <<pending, stubVars>>
        PROVE  StreamShape' /\ Matched
    <2>1. StreamShape' /\ ret'.out # "value"
      BY <1>0, <1>4, <1>i, RaiseShape
    <2> QED BY <1>0, <1>4, <2>1, NoValue
  <1>5. CASE Interrupt
    <2> DEFINE r == [op |-> "interrupt", tag |-> 0]
    <2>1. r \in Request /\ r.op = "interrupt"
      BY TagsAssumption DEF Request, TagSet
    <2>2. tx' = IF link = "up" THEN Append(tx, r) ELSE tx
      BY <1>5 DEF Interrupt
    <2> HIDE DEF r
    <2>3. AllInterrupts(tx', Len(tx'))
      BY <1>5, <1>i, <1>t, <2>1, <2>2 DEF Interrupt, AllInterrupts
    <2>4. AllStops(rx') /\ (link' # "up" => tx' = <<>>) /\ pending' = pending
      BY <1>0, <1>5, <1>i, <2>2 DEF Interrupt
    <2>5. StreamShape' /\ ret'.out # "value"
      BY <1>5, <2>3, <2>4, ReturnShape DEF Interrupt
    <2> QED BY <1>0, <2>4, <2>5, NoValue
  <1>6. CASE Wait \/ Drain
    <2>1. /\ stage' \in {"stop", "drain"} /\ AllStops(rx') /\ AllInterrupts(tx', Len(tx'))
          /\ link' # "up" => tx' = <<>>
          /\ stage' = "stop" => op' = "wait"
      BY <1>6, <1>i DEF Wait, Drain
    <2>2. StreamShape'
      BY <2>1 DEF StreamShape, AllStops, AllInterrupts
    <2>3. Matched
      BY <1>0, <1>6 DEF Wait, Drain, Matched, ReplyMatches, StopMatches
    <2> QED BY <2>2, <2>3
  <1>7. CASE DrainPending
    <2>1. /\ AllStops(rx') /\ AllInterrupts(tx', Len(tx'))
          /\ link' # "up" => tx' = <<>>
          /\ pending' = <<>>
      BY <1>0, <1>7, <1>i DEF DrainPending
    <2>2. StreamShape' /\ ret'.out # "value"
      BY <1>7, <2>1, ReturnShape DEF DrainPending
    <2> QED BY <2>1, <2>2 DEF Matched, ReplyMatches, StopMatches
  <1>8. CASE AckPlus
    <2>1. /\ rx # <<>> /\ Head(rx) = Ack /\ op \in Senders /\ rx' = Tail(rx)
          /\ tx' = tx /\ pending' = pending /\ link' = link
      BY <1>8, <1>0 DEF AckPlus, StreamShape
    <2>2. PICK k \in 1..Len(rx) : AnsweredAt(rx, k, op, tag)
      BY <1>8, <1>0, <1>t, <2>1, StopsLemma, TokenFacts DEF AckPlus, StreamShape
    <2>3. tx = <<>>
      BY <1>8, <1>0, <1>t, <2>1, StopsLemma, TokenFacts DEF AckPlus, StreamShape
    <2>4. CASE op \in Queries
      <3>1. Tail(rx) # <<>> /\ Tail(rx)[1] = Reply(tag) /\ AllStops(Tail(Tail(rx)))
        BY <1>t, <2>1, <2>2, <2>4, AnsweredHead
      <3>2. stage' = "reply" /\ op' = op /\ tag' = tag /\ ret' = ret
        BY <1>8, <2>4 DEF AckPlus, Queries
      <3>3. StreamShape'
        BY <2>1, <2>3, <2>4, <3>1, <3>2 DEF StreamShape, AllStops
      <3> QED BY <1>0, <2>1, <3>2, <3>3 DEF Matched, ReplyMatches, StopMatches
    <2>5. CASE op \notin Queries
      <3>1. AllStops(rx') /\ AllInterrupts(tx', Len(tx')) /\ (link' # "up" => tx' = <<>>)
        BY <1>t, <1>i, <2>1, <2>2, <2>3, <2>5, AnsweredHead, EmptyShapeLemma DEF EmptyShape
      <3>2. CASE op = "continue"
        <4>1. StreamShape' /\ ret'.out # "value"
          BY <1>8, <3>1, <3>2, ReturnShape DEF AckPlus
        <4> QED BY <1>0, <2>1, <4>1, NoValue
      <3>3. CASE op # "continue"
        <4>1. stage' = "stop" /\ op' = "step" /\ ret' = ret
          BY <1>8, <2>1, <2>5, <3>3 DEF AckPlus, Senders
        <4>2. StreamShape'
          BY <3>1, <4>1 DEF StreamShape, AllStops, AllInterrupts
        <4> QED BY <1>0, <2>1, <4>1, <4>2 DEF Matched, ReplyMatches, StopMatches
      <3> QED BY <3>2, <3>3
    <2> QED BY <2>4, <2>5
  <1>9. CASE AckOob
    <2>1. /\ stage = "ack" /\ rx # <<>> /\ IsPacket(Head(rx)) /\ op \in Senders
          /\ pending' = Append(pending, Head(rx)) /\ rx' = Tail(rx)
          /\ UNCHANGED <<link, tx, op, stage, tag, ret>>
      BY <1>9, <1>0 DEF AckOob, StreamShape
    <2>2. CASE AllStops(rx)
      <3>1. IsStop(Head(rx)) /\ AllStops(rx')
        BY <1>t, <2>1, <2>2, StopsLemma
      <3>2. tx # <<>> => /\ tx[Len(tx)] = [op |-> op, tag |-> tag]
                         /\ AllInterrupts(tx, Len(tx) - 1)
        <4>1. CASE \E k \in 1..Len(rx) : AnsweredAt(rx, k, op, tag)
          BY <4>1, <2>2, TokenFacts DEF AnsweredAt, AllStops
        <4>2. CASE ~\E k \in 1..Len(rx) : AnsweredAt(rx, k, op, tag)
          BY <1>0, <2>1, <4>2 DEF StreamShape
        <4> QED BY <4>1, <4>2
      <3>3. StreamShape'
        BY <1>i, <2>1, <3>1, <3>2 DEF StreamShape, AllStops, AllInterrupts
      <3>4. Head(rx) \in Packet
        BY <1>t, <2>1, TokenFacts
      <3>5. StopMatches => StopMatches'
        BY <1>0, <1>t, <2>1, <3>1, <3>4 DEF StopMatches
      <3> QED BY <1>0, <2>1, <3>3, <3>5 DEF Matched, ReplyMatches
    <2>3. CASE ~AllStops(rx)
      <3>1. PICK k \in 1..Len(rx) : tx = <<>> /\ AnsweredAt(rx, k, op, tag)
        BY <1>0, <2>1, <2>3 DEF StreamShape
      <3>2. IsStop(Head(rx)) /\ AnsweredAt(Tail(rx), k - 1, op, tag)
        BY <1>t, <2>1, <3>1, AnsweredTail
      <3>3. k - 1 \in 1..Len(rx') /\ AnsweredAt(rx', k - 1, op', tag')
        BY <2>1, <3>2 DEF AnsweredAt
      <3>4. StreamShape'
        BY <2>1, <3>1, <3>3 DEF StreamShape
      <3>5. Head(rx) \in Packet
        BY <1>t, <2>1, TokenFacts
      <3>6. StopMatches => StopMatches'
        BY <1>0, <1>t, <2>1, <3>2, <3>5 DEF StopMatches
      <3> QED BY <1>0, <2>1, <3>4, <3>6 DEF Matched, ReplyMatches
    <2> QED BY <2>2, <2>3
  <1>10. CASE AckNak
    <2>1. rx # <<>> /\ Head(rx) = Nak /\ Head(rx) # Ack /\ ~IsStop(Head(rx))
      BY <1>10, TokenFacts DEF AckNak
    <2>2. PICK k \in 1..Len(rx) : tx = <<>> /\ AnsweredAt(rx, k, op, tag)
      BY <1>10, <1>0, <1>t, <2>1, StopsLemma DEF AckNak, StreamShape
    <2>3. AllStops(Tail(rx)) /\ AllInterrupts(tx, Len(tx))
      BY <1>t, <2>1, <2>2, AnsweredHead, EmptyShapeLemma DEF EmptyShape
    <2>4. StreamShape' /\ ret'.out # "value"
      BY <1>10, <1>0, <2>3, RaiseShape DEF AckNak
    <2> QED BY <1>10, <1>0, <2>4, NoValue DEF AckNak
  <1>11. CASE ReadReply
    <2>1. /\ stage = "reply" /\ op \in Queries /\ tx = <<>> /\ rx # <<>>
          /\ rx[1] = Reply(tag) /\ AllStops(Tail(rx)) /\ HasPacket(rx)
      BY <1>11, <1>0 DEF ReadReply, StreamShape
    <2>2. FirstPacket(rx) = 1
      <3>1. IsPacket(rx[1]) /\ 1 \in 1..Len(rx)
        BY <1>t, <2>1, TokenFacts
      <3> QED BY <1>t, <2>1, <3>1, FirstPacketLemma
    <2>3. After(rx, 1) = Tail(rx)
      BY <1>t, <2>1 DEF After
    <2>4. Return(op, "value", Reply(tag)) /\ pending' = pending
      BY <1>11, <1>0, <2>1, <2>2 DEF ReadReply
    <2>5. /\ AllStops(rx') /\ AllInterrupts(tx', Len(tx'))
          /\ link' # "up" => tx' = <<>>
      BY <1>11, <2>1, <2>2, <2>3, EmptyShapeLemma DEF ReadReply, LinkDown, EmptyShape
    <2>6. StreamShape' /\ ret' = [op |-> op, tag |-> tag, pkt |-> Reply(tag), out |-> "value"]
      BY <2>4, <2>5, ReturnShape
    <2>7. op \notin {"wait", "step"}
      BY <2>1 DEF Queries
    <2> QED BY <1>0, <2>4, <2>6, <2>7 DEF Matched, ReplyMatches, StopMatches
  <1>12. CASE TakePending
    <2>1. /\ AllStops(rx') /\ AllInterrupts(tx', Len(tx'))
          /\ link' # "up" => tx' = <<>>
          /\ Return(op, "value", Head(pending))
      BY <1>12, <1>0, <1>i DEF TakePending
    <2>2. StreamShape' /\ ret' = [op |-> op, tag |-> tag, pkt |-> Head(pending), out |-> "value"]
      BY <2>1, ReturnShape
    <2>3. StopMatches => /\ IsStop(Head(pending))
                         /\ \A i \in 1..Len(pending') : IsStop(pending'[i])
      BY <1>12, <1>0, <1>t DEF TakePending, StopMatches
    <2>4. op \in {"wait", "step"} /\ op \notin Queries
      BY <1>12, <1>i DEF TakePending, Queries
    <2> QED BY <2>1, <2>2, <2>3, <2>4 DEF Matched, ReplyMatches, StopMatches
  <1>13. CASE TakeWire
    <2> DEFINE j == FirstPacket(rx)
    <2>1. j \in 1..Len(rx) /\ AllStops(rx) /\ AllInterrupts(tx, Len(tx))
      BY <1>13, <1>i, <1>t, ReadLemma DEF TakeWire
    <2>2. /\ rx' = After(rx, j) /\ Return(op, "value", rx[j])
          /\ UNCHANGED <<link, tx, pending>>
      BY <1>13 DEF TakeWire
    <2> HIDE DEF j
    <2>3. IsStop(rx[j]) /\ AllStops(rx')
      BY <1>t, <2>1, <2>2, StopsLemma
    <2>4. StreamShape' /\ ret' = [op |-> op, tag |-> tag, pkt |-> rx[j], out |-> "value"]
      BY <1>i, <2>1, <2>2, <2>3, ReturnShape
    <2>5. op \in {"wait", "step"} /\ op \notin Queries
      BY <1>13, <1>i DEF TakeWire, Queries
    <2> QED BY <1>0, <2>2, <2>3, <2>4, <2>5 DEF Matched, ReplyMatches, StopMatches
  <1>14. CASE DrainWire
    <2>1. FirstPacket(rx) \in 1..Len(rx) /\ AllStops(rx)
      BY <1>14, <1>i, <1>t, ReadLemma DEF DrainWire
    <2>2. AllStops(rx')
      BY <1>14, <1>t, <2>1, StopsLemma DEF DrainWire
    <2>3. StreamShape'
      BY <1>14, <1>i, <2>2 DEF DrainWire, StreamShape, AllStops, AllInterrupts
    <2> QED BY <1>0, <1>14, <2>3 DEF DrainWire, Matched, ReplyMatches, StopMatches
  <1>15. CASE DrainDone
    <2>1. /\ AllStops(rx') /\ AllInterrupts(tx', Len(tx'))
          /\ link' # "up" => tx' = <<>>
          /\ pending' = pending
      BY <1>15, <1>0, <1>i, EmptyShapeLemma DEF DrainDone, LinkDown, EmptyShape
    <2>2. StreamShape' /\ ret'.out # "value"
      BY <1>15, <2>1, ReturnShape DEF DrainDone
    <2> QED BY <1>0, <2>1, <2>2, NoValue
  <1>16. CASE Timeout \/ Lost \/ LostOpen
    <2>1. CASE stage = "stop"
      <3>1. PICK out \in {"timeout", "lost", "error"} :
              Raise(op, out, rx) /\ UNCHANGED <<pending, stubVars>>
        BY <1>16 DEF Timeout, Lost, LostOpen
      <3>2. StreamShape' /\ ret'.out # "value"
        BY <1>0, <1>i, <2>1, <3>1, RaiseShape
      <3> QED BY <1>0, <3>1, <3>2, NoValue
    <2>2. CASE stage = "ack"
      <3>1. rx = <<>> /\ (Timeout \/ LostOpen => tx = <<>>)
        BY <1>16, <1>0, <2>2 DEF Timeout, Lost, LostOpen, Dry, LateTimeout, StreamShape
      <3>2. AllStops(rx) /\ (Timeout \/ LostOpen => AllInterrupts(tx, Len(tx)))
        BY <3>1, EmptyShapeLemma DEF EmptyShape
      <3>3. PICK out \in {"timeout", "lost", "error"} :
              /\ Raise(op, out, rx) /\ UNCHANGED <<pending, stubVars>>
              /\ out # "lost" => Timeout \/ LostOpen
        BY <1>16 DEF Timeout, Lost, LostOpen
      <3>4. StreamShape' /\ ret'.out # "value"
        BY <1>0, <3>2, <3>3, RaiseShape
      <3> QED BY <1>0, <3>3, <3>4, NoValue
    <2>3. CASE stage = "reply"
      <3>1. rx # <<>> /\ rx[1] = Reply(tag) /\ ~HasPacket(rx)
        BY <1>16, <1>0, <2>3 DEF Timeout, Lost, LostOpen, Dry, StreamShape
      <3>2. 1 \in 1..Len(rx) /\ IsPacket(rx[1])
        BY <1>t, <3>1, TokenFacts
      <3> QED BY <3>1, <3>2 DEF HasPacket
    <2> QED BY <1>16, <2>1, <2>2, <2>3 DEF Timeout, Lost, LostOpen, Dry
  <1>17. CASE Serve \/ ServeNot
    <2>1. /\ tx # <<>> /\ tx' = Tail(tx) /\ link = "up"
          /\ UNCHANGED <<link, pending, op, stage, tag, ret>>
      BY <1>17 DEF Serve, ServeNot, Serving
    <2>2. /\ Head(tx) \in Request /\ Head(tx) = tx[1] /\ Len(tx') = Len(tx) - 1
          /\ Len(tx) \in Nat /\ Len(tx) >= 1 /\ \A i \in 1..Len(tx') : tx'[i] = tx[i + 1]
      BY <1>t, <2>1
    <2>3. Cause = Bp \cup {"int", "step"}
      BY DEF Cause
    <2>4. ASSUME Head(tx).op = "interrupt", AllStops(rx) PROVE AllStops(rx')
      <3>1. rx' = rx \/ rx' = Append(rx, Stop("int"))
        <4>1. CASE Serve
          <5>1. rx' = rx \o <<Stop("int")>> /\ Stop("int") \in Token
            BY <4>1, <2>2, <2>3, <2>4, AnswerLemma, TokenFacts DEF Serve
          <5> QED BY <5>1, <1>t
        <4>2. CASE ServeNot
          BY <4>2, <2>4 DEF ServeNot
        <4> QED BY <1>17, <4>1, <4>2
      <3> QED BY <1>t, <2>3, <2>4, <3>1, StopsLemma
    <2>5. StreamShape'
      <3>1. CASE stage \in {"idle", "stop", "drain"}
        <4>1. Head(tx).op = "interrupt" /\ AllStops(rx) /\ AllInterrupts(tx', Len(tx'))
          BY <1>i, <2>2, <3>1 DEF AllInterrupts
        <4>2. AllStops(rx')
          BY <2>4, <4>1
        <4> QED BY <1>i, <2>1, <3>1, <4>1, <4>2 DEF StreamShape, AllStops, AllInterrupts
      <3>2. CASE stage = "ack"
        <4>1. /\ op \in Senders /\ AllStops(rx)
              /\ tx[Len(tx)] = [op |-> op, tag |-> tag] /\ AllInterrupts(tx, Len(tx) - 1)
          BY <1>0, <2>1, <3>2 DEF StreamShape
        <4>2. CASE Len(tx) = 1
          <5>1. Head(tx).op = op /\ Head(tx).tag = tag /\ op # "interrupt" /\ tx' = <<>>
            BY <1>t, <2>1, <2>2, <4>1, <4>2 DEF Senders, Queries
          <5>2. AnsweredAt(rx', Len(rx) + 1, op, tag)
            BY <1>17, <1>t, <2>2, <4>1, <5>1, AnsweredNow DEF Serve, ServeNot
          <5>3. Len(rx) + 1 \in 1..Len(rx')
            BY <5>2 DEF AnsweredAt
          <5> QED BY <2>1, <3>2, <4>1, <5>1, <5>2, <5>3 DEF StreamShape
        <4>3. CASE Len(tx) # 1
          <5>1. Head(tx).op = "interrupt"
            BY <2>2, <4>1, <4>3 DEF AllInterrupts
          <5>2. AllStops(rx')
            BY <2>4, <4>1, <5>1
          <5>3. /\ tx'[Len(tx')] = [op |-> op', tag |-> tag']
                /\ AllInterrupts(tx', Len(tx') - 1)
            BY <2>1, <2>2, <4>1, <4>3 DEF AllInterrupts
          <5> QED BY <2>1, <3>2, <4>1, <5>2, <5>3 DEF StreamShape, AllStops, AllInterrupts
        <4> QED BY <4>2, <4>3
      <3>3. CASE stage = "reply"
        BY <1>0, <2>1, <3>3 DEF StreamShape
      <3> QED BY <1>0, <3>1, <3>2, <3>3 DEF TypeOK, Stages
    <2> QED BY <1>0, <2>1, <2>5 DEF Matched, ReplyMatches, StopMatches
  <1>18. ASSUME NEW b \in Bp, Hit(b)
         PROVE  StreamShape' /\ Matched
    <2>1. /\ rx' = Append(rx, Stop(b)) /\ Stop(b) \in Token /\ IsStop(Stop(b)) /\ b \in Cause
          /\ UNCHANGED <<link, tx, pending, op, stage, tag, ret>>
      BY <1>18, TokenFacts DEF Hit
    <2>2. AllStops(rx) => AllStops(rx')
      BY <1>t, <2>1, StopsLemma
    <2>3. \A k \in 1..Len(rx) : AnsweredAt(rx, k, op, tag) =>
            k \in 1..Len(rx') /\ AnsweredAt(rx', k, op', tag')
      BY <1>t, <2>1, AnsweredAppend DEF AnsweredAt
    <2>4. stage = "reply" => rx' # <<>> /\ rx'[1] = Reply(tag) /\ AllStops(Tail(rx'))
      <3> SUFFICES ASSUME stage = "reply"
                   PROVE  rx' # <<>> /\ rx'[1] = Reply(tag) /\ AllStops(Tail(rx'))
        OBVIOUS
      <3>1. rx # <<>> /\ rx[1] = Reply(tag) /\ AllStops(Tail(rx))
        BY <1>0 DEF StreamShape
      <3>2. /\ Len(rx) >= 1 /\ Len(rx') = Len(rx) + 1 /\ rx'[Len(rx) + 1] = Stop(b)
            /\ \A i \in 1..Len(rx) : rx'[i] = rx[i]
            /\ rx' \in Seq(Token)
        BY <1>t, <2>1, <3>1
      <3>3. \A i \in 2..Len(rx) : IsStop(rx[i])
        <4> SUFFICES ASSUME NEW i \in 2..Len(rx) PROVE IsStop(rx[i])
          OBVIOUS
        <4>1. i - 1 \in 1..Len(Tail(rx)) /\ Tail(rx)[i - 1] = rx[i]
          BY <1>t, <3>1
        <4> QED BY <3>1, <4>1 DEF AllStops
      <3>4. \A i \in 2..Len(rx') : IsStop(rx'[i])
        BY <2>1, <3>2, <3>3
      <3>5. rx' # <<>> /\ \A i \in 1..Len(Tail(rx')) : Tail(rx')[i] = rx'[i + 1] /\ i + 1 \in 2..Len(rx')
        BY <3>2
      <3>6. rx'[1] = Reply(tag) /\ AllStops(Tail(rx'))
        BY <3>1, <3>2, <3>4, <3>5 DEF AllStops
      <3> QED BY <3>5, <3>6
    <2>5. StreamShape'
      BY <1>0, <2>1, <2>2, <2>3, <2>4 DEF StreamShape, AllStops, AllInterrupts
    <2> QED BY <1>0, <2>1, <2>5 DEF Matched, ReplyMatches, StopMatches
  <1>19. CASE Vanish \/ Launch \/ Stall
    <2>1. /\ UNCHANGED <<rx, pending, op, stage, tag, ret>>
          /\ tx' = <<>> \/ (tx' = tx /\ link' = link)
      BY <1>0, <1>19 DEF Vanish, Launch, Stall
    <2>2. AllInterrupts(<<>>, Len(<<>>))
      BY EmptyShapeLemma DEF EmptyShape
    <2>3. StreamShape'
      BY <1>0, <2>1, <2>2 DEF StreamShape, AllStops, AllInterrupts
    <2> QED BY <1>0, <2>1, <2>3 DEF Matched, ReplyMatches, StopMatches
  <1>20. CASE AckLost
    <2>1. stage \in {"ack", "reply", "stop"} /\ Raise(op, "lost", rx) /\ UNCHANGED <<pending, stubVars>>
      BY <1>20 DEF AckLost
    <2>2. StreamShape' /\ ret'.out # "value"
      BY <1>0, <1>i, <2>1, EmptyShapeLemma DEF Raise, Return, LinkDown, StreamShape, EmptyShape
    <2> QED BY <1>0, <2>1, <2>2, NoValue
  <1> QED
    BY <1>1, <1>2, <1>3, <1>4, <1>5, <1>6, <1>7, <1>8, <1>9, <1>10, <1>11, <1>12,
       <1>13, <1>14, <1>15, <1>16, <1>17, <1>18, <1>19, <1>20
       DEF Next, Begin, Read, Stub, SendFails, InterruptFails

\* A late timeout raises: it takes nothing from the stream and returns nothing.
LEMMA LateIsMatched ==
  ASSUME LateTimeout
  PROVE  Matched
  <1>1. pending' = pending /\ Raise(op, "timeout", rx)
    BY DEF LateTimeout, Timeout
  <1>2. PICK res \in {"false", "ok", "timeout"} : Return(op, res, Ack)
    BY <1>1 DEF Raise
  <1>3. ret'.out # "value"
    BY <1>2 DEF Return
  <1> QED BY <1>1, <1>3, NoValue

\* What a stream in shape is after one step, stuttering included.
LEMMA InStepOrLate ==
  ASSUME TypeOK, TypeOK', StreamShape, [Next]_vars
  PROVE  Matched /\ (StreamShape' \/ LateTimeout)
  <1>1. CASE LateTimeout
    BY <1>1, LateIsMatched
  <1>2. CASE Next /\ ~LateTimeout
    BY <1>2, InStepNext
  <1>3. CASE UNCHANGED vars
    BY <1>3
       DEF vars, clientVars, stubVars, Matched, StreamShape, ReplyMatches, StopMatches,
           AllStops, AllInterrupts
  <1> QED BY <1>1, <1>2, <1>3

\* Only connect opens a link, and it starts with nothing to read and nothing sent.
LEMMA ANewLinkIsInStep ==
  ASSUME [Next]_vars, link # "up", link' = "up"
  PROVE  StreamShape'
  <1> USE DEF stubVars, clientVars
  <1>1. CASE Connect
    <2>1. rx' = <<>> /\ tx' = <<>> /\ stage' = "idle"
      BY <1>1 DEF Connect, Return
    <2> QED BY <2>1, EmptyShapeLemma
            DEF EmptyShape, StreamShape, AllStops, AllInterrupts
  <1>2. ASSUME Begin, ~Connect PROVE link' # "up"
    BY <1>2 DEF Begin, ConnectRefused, Close, LinkDown, Send, SendFails, Raise,
                Interrupt, InterruptFails, Wait, Drain, DrainPending
  <1>3. ASSUME Read PROVE link' # "up"
    BY <1>3 DEF Read, AckPlus, AckOob, AckNak, ReadReply, TakePending, TakeWire,
                DrainWire, DrainDone, Timeout, Lost, LostOpen, AckLost, Raise, LinkDown
  <1>4. ASSUME Stub PROVE link' # "up"
    BY <1>4 DEF Stub, Serve, ServeNot, Serving, Hit, Stall, Vanish, Launch
  <1>5. ASSUME UNCHANGED vars PROVE link' # "up"
    BY <1>5 DEF vars
  <1> QED BY <1>1, <1>2, <1>3, <1>4, <1>5 DEF Next

\* The stream and the caller get out of step in one way only, whatever the stub
\* does: an ack is given up on that the stub is still to send.  As long as that
\* has not happened, every step returns to its caller what it asked for, and a
\* new connection is in step whatever happened on the one before.
THEOREM OutOfStepOneWay ==
  Spec => [][ /\ StreamShape => Matched /\ (StreamShape' \/ LateTimeout)
              /\ link # "up" /\ link' = "up" => StreamShape' ]_vars
  <1> DEFINE OneWay == StreamShape => Matched /\ (StreamShape' \/ LateTimeout)
             Anew == link # "up" /\ link' = "up" => StreamShape'
  <1>1. TypeOK /\ TypeOK' /\ [Next]_vars => [OneWay /\ Anew]_vars
    <2> SUFFICES ASSUME TypeOK, TypeOK', [Next]_vars PROVE OneWay /\ Anew
      OBVIOUS
    <2>1. OneWay
      BY InStepOrLate
    <2>2. Anew
      BY ANewLinkIsInStep
    <2> QED BY <2>1, <2>2
  <1> QED BY <1>1, TypeCorrect, PTL DEF Spec

\* What holds of a stream in shape and of the results taken from it.
InStep == StreamShape /\ ReplyMatches /\ StopMatches

\* Until an ack is given up on that is still to come, cmd() returns its own
\* reply, wait_for_stop and step return stop replies, and an acknowledged
\* command has every earlier interrupt behind it (StreamShape) - for any number
\* of breakpoints, requests and queued packets, with stalls, dropped interrupts,
\* NAKs, reads that time out for a stop or a reply, lost connections and relaunches.
THEOREM InStepUntilLate ==
  Spec /\ [][~LateTimeout]_vars => [](StreamShape /\ ReplyMatches /\ StopMatches)
  <1>1. Init => InStep
    BY DEF Init, InStep, StreamShape, AllStops, AllInterrupts, ReplyMatches, StopMatches
  <1>2. TypeOK /\ TypeOK' /\ InStep /\ [Next]_vars /\ [~LateTimeout]_vars => InStep'
    <2> SUFFICES ASSUME TypeOK, TypeOK', InStep, [Next]_vars, [~LateTimeout]_vars
                 PROVE  InStep'
      OBVIOUS
    <2>1. Matched /\ (StreamShape' \/ LateTimeout)
      BY InStepOrLate DEF InStep
    <2>2. StreamShape'
      <3>1. CASE ~LateTimeout
        BY <2>1, <3>1
      <3>2. CASE UNCHANGED vars
        BY <3>2 DEF InStep, vars, clientVars, stubVars, StreamShape, AllStops, AllInterrupts
      <3> QED BY <3>1, <3>2
    <2> QED BY <2>1, <2>2 DEF InStep, Matched
  <1>3. InStep => StreamShape /\ ReplyMatches /\ StopMatches
    BY DEF InStep
  <1> QED BY <1>1, <1>2, <1>3, TypeCorrect, PTL DEF Spec

\* A stub that does not stall sends every ack in time.
LEMMA NoStallNoLate ==
  ASSUME MayStall = FALSE
  PROVE  Spec => [][~LateTimeout]_vars
  <1>1. Init => ~stalled
    BY DEF Init
  <1>2. ~stalled /\ [Next]_vars => ~stalled'
    <2> SUFFICES ASSUME ~stalled, [Next]_vars PROVE ~stalled'
      OBVIOUS
    <2> USE DEF stubVars
    <2>1. CASE Begin
      BY <2>1 DEF Begin, Connect, ConnectRefused, Close, Send, SendFails,
                  Interrupt, InterruptFails, Wait, Drain, DrainPending
    <2>2. CASE Read
      BY <2>2 DEF Read, AckPlus, AckOob, AckNak, ReadReply, TakePending, TakeWire,
                  DrainWire, DrainDone, Timeout, Lost, LostOpen, AckLost
    <2>3. CASE Stub
      BY <2>3 DEF Stub, Serve, ServeNot, Hit, Stall, Vanish, Launch
    <2>4. CASE UNCHANGED vars
      BY <2>4 DEF vars
    <2> QED BY <2>1, <2>2, <2>3, <2>4 DEF Next
  <1>3. ~stalled => ~LateTimeout
    BY DEF LateTimeout, Timeout
  <1> QED BY <1>1, <1>2, <1>3, PTL DEF Spec

\* While the stub answers within the client's timeouts, cmd() returns its own
\* reply, wait_for_stop and step return stop replies, and an acknowledged
\* command has every earlier interrupt behind it (StreamShape) - for any number
\* of breakpoints, requests and queued packets, with dropped interrupts, NAKs,
\* lost connections and relaunches.
THEOREM PacketsReachTheirCaller ==
  ASSUME MayStall = FALSE
  PROVE  Spec => [](StreamShape /\ ReplyMatches /\ StopMatches)
  BY NoStallNoLate, InStepUntilLate, PTL
=============================================================================
