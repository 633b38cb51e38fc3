--------------------------- MODULE RefinementProofs ---------------------------
(***************************************************************************)
(* GdbClient implements StopStream: seen through what is buffered and what *)
(* is still to be read, every step of client and stub is a step of the     *)
(* stream of stop replies, or none, as long as no ack is given up on that  *)
(* the stub is still to send.                                              *)
(***************************************************************************)
EXTENDS GdbClientProofs, SequenceTheorems

-----------------------------------------------------------------------------
(* Sequences of tokens                                                     *)

\* Part of a sequence of tokens is one, token by token.
LEMMA PartFacts ==
  ASSUME NEW s \in Seq(Token), NEW m \in 1..(Len(s) + 1), NEW n \in 0..Len(s)
  PROVE  /\ SubSeq(s, m, n) \in Seq(Token)
         /\ Len(SubSeq(s, m, n)) = IF m <= n THEN n - m + 1 ELSE 0
         /\ \A i \in 1..(n - m + 1) : SubSeq(s, m, n)[i] = s[m + i - 1]
  <1>1. Len(s) \in Nat
    BY LenProperties
  <1>2. \A i \in m..n : s[i] \in Token
    BY <1>1, ElementOfSeq
  <1>3. m \in Int /\ n \in Int
    BY <1>1
  <1> QED BY <1>2, <1>3, SubSeqProperties

\* The causes of the stops taken, left and appended.
LEMMA CausesFacts ==
  ASSUME NEW s \in Seq(Token)
  PROVE  /\ Len(Causes(s)) = Len(s) /\ Len(s) \in Nat
         /\ \A k \in Token : Causes(Append(s, k)) = Append(Causes(s), k.why)
         /\ \A m \in 1..(Len(s) + 1), n \in 0..Len(s) :
              Causes(SubSeq(s, m, n)) = SubSeq(Causes(s), m, n)
  <1> DEFINE W == {k.why : k \in Token}
  <1>1. ASSUME NEW t \in Seq(Token)
        PROVE  /\ Causes(t) \in Seq(W) /\ Len(Causes(t)) = Len(t) /\ Len(t) \in Nat
               /\ \A i \in 1..Len(t) : Causes(t)[i] = t[i].why
    <2>1. Len(t) \in Nat /\ \A i \in 1..Len(t) : t[i] \in Token
      BY LenProperties, ElementOfSeq
    <2>2. \A i \in 1..Len(t) : t[i].why \in W
      BY <2>1
    <2> HIDE DEF W
    <2> QED BY <2>1, <2>2 DEF Causes
  <1>2. ASSUME NEW k \in Token PROVE Causes(Append(s, k)) = Append(Causes(s), k.why)
    <2> DEFINE t == Append(s, k)
               u == Append(Causes(s), k.why)
    <2>1. /\ t \in Seq(Token) /\ Len(t) = Len(s) + 1 /\ t[Len(s) + 1] = k
          /\ \A i \in 1..Len(s) : t[i] = s[i]
      BY AppendProperties
    <2>2. k.why \in W
      OBVIOUS
    <2> HIDE DEF W
    <2>3. /\ u \in Seq(W) /\ Len(u) = Len(s) + 1 /\ u[Len(s) + 1] = k.why
          /\ \A i \in 1..Len(s) : u[i] = Causes(s)[i]
      BY <1>1, <2>2, AppendProperties
    <2> HIDE DEF t, u
    <2>4. /\ Causes(t) \in Seq(W) /\ Len(Causes(t)) = Len(s) + 1
          /\ \A i \in 1..(Len(s) + 1) : Causes(t)[i] = t[i].why
      BY <1>1, <2>1
    <2>5. ASSUME NEW i \in 1..(Len(s) + 1) PROVE Causes(t)[i] = u[i]
      <3>1. CASE i = Len(s) + 1
        BY <2>1, <2>3, <2>4, <3>1
      <3>2. CASE i \in 1..Len(s)
        BY <1>1, <2>1, <2>3, <2>4, <3>2
      <3> QED BY <1>1, <3>1, <3>2
    <2>6. Causes(t) = u
      BY <2>3, <2>4, <2>5, SeqEqual
    <2> QED BY <2>6 DEF t, u
  <1>3. ASSUME NEW m \in 1..(Len(s) + 1), NEW n \in 0..Len(s)
        PROVE  Causes(SubSeq(s, m, n)) = SubSeq(Causes(s), m, n)
    <2> DEFINE t == SubSeq(s, m, n)
               u == SubSeq(Causes(s), m, n)
    <2>1. /\ t \in Seq(Token) /\ Len(t) = IF m <= n THEN n - m + 1 ELSE 0
          /\ \A i \in 1..(n - m + 1) : t[i] = s[m + i - 1]
      BY PartFacts
    <2>2. /\ Causes(s) \in Seq(W) /\ Len(Causes(s)) = Len(s) /\ Len(s) \in Nat
          /\ \A i \in 1..Len(s) : Causes(s)[i] = s[i].why
      BY <1>1
    <2> HIDE DEF W
    <2>3. /\ u \in Seq(W) /\ Len(u) = IF m <= n THEN n - m + 1 ELSE 0
          /\ \A i \in 1..(n - m + 1) : u[i] = Causes(s)[m + i - 1]
      <3>1. \A i \in m..n : Causes(s)[i] \in W
        BY <2>2, ElementOfSeq
      <3>2. m \in Int /\ n \in Int
        BY <2>2
      <3> QED BY <3>1, <3>2, SubSeqProperties
    <2> HIDE DEF t, u
    <2>4. /\ Causes(t) \in Seq(W) /\ Len(Causes(t)) = Len(t)
          /\ \A i \in 1..Len(t) : Causes(t)[i] = t[i].why
      BY <1>1, <2>1
    <2>5. ASSUME NEW i \in 1..Len(t) PROVE Causes(t)[i] = u[i]
      <3>1. i \in 1..(n - m + 1) /\ m + i - 1 \in 1..Len(s)
        BY <2>1, <2>2
      <3> QED BY <2>1, <2>2, <2>3, <2>4, <3>1
    <2>6. Causes(t) = u
      BY <2>1, <2>3, <2>4, <2>5, SeqEqual
    <2> QED BY <2>6 DEF t, u
  <1> QED BY <1>1, <1>2, <1>3

\* Moving the first token of the second part to the first changes nothing; the
\* two parts, and what is left when the first token is gone, are parts of the whole.
LEMMA JoinFacts ==
  ASSUME NEW p \in Seq(Token), NEW c \in Seq(Token)
  PROVE  /\ p \o c \in Seq(Token) /\ Len(p \o c) = Len(p) + Len(c)
         /\ Len(p) \in Nat /\ Len(c) \in Nat
         /\ c # <<>> => Append(p, Head(c)) \o Tail(c) = p \o c
         /\ \A k \in Token : p \o Append(c, k) = Append(p \o c, k)
         /\ <<>> \o c = SubSeq(p \o c, Len(p) + 1, Len(p \o c))
         /\ p \o <<>> = SubSeq(p \o c, 1, Len(p))
         /\ p # <<>> => Tail(p) \o c = SubSeq(p \o c, 2, Len(p \o c))
         /\ c # <<>> => <<>> \o Tail(c) = SubSeq(<<>> \o c, 2, Len(<<>> \o c))
  <1> DEFINE z == p \o c
  <1>1. /\ z \in Seq(Token) /\ Len(z) = Len(p) + Len(c) /\ Len(p) \in Nat /\ Len(c) \in Nat
        /\ \A i \in 1..(Len(p) + Len(c)) : z[i] = IF i <= Len(p) THEN p[i] ELSE c[i - Len(p)]
    BY ConcatProperties, LenProperties
  <1>2. ASSUME c # <<>> PROVE Append(p, Head(c)) \o Tail(c) = z
    <2>1. Head(c) \in Token /\ Tail(c) \in Seq(Token) /\ c = <<Head(c)>> \o Tail(c)
      BY <1>2, HeadTailProperties
    <2>2. Append(p, Head(c)) = p \o <<Head(c)>> /\ <<Head(c)>> \in Seq(Token)
      BY <2>1
    <2> QED BY <2>1, <2>2, ConcatAssociative
  <1>3. ASSUME NEW k \in Token PROVE p \o Append(c, k) = Append(z, k)
    <2>1. /\ Append(c, k) = c \o <<k>> /\ Append(z, k) = z \o <<k>> /\ <<k>> \in Seq(Token)
      BY <1>1
    <2> QED BY <2>1, ConcatAssociative
  <1>4. <<>> \o c = c /\ p \o <<>> = p
    BY ConcatEmptySeq
  <1> HIDE DEF z
  <1>5. SubSeq(z, Len(p) + 1, Len(z)) = c
    <2> DEFINE u == SubSeq(z, Len(p) + 1, Len(z))
    <2>1. /\ u \in Seq(Token) /\ Len(u) = IF Len(p) + 1 <= Len(z) THEN Len(z) - Len(p) ELSE 0
          /\ \A i \in 1..(Len(z) - Len(p)) : u[i] = z[Len(p) + i]
      <3>1. Len(p) + 1 \in 1..(Len(z) + 1) /\ Len(z) \in 0..Len(z)
        BY <1>1
      <3> QED BY <1>1, <3>1, PartFacts
    <2> HIDE DEF u
    <2>2. Len(u) = Len(c)
      BY <1>1, <2>1
    <2>3. ASSUME NEW i \in 1..Len(c) PROVE u[i] = c[i]
      <3>1. Len(p) + i \in 1..(Len(p) + Len(c)) /\ ~(Len(p) + i <= Len(p))
            /\ (Len(p) + i) - Len(p) = i /\ i \in 1..(Len(z) - Len(p))
        BY <1>1
      <3> QED BY <1>1, <2>1, <3>1
    <2>4. u = c
      BY <2>1, <2>2, <2>3, SeqEqual
    <2> QED BY <2>4 DEF u
  <1>6. SubSeq(z, 1, Len(p)) = p
    <2> DEFINE u == SubSeq(z, 1, Len(p))
    <2>1. /\ u \in Seq(Token) /\ Len(u) = IF 1 <= Len(p) THEN Len(p) ELSE 0
          /\ \A i \in 1..Len(p) : u[i] = z[i]
      <3>1. 1 \in 1..(Len(z) + 1) /\ Len(p) \in 0..Len(z)
        BY <1>1
      <3> QED BY <1>1, <3>1, PartFacts
    <2> HIDE DEF u
    <2>2. u = p
      BY <1>1, <2>1, SeqEqual
    <2> QED BY <2>2 DEF u
  <1>7. ASSUME p # <<>> PROVE Tail(p) \o c = SubSeq(z, 2, Len(z))
    <2>1. Head(p) \in Token /\ Tail(p) \in Seq(Token) /\ p = <<Head(p)>> \o Tail(p)
      BY <1>7, HeadTailProperties
    <2>2. z = <<Head(p)>> \o (Tail(p) \o c) /\ Tail(p) \o c \in Seq(Token)
      BY <2>1, ConcatAssociative, ConcatProperties DEF z
    <2>3. z # <<>> /\ Tail(z) = Tail(p) \o c
      BY <2>1, <2>2
    <2> QED BY <1>1, <2>3, TailIsSubSeq
  <1>8. ASSUME c # <<>> PROVE <<>> \o Tail(c) = SubSeq(<<>> \o c, 2, Len(<<>> \o c))
    <2>1. Tail(c) \in Seq(Token) /\ Tail(c) = SubSeq(c, 2, Len(c))
      BY <1>8, HeadTailProperties, TailIsSubSeq
    <2>2. <<>> \o Tail(c) = Tail(c)
      BY <2>1, ConcatEmptySeq
    <2> QED BY <1>4, <2>1, <2>2
  <1> QED BY <1>1, <1>2, <1>3, <1>4, <1>5, <1>6, <1>7, <1>8 DEF z

-----------------------------------------------------------------------------
(* The stop replies of the input                                           *)

\* All of s but i..j are stops, and i..j begins and ends with something else.
IsCut(s, i, j) ==
  /\ i \in 1..Len(s) /\ j \in i..Len(s)
  /\ ~IsStop(s[i]) /\ ~IsStop(s[j])
  /\ \A m \in 1..(i - 1) : IsStop(s[m])
  /\ \A m \in (j + 1)..Len(s) : IsStop(s[m])

\* Stops cuts out what lies at i..j.
LEMMA CutFacts ==
  ASSUME NEW s \in Seq(Token), NEW i \in Nat, NEW j \in Nat, IsCut(s, i, j)
  PROVE  /\ Stops(s) \in Seq(Token)
         /\ Len(Stops(s)) = Len(s) - (j - i + 1)
         /\ \A m \in 1..Len(Stops(s)) :
              Stops(s)[m] = IF m < i THEN s[m] ELSE s[m + (j - i + 1)]
  <1>0. Len(s) \in Nat
    BY LenProperties
  <1>1. ~AllStops(s)
    BY DEF AllStops, IsCut
  <1>2. FirstOwn(s) = i
    <2>1. /\ i \in 1..Len(s) /\ ~IsStop(s[i]) /\ \A m \in 1..(i - 1) : IsStop(s[m])
      BY DEF IsCut
    <2>2. ASSUME NEW f \in 1..Len(s), ~IsStop(s[f]), \A m \in 1..(f - 1) : IsStop(s[m])
          PROVE  f = i
      <3>1. ~(f < i)
        BY <1>0, <2>1, <2>2
      <3>2. ~(i < f)
        BY <1>0, <2>1, <2>2
      <3> QED BY <1>0, <2>1, <3>1, <3>2
    <2> QED BY <2>1, <2>2 DEF FirstOwn
  <1>3. LastOwn(s) = j
    <2>1. /\ j \in 1..Len(s) /\ ~IsStop(s[j]) /\ \A m \in (j + 1)..Len(s) : IsStop(s[m])
      BY <1>0 DEF IsCut
    <2>2. ASSUME NEW l \in 1..Len(s), ~IsStop(s[l]), \A m \in (l + 1)..Len(s) : IsStop(s[m])
          PROVE  l = j
      <3>1. ~(l < j)
        BY <1>0, <2>1, <2>2
      <3>2. ~(j < l)
        BY <1>0, <2>1, <2>2
      <3> QED BY <1>0, <2>1, <3>1, <3>2
    <2> QED BY <2>1, <2>2 DEF LastOwn
  <1> DEFINE a == SubSeq(s, 1, i - 1)
             b == SubSeq(s, j + 1, Len(s))
  <1>4. Stops(s) = a \o b
    BY <1>1, <1>2, <1>3 DEF Stops
  <1>5. 1 <= i /\ i <= j /\ j <= Len(s)
    BY <1>0 DEF IsCut
  <1>6. /\ a \in Seq(Token) /\ Len(a) = i - 1
        /\ \A m \in 1..(i - 1) : a[m] = s[m]
    <2>1. 1 \in 1..(Len(s) + 1) /\ i - 1 \in 0..Len(s)
      BY <1>0, <1>5
    <2>2. /\ a \in Seq(Token) /\ Len(a) = IF 1 <= i - 1 THEN (i - 1) - 1 + 1 ELSE 0
          /\ \A m \in 1..((i - 1) - 1 + 1) : a[m] = s[1 + m - 1]
      BY <2>1, PartFacts
    <2> HIDE DEF a
    <2>3. Len(a) = i - 1
      BY <1>5, <2>2
    <2>4. ASSUME NEW m \in 1..(i - 1) PROVE a[m] = s[m]
      <3>1. m \in 1..((i - 1) - 1 + 1) /\ 1 + m - 1 = m
        OBVIOUS
      <3> QED BY <2>2, <3>1
    <2> QED BY <2>2, <2>3, <2>4
  <1>7. /\ b \in Seq(Token) /\ Len(b) = Len(s) - j
        /\ \A m \in 1..(Len(s) - j) : b[m] = s[m + j]
    <2>1. j + 1 \in 1..(Len(s) + 1) /\ Len(s) \in 0..Len(s)
      BY <1>0, <1>5
    <2>2. /\ b \in Seq(Token)
          /\ Len(b) = IF j + 1 <= Len(s) THEN Len(s) - (j + 1) + 1 ELSE 0
          /\ \A m \in 1..(Len(s) - (j + 1) + 1) : b[m] = s[(j + 1) + m - 1]
      BY <2>1, PartFacts
    <2> HIDE DEF b
    <2>3. Len(b) = Len(s) - j
      BY <1>0, <1>5, <2>2
    <2>4. ASSUME NEW m \in 1..(Len(s) - j) PROVE b[m] = s[m + j]
      <3>1. m \in 1..(Len(s) - (j + 1) + 1) /\ (j + 1) + m - 1 = m + j
        BY <1>0
      <3> QED BY <2>2, <3>1
    <2> QED BY <2>2, <2>3, <2>4
  <1> DEFINE z == Stops(s)
  <1> HIDE DEF a, b, z
  <1>8. /\ z \in Seq(Token) /\ Len(z) = Len(a) + Len(b)
        /\ \A m \in 1..(Len(a) + Len(b)) : z[m] = IF m <= Len(a) THEN a[m] ELSE b[m - Len(a)]
    <2>1. z = a \o b
      BY <1>4 DEF z
    <2> QED BY <1>6, <1>7, <2>1, ConcatProperties
  <1>9. Len(z) = Len(s) - (j - i + 1)
    BY <1>0, <1>6, <1>7, <1>8
  <1>10. ASSUME NEW m \in 1..Len(z)
         PROVE  z[m] = IF m < i THEN s[m] ELSE s[m + (j - i + 1)]
    <2>1. CASE m < i
      <3>1. m \in 1..(i - 1) /\ m <= Len(a)
        BY <1>6, <2>1
      <3> QED BY <1>6, <1>8, <2>1, <3>1
    <2>2. CASE ~(m < i)
      <3>1. m - (i - 1) \in 1..(Len(s) - j) /\ (m - (i - 1)) + j = m + (j - i + 1)
            /\ ~(m <= Len(a)) /\ m - Len(a) = m - (i - 1)
        BY <1>0, <1>5, <1>6, <1>9, <2>2
      <3> QED BY <1>7, <1>8, <2>2, <3>1
    <2> QED BY <2>1, <2>2
  <1> QED BY <1>8, <1>9, <1>10 DEF z

\* The input is a sequence of stops, or what is not a stop can be cut out.
Shaped(s) == AllStops(s) \/ \E i \in Nat, j \in Nat : IsCut(s, i, j)

\* The stops of an input of that shape are a sequence of tokens.
LEMMA ShapedStops ==
  ASSUME NEW s \in Seq(Token), Shaped(s)
  PROVE  Stops(s) \in Seq(Token)
  BY CutFacts DEF Shaped, Stops

\* A late stop is the last of the stops.
LEMMA LateStop ==
  ASSUME NEW s \in Seq(Token), Shaped(s), NEW w \in Cause
  PROVE  Stops(Append(s, Stop(w))) = Append(Stops(s), Stop(w))
  <1> DEFINE k == Stop(w)
             t == Append(s, k)
  <1>1. k \in Token /\ IsStop(k) /\ Len(s) \in Nat
    BY TokenFacts, LenProperties
  <1> HIDE DEF k
  <1>2. /\ t \in Seq(Token) /\ Len(t) = Len(s) + 1 /\ t[Len(s) + 1] = k
        /\ \A m \in 1..Len(s) : t[m] = s[m]
    BY <1>1, AppendProperties
  <1> HIDE DEF t
  <1>3. CASE AllStops(s)
    <2>1. AllStops(t)
      BY <1>1, <1>2, <1>3 DEF AllStops
    <2> QED BY <1>3, <2>1 DEF Stops, t, k
  <1>4. ASSUME NEW i \in Nat, NEW j \in Nat, IsCut(s, i, j)
        PROVE  Stops(t) = Append(Stops(s), k)
    <2>1. 1 <= i /\ i <= j /\ j <= Len(s)
      BY <1>1, <1>4 DEF IsCut
    <2>2. IsCut(t, i, j)
      <3>1. i \in 1..Len(t) /\ j \in i..Len(t) /\ i \in 1..Len(s) /\ j \in 1..Len(s)
        BY <1>1, <1>2, <2>1
      <3>2. ~IsStop(t[i]) /\ ~IsStop(t[j])
        BY <1>2, <1>4, <3>1 DEF IsCut
      <3>3. \A m \in 1..(i - 1) : IsStop(t[m])
        BY <1>1, <1>2, <1>4, <2>1 DEF IsCut
      <3>4. ASSUME NEW m \in (j + 1)..Len(t) PROVE IsStop(t[m])
        <4>1. CASE m = Len(s) + 1
          BY <1>1, <1>2, <4>1
        <4>2. CASE m # Len(s) + 1
          <5>1. m \in (j + 1)..Len(s) /\ m \in 1..Len(s)
            BY <1>1, <1>2, <2>1, <4>2
          <5> QED BY <1>2, <1>4, <5>1 DEF IsCut
        <4> QED BY <4>1, <4>2
      <3> QED BY <3>1, <3>2, <3>3, <3>4 DEF IsCut
    <2> DEFINE y == Stops(s)
               z == Stops(t)
               d == j - i + 1
               u == Append(y, k)
    <2>3. /\ y \in Seq(Token) /\ Len(y) = Len(s) - d
          /\ \A m \in 1..Len(y) : y[m] = IF m < i THEN s[m] ELSE s[m + d]
      BY <1>4, CutFacts
    <2>4. /\ z \in Seq(Token) /\ Len(z) = Len(t) - d
          /\ \A m \in 1..Len(z) : z[m] = IF m < i THEN t[m] ELSE t[m + d]
      BY <1>2, <2>2, CutFacts
    <2>5. d \in Nat /\ i - 1 <= Len(s) - d /\ d >= 1
      BY <1>1, <2>1
    <2> HIDE DEF y, z, d
    <2>6. /\ u \in Seq(Token) /\ Len(u) = Len(y) + 1 /\ u[Len(y) + 1] = k
          /\ \A m \in 1..Len(y) : u[m] = y[m]
      BY <1>1, <2>3, AppendProperties
    <2> HIDE DEF u
    <2>7. Len(z) = Len(u)
      BY <1>1, <1>2, <2>3, <2>4, <2>5, <2>6
    <2>8. ASSUME NEW m \in 1..Len(z) PROVE z[m] = u[m]
      <3>1. CASE m = Len(y) + 1
        <4>1. ~(m < i) /\ m + d = Len(s) + 1
          BY <1>1, <2>1, <2>3, <2>5, <3>1
        <4> QED BY <1>2, <2>4, <2>6, <3>1, <4>1
      <3>2. CASE m # Len(y) + 1
        <4>1. m \in 1..Len(y) /\ (m < i => m \in 1..Len(s)) /\ (~(m < i) => m + d \in 1..Len(s))
          BY <1>1, <1>2, <2>1, <2>3, <2>4, <2>5, <3>2
        <4> QED BY <1>2, <2>3, <2>4, <2>6, <4>1
      <3> QED BY <3>1, <3>2
    <2>9. z = u
      BY <2>4, <2>6, <2>7, <2>8, SeqEqual
    <2> QED BY <2>9 DEF u, y, z
  <1> QED BY <1>3, <1>4 DEF Shaped, t, k

\* Reading a stop from the front takes it from the front of the stops.
LEMMA FrontStop ==
  ASSUME NEW s \in Seq(Token), Shaped(s), s # <<>>, IsStop(Head(s))
  PROVE  /\ Stops(s) \in Seq(Token) /\ Stops(s) # <<>>
         /\ Head(Stops(s)) = Head(s) /\ Tail(Stops(s)) = Stops(Tail(s))
  <1>1. /\ Len(s) \in Nat /\ Len(s) >= 1 /\ Head(s) = s[1] /\ Tail(s) \in Seq(Token)
        /\ Len(Tail(s)) = Len(s) - 1
        /\ \A m \in 1..(Len(s) - 1) : Tail(s)[m] = s[m + 1]
    OBVIOUS
  <1>2. CASE AllStops(s)
    <2>1. AllStops(Tail(s))
      BY <1>1, <1>2 DEF AllStops
    <2> QED BY <1>2, <2>1 DEF Stops
  <1>3. ASSUME NEW i \in Nat, NEW j \in Nat, IsCut(s, i, j)
        PROVE  /\ Stops(s) \in Seq(Token) /\ Stops(s) # <<>>
               /\ Head(Stops(s)) = Head(s) /\ Tail(Stops(s)) = Stops(Tail(s))
    <2> DEFINE t == Tail(s)
               y == Stops(s)
               z == Stops(t)
               d == j - i + 1
    <2>1. 2 <= i /\ i <= j /\ j <= Len(s)
      <3>1. i # 1 /\ i \in 1..Len(s) /\ j \in i..Len(s)
        BY <1>1, <1>3 DEF IsCut
      <3> QED BY <1>1, <3>1
    <2>2. /\ t \in Seq(Token) /\ Len(t) = Len(s) - 1
          /\ \A m \in 1..(Len(s) - 1) : t[m] = s[m + 1]
      BY <1>1
    <2> HIDE DEF t
    <2>3. IsCut(t, i - 1, j - 1) /\ i - 1 \in Nat /\ j - 1 \in Nat
      <3>1. /\ i - 1 \in 1..Len(t) /\ j - 1 \in (i - 1)..Len(t)
            /\ i - 1 \in 1..(Len(s) - 1) /\ j - 1 \in 1..(Len(s) - 1)
            /\ (i - 1) + 1 = i /\ (j - 1) + 1 = j
        BY <1>1, <2>1, <2>2
      <3>2. ~IsStop(t[i - 1]) /\ ~IsStop(t[j - 1])
        BY <1>3, <2>2, <3>1 DEF IsCut
      <3>3. ASSUME NEW m \in 1..((i - 1) - 1) PROVE IsStop(t[m])
        <4>1. m + 1 \in 1..(i - 1) /\ m \in 1..(Len(s) - 1)
          BY <1>1, <2>1
        <4> QED BY <1>3, <2>2, <4>1 DEF IsCut
      <3>4. ASSUME NEW m \in ((j - 1) + 1)..Len(t) PROVE IsStop(t[m])
        <4>1. m + 1 \in (j + 1)..Len(s) /\ m \in 1..(Len(s) - 1)
          BY <1>1, <2>1, <2>2
        <4> QED BY <1>3, <2>2, <4>1 DEF IsCut
      <3> QED BY <3>1, <3>2, <3>3, <3>4 DEF IsCut
    <2>4. /\ y \in Seq(Token) /\ Len(y) = Len(s) - d
          /\ \A m \in 1..Len(y) : y[m] = IF m < i THEN s[m] ELSE s[m + d]
      BY <1>3, CutFacts
    <2>5. /\ z \in Seq(Token) /\ Len(z) = Len(t) - ((j - 1) - (i - 1) + 1)
          /\ \A m \in 1..Len(z) : z[m] = IF m < i - 1 THEN t[m]
                                                      ELSE t[m + ((j - 1) - (i - 1) + 1)]
      BY <2>2, <2>3, CutFacts
    <2>6. (j - 1) - (i - 1) + 1 = d /\ d \in Nat /\ d >= 1 /\ i - 1 <= Len(s) - d
      BY <1>1, <2>1
    <2> HIDE DEF y, z, d
    <2>7. Len(y) >= 1 /\ y # <<>>
      BY <1>1, <2>1, <2>4, <2>6
    <2>8. Head(y) = s[1]
      BY <2>1, <2>4, <2>7
    <2> DEFINE u == Tail(y)
    <2>9. /\ u \in Seq(Token) /\ Len(u) = Len(y) - 1
          /\ \A m \in 1..(Len(y) - 1) : u[m] = y[m + 1]
      BY <2>4, <2>7
    <2> HIDE DEF u
    <2>10. Len(u) = Len(z)
      <3>1. Len(z) = Len(t) - d
        BY <2>5, <2>6
      <3> QED BY <1>1, <2>2, <2>4, <2>6, <2>9, <3>1
    <2>11. ASSUME NEW m \in 1..Len(u) PROVE u[m] = z[m]
      <3>1. m \in 1..(Len(y) - 1) /\ m + 1 \in 1..Len(y) /\ m \in 1..Len(z)
        BY <2>4, <2>7, <2>9, <2>10
      <3>2. CASE m < i - 1
        <4>1. m + 1 < i /\ m \in 1..(Len(s) - 1)
          BY <1>1, <2>1, <3>2
        <4> QED BY <2>2, <2>4, <2>5, <2>9, <3>1, <3>2, <4>1
      <3>3. CASE ~(m < i - 1)
        <4>1. ~(m + 1 < i) /\ m + d \in 1..(Len(s) - 1) /\ (m + 1) + d = (m + d) + 1
          BY <1>1, <2>1, <2>4, <2>6, <3>1, <3>3
        <4>2. u[m] = s[(m + d) + 1]
          BY <2>4, <2>9, <3>1, <4>1
        <4>3. z[m] = t[m + d]
          BY <2>5, <2>6, <3>1, <3>3
        <4> QED BY <2>2, <4>1, <4>2, <4>3
      <3> QED BY <3>2, <3>3
    <2>12. u = z
      BY <2>5, <2>9, <2>10, <2>11, SeqEqual
    <2> QED BY <1>1, <2>4, <2>7, <2>8, <2>12 DEF u, y, z, t
  <1> QED BY <1>2, <1>3 DEF Shaped

\* Reading what the stub answered leaves the stops as they are.
LEMMA FrontOwn ==
  ASSUME NEW s \in Seq(Token), s # <<>>, NEW j \in {1, 2}, IsCut(s, 1, j)
  PROVE  /\ Stops(Tail(s)) = Stops(s)
         /\ j = 1 => Stops(s) = Tail(s)
         /\ Shaped(Tail(s))
  <1> DEFINE t == Tail(s)
             y == Stops(s)
             z == Stops(t)
  <1>1. /\ Len(s) \in Nat /\ Len(s) >= 1 /\ t \in Seq(Token) /\ Len(t) = Len(s) - 1
        /\ \A m \in 1..(Len(s) - 1) : t[m] = s[m + 1]
    OBVIOUS
  <1>2. /\ y \in Seq(Token) /\ Len(y) = Len(s) - (j - 1 + 1)
        /\ \A m \in 1..Len(y) : y[m] = IF m < 1 THEN s[m] ELSE s[m + (j - 1 + 1)]
    BY CutFacts
  <1>3. CASE j = 1
    <2>1. AllStops(t)
      BY <1>1, <1>3 DEF IsCut, AllStops
    <2> HIDE DEF t, y
    <2>2. Len(y) = Len(t) /\ \A m \in 1..Len(y) : y[m] = t[m]
      BY <1>1, <1>2, <1>3
    <2>3. y = t
      BY <1>1, <1>2, <2>2, SeqEqual
    <2> QED BY <2>1, <2>3 DEF Stops, Shaped, y, t
  <1>4. CASE j = 2
    <2>0. 2 <= Len(s) /\ ~IsStop(s[2]) /\ \A m \in 3..Len(s) : IsStop(s[m])
      BY <1>1, <1>4 DEF IsCut
    <2>1. IsCut(t, 1, 1)
      <3>1. 1 \in 1..Len(t) /\ 1 \in 1..(Len(s) - 1) /\ t[1] = s[2]
        BY <1>1, <2>0
      <3>2. ASSUME NEW m \in 2..Len(t) PROVE IsStop(t[m])
        <4>1. m \in 1..(Len(s) - 1) /\ m + 1 \in 3..Len(s)
          BY <1>1
        <4> QED BY <1>1, <2>0, <4>1
      <3> HIDE DEF t
      <3> QED BY <2>0, <3>1, <3>2 DEF IsCut
    <2> HIDE DEF t
    <2>2. /\ z \in Seq(Token) /\ Len(z) = Len(t) - (1 - 1 + 1)
          /\ \A m \in 1..Len(z) : z[m] = IF m < 1 THEN t[m] ELSE t[m + (1 - 1 + 1)]
      BY <1>1, <2>1, CutFacts
    <2> HIDE DEF y, z
    <2>3. Len(y) = Len(s) - 2 /\ Len(z) = Len(s) - 2
      BY <1>1, <1>2, <1>4, <2>2
    <2>4. ASSUME NEW m \in 1..Len(y) PROVE z[m] = y[m]
      <3>1. m + 1 \in 1..(Len(s) - 1) /\ ~(m < 1) /\ m \in 1..Len(z)
            /\ m + (1 - 1 + 1) = m + 1 /\ m + (j - 1 + 1) = (m + 1) + 1
        BY <1>1, <1>4, <2>3
      <3> QED BY <1>1, <1>2, <2>2, <3>1
    <2>5. z = y
      BY <1>2, <2>2, <2>3, <2>4, SeqEqual
    <2> QED BY <1>4, <2>1, <2>5 DEF Shaped, y, z, t
  <1> QED BY <1>3, <1>4

\* The answer to the outstanding command can be cut out.
LEMMA AnswerIsCut ==
  ASSUME NEW s \in Seq(Token), NEW k, NEW o, NEW n \in TagSet, AnsweredAt(s, k, o, n)
  PROVE  k \in Nat /\ \E j \in {k, k + 1} : IsCut(s, k, j)
  <1>1. k \in 1..Len(s) /\ Len(s) \in Nat /\ ~IsStop(s[k])
    BY TokenFacts, LenProperties DEF AnsweredAt
  <1>2. CASE s[k] = Ack /\ o \in Queries
    <2>1. k + 1 \in k..Len(s) /\ s[k + 1] = Reply(n)
      BY <1>1, <1>2 DEF AnsweredAt
    <2>2. ~IsStop(s[k + 1])
      BY <2>1, TokenFacts
    <2>3. \A i \in (1..Len(s)) \ {k, k + 1} : IsStop(s[i])
      BY <1>2 DEF AnsweredAt
    <2>4. IsCut(s, k, k + 1)
      BY <1>1, <2>1, <2>2, <2>3 DEF IsCut
    <2> QED BY <1>1, <2>4
  <1>3. CASE ~(s[k] = Ack /\ o \in Queries)
    <2>1. \A i \in (1..Len(s)) \ {k} : IsStop(s[i])
      BY <1>3 DEF AnsweredAt
    <2>2. IsCut(s, k, k)
      BY <1>1, <2>1 DEF IsCut
    <2> QED BY <1>1, <2>2
  <1> QED BY <1>2, <1>3

\* What is not a stop, put behind stops, can be cut out again.
LEMMA OwnLast ==
  ASSUME NEW s \in Seq(Token), AllStops(s), NEW k \in Token, ~IsStop(k)
  PROVE  /\ Shaped(Append(s, k)) /\ Stops(Append(s, k)) = s
         /\ \A l \in Token : ~IsStop(l) => Stops(Append(Append(s, k), l)) = s
  <1> DEFINE t == Append(s, k)
  <1>1. /\ Len(s) \in Nat /\ t \in Seq(Token) /\ Len(t) = Len(s) + 1 /\ t[Len(s) + 1] = k
        /\ \A m \in 1..Len(s) : t[m] = s[m]
    BY AppendProperties, LenProperties
  <1>2. \A m \in 1..Len(s) : IsStop(s[m])
    BY DEF AllStops
  <1> HIDE DEF t
  <1>3. IsCut(t, Len(s) + 1, Len(s) + 1)
    BY <1>1, <1>2 DEF IsCut
  <1>4. Stops(t) = s
    <2> DEFINE z == Stops(t)
    <2>1. /\ z \in Seq(Token) /\ Len(z) = Len(t) - ((Len(s) + 1) - (Len(s) + 1) + 1)
          /\ \A m \in 1..Len(z) :
               z[m] = IF m < Len(s) + 1 THEN t[m]
                      ELSE t[m + ((Len(s) + 1) - (Len(s) + 1) + 1)]
      BY <1>1, <1>3, CutFacts
    <2> HIDE DEF z
    <2>2. Len(z) = Len(s)
      BY <1>1, <2>1
    <2>3. \A m \in 1..Len(s) : z[m] = s[m]
      BY <1>1, <2>1, <2>2
    <2>4. z = s
      BY <2>1, <2>2, <2>3, SeqEqual
    <2> QED BY <2>4 DEF z
  <1>5. ASSUME NEW l \in Token, ~IsStop(l) PROVE Stops(Append(t, l)) = s
    <2> DEFINE u == Append(t, l)
               z == Stops(u)
    <2>1. /\ u \in Seq(Token) /\ Len(u) = Len(s) + 2 /\ u[Len(s) + 2] = l
          /\ u[Len(s) + 1] = k /\ \A m \in 1..Len(s) : u[m] = s[m]
      <3>1. /\ u \in Seq(Token) /\ Len(u) = Len(t) + 1 /\ u[Len(t) + 1] = l
            /\ \A m \in 1..Len(t) : u[m] = t[m]
        BY <1>1, AppendProperties
      <3> HIDE DEF u
      <3> QED BY <1>1, <3>1
    <2> HIDE DEF u
    <2>2. IsCut(u, Len(s) + 1, Len(s) + 2)
      BY <1>1, <1>2, <1>5, <2>1 DEF IsCut
    <2>3. /\ z \in Seq(Token) /\ Len(z) = Len(u) - ((Len(s) + 2) - (Len(s) + 1) + 1)
          /\ \A m \in 1..Len(z) :
               z[m] = IF m < Len(s) + 1 THEN u[m]
                      ELSE u[m + ((Len(s) + 2) - (Len(s) + 1) + 1)]
      <3>1. Len(s) + 1 \in Nat /\ Len(s) + 2 \in Nat
        BY <1>1
      <3> QED BY <2>1, <2>2, <3>1, CutFacts
    <2> HIDE DEF z
    <2>4. Len(z) = Len(s)
      BY <1>1, <2>1, <2>3
    <2>5. \A m \in 1..Len(s) : z[m] = s[m]
      BY <1>1, <2>1, <2>3, <2>4
    <2>6. z = s
      BY <2>3, <2>4, <2>5, SeqEqual
    <2> QED BY <2>6 DEF z, u
  <1>6. Shaped(t)
    BY <1>1, <1>3 DEF Shaped
  <1> QED BY <1>4, <1>5, <1>6 DEF t

\* The stub's answer to a command adds a stop to the stream only if it is a step.
LEMMA AnswerStops ==
  ASSUME NEW s \in Seq(Token), AllStops(s), NEW r \in Request, r.op # "interrupt"
  PROVE  /\ Stops(s \o Answer(r)) = IF r.op = "step" THEN Append(s, Stop("step")) ELSE s
         /\ Stops(Append(s, Nak)) = s
  <1>1. /\ Ack \in Token /\ Nak \in Token /\ ~IsStop(Ack) /\ ~IsStop(Nak)
        /\ Stop("step") \in Token /\ "step" \in Cause
        /\ Reply(r.tag) \in Token /\ ~IsStop(Reply(r.tag))
    <2>1. "step" \in Cause /\ r.tag \in TagSet
      BY DEF Cause, Request
    <2> QED BY <2>1, TokenFacts
  <1>2. ASSUME NEW k \in Token, NEW l \in Token
        PROVE  s \o <<k>> = Append(s, k) /\ s \o <<k, l>> = Append(Append(s, k), l)
    <2>1. s \o <<k>> = Append(s, k)
      OBVIOUS
    <2>2. s \o <<k, l>> = Append(Append(s, k), l)
      <3> DEFINE a == <<k, l>>
                 y == s \o a
                 z == Append(Append(s, k), l)
      <3>1. a \in Seq(Token) /\ Len(a) = 2 /\ a[1] = k /\ a[2] = l /\ Len(s) \in Nat
        BY LenProperties
      <3> HIDE DEF a
      <3>2. /\ y \in Seq(Token) /\ Len(y) = Len(s) + Len(a)
            /\ \A m \in 1..(Len(s) + Len(a)) : y[m] = IF m <= Len(s) THEN s[m] ELSE a[m - Len(s)]
        BY <3>1, ConcatProperties
      <3>3. /\ z \in Seq(Token) /\ Len(z) = Len(s) + 2 /\ z[Len(s) + 1] = k
            /\ z[Len(s) + 2] = l /\ \A m \in 1..Len(s) : z[m] = s[m]
        <4> DEFINE t == Append(s, k)
        <4>1. /\ t \in Seq(Token) /\ Len(t) = Len(s) + 1 /\ t[Len(s) + 1] = k
              /\ \A m \in 1..Len(s) : t[m] = s[m]
          BY AppendProperties
        <4> HIDE DEF t
        <4>2. /\ z = Append(t, l)
              /\ Append(t, l) \in Seq(Token) /\ Len(Append(t, l)) = Len(t) + 1
              /\ Append(t, l)[Len(t) + 1] = l
              /\ \A m \in 1..Len(t) : Append(t, l)[m] = t[m]
          <5>1. z = Append(t, l)
            BY DEF t
          <5> QED BY <4>1, <5>1, AppendProperties
        <4> HIDE DEF z
        <4> QED BY <3>1, <4>1, <4>2
      <3> HIDE DEF y, z
      <3>4. ASSUME NEW m \in 1..Len(y) PROVE y[m] = z[m]
        <4>1. CASE m <= Len(s)
          BY <3>1, <3>2, <3>3, <4>1
        <4>2. CASE m = Len(s) + 1
          BY <3>1, <3>2, <3>3, <4>2
        <4>3. CASE m = Len(s) + 2
          BY <3>1, <3>2, <3>3, <4>3
        <4> QED BY <3>1, <3>2, <4>1, <4>2, <4>3
      <3>5. Len(y) = Len(z)
        BY <3>1, <3>2, <3>3
      <3>6. y = z
        BY <3>2, <3>3, <3>4, <3>5, SeqEqual
      <3> QED BY <3>6 DEF y, z, a
    <2> QED BY <2>1, <2>2
  <1>3. CASE r.op \in Queries
    <2>1. s \o Answer(r) = Append(Append(s, Ack), Reply(r.tag)) /\ r.op # "step"
      BY <1>1, <1>2, <1>3, AnswerLemma DEF Queries
    <2> QED BY <1>1, <2>1, OwnLast
  <1>4. CASE r.op = "continue"
    <2>1. s \o Answer(r) = Append(s, Ack)
      BY <1>1, <1>2, <1>4, AnswerLemma
    <2> QED BY <1>1, <1>4, <2>1, OwnLast
  <1>5. CASE r.op = "step"
    <2>1. s \o Answer(r) = Append(Append(s, Ack), Stop("step"))
      BY <1>1, <1>2, <1>5, AnswerLemma
    <2>2. Append(s, Ack) \in Seq(Token) /\ Shaped(Append(s, Ack)) /\ Stops(Append(s, Ack)) = s
      BY <1>1, OwnLast, AppendProperties
    <2>3. Stops(Append(Append(s, Ack), Stop("step"))) = Append(s, Stop("step"))
      BY <1>1, <2>2, LateStop
    <2>4. Stops(Append(s, Nak)) = s
      BY <1>1, OwnLast
    <2> QED BY <1>5, <2>1, <2>3, <2>4
  <1> QED BY <1>3, <1>4, <1>5, AnswerLemma

\* The input always has a shape the stops can be read off.
LEMMA InputShaped ==
  ASSUME TypeOK, StreamShape
  PROVE  Shaped(rx)
  <1>0. rx \in Seq(Token) /\ tag \in TagSet
    BY DEF TypeOK
  <1>1. CASE stage \in {"idle", "stop", "drain"}
    BY <1>1 DEF StreamShape, Shaped
  <1>2. CASE stage = "ack"
    <2>1. CASE AllStops(rx)
      BY <2>1 DEF Shaped
    <2>2. CASE ~AllStops(rx)
      <3>1. PICK k \in 1..Len(rx) : AnsweredAt(rx, k, op, tag)
        BY <1>2, <2>2 DEF StreamShape
      <3>2. k \in Nat /\ \E j \in {k, k + 1} : IsCut(rx, k, j)
        BY <1>0, <3>1, AnswerIsCut
      <3> QED BY <3>2 DEF Shaped
    <2> QED BY <2>1, <2>2
  <1>3. CASE stage = "reply"
    <2>1. IsCut(rx, 1, 1)
      <3>1. rx # <<>> /\ rx[1] = Reply(tag) /\ AllStops(Tail(rx))
        BY <1>3 DEF StreamShape
      <3>2. Len(rx) \in Nat /\ Len(rx) >= 1 /\ ~IsStop(rx[1])
        BY <1>0, <3>1, TokenFacts
      <3>3. ASSUME NEW m \in 2..Len(rx) PROVE IsStop(rx[m])
        <4>1. m - 1 \in 1..Len(Tail(rx)) /\ Tail(rx)[m - 1] = rx[m]
          BY <1>0, <3>1
        <4> QED BY <3>1, <4>1 DEF AllStops
      <3> QED BY <3>2, <3>3 DEF IsCut
    <2> QED BY <2>1 DEF Shaped
  <1> QED BY <1>1, <1>2, <1>3 DEF TypeOK, Stages

-----------------------------------------------------------------------------
(* Steps of the stream                                                     *)

\* The tokens whose causes are the stream.
Left == pending \o Stops(rx)

\* Both parts of Left are sequences of tokens, and so is Left.
LEMMA LeftFacts ==
  ASSUME TypeOK, StreamShape
  PROVE  /\ pending \in Seq(Token) /\ Stops(rx) \in Seq(Token)
         /\ Left \in Seq(Token) /\ Len(Left) \in Nat /\ Len(pending) \in Nat
         /\ Len(Left) = Len(pending) + Len(Stops(rx)) /\ Len(Stops(rx)) \in Nat
         /\ stops = Causes(Left) /\ Len(stops) = Len(Left)
         /\ cpu \in {"halted", "running"}
  <1>1. Stops(rx) \in Seq(Token)
    BY InputShaped, ShapedStops DEF TypeOK
  <1>2. pending \in Seq(Token)
    <2>1. pending \in Seq(Packet) /\ Packet \subseteq Token
      BY TokenFacts DEF TypeOK
    <2> QED BY <2>1
  <1>3. /\ Left \in Seq(Token) /\ Len(Left) = Len(pending) + Len(Stops(rx))
        /\ Len(pending) \in Nat /\ Len(Stops(rx)) \in Nat
    BY <1>1, <1>2, JoinFacts DEF Left
  <1>4. stops = Causes(Left)
    BY DEF stops, Left
  <1> QED BY <1>1, <1>2, <1>3, <1>4, CausesFacts DEF TypeOK

\* The interrupts in tx are those that are not the outstanding request.
LEMMA IntrFacts ==
  ASSUME TypeOK, StreamShape
  PROVE  /\ tx = <<>> => intr = 0
         /\ stage # "ack" => intr = Len(tx)
         /\ stage = "ack" /\ tx # <<>> => intr = Len(tx) - 1 /\ tx[Len(tx)].op = op
         /\ Len(tx) \in Nat
  <1>1. Len(tx) \in Nat /\ (tx # <<>> => Len(tx) >= 1)
    BY DEF TypeOK
  <1>2. tx = <<>> => intr = 0
    BY DEF intr, Outstanding
  <1>3. ASSUME stage \in {"idle", "stop", "drain"} PROVE intr = Len(tx)
    <2>1. AllInterrupts(tx, Len(tx))
      BY <1>3 DEF StreamShape
    <2> QED BY <1>1, <2>1 DEF AllInterrupts, intr, Outstanding
  <1>4. ASSUME stage = "reply" PROVE intr = Len(tx)
    <2>1. tx = <<>>
      BY <1>4 DEF StreamShape
    <2> QED BY <1>2, <2>1
  <1>5. ASSUME stage = "ack", tx # <<>> PROVE intr = Len(tx) - 1 /\ tx[Len(tx)].op = op
    <2>1. tx[Len(tx)] = [op |-> op, tag |-> tag] /\ op \in Senders
      BY <1>5 DEF StreamShape
    <2>2. tx[Len(tx)].op = op /\ op # "interrupt"
      BY <2>1 DEF Senders, Queries
    <2> QED BY <1>5, <2>2 DEF intr, Outstanding
  <1> QED BY <1>1, <1>2, <1>3, <1>4, <1>5 DEF TypeOK, Stages

\* Nothing is outstanding and no interrupt is on its way in an empty tx.
LEMMA NoRequests ==
  ASSUME tx' = <<>>
  PROVE  intr' = 0
  BY DEF intr, Outstanding

\* Losing the wire, the requests or both takes the stream down.
LEMMA DownStep ==
  ASSUME TypeOK, StreamShape, tx' = <<>>, pending' = pending,
         rx' = <<>> \/ rx' = rx, cpu' \in {"halted", "running"}
  PROVE  Stream!StreamNext
  <1>1. intr' = 0
    BY NoRequests
  <1>2. \E n \in 0..Len(stops) : stops' = SubSeq(stops, 1, n)
    <2>1. CASE rx' = <<>>
      <3>1. Stops(rx') = <<>>
        BY <2>1, EmptyShapeLemma DEF Stops, EmptyShape
      <3>2. Left' = SubSeq(Left, 1, Len(pending))
        BY <3>1, LeftFacts, JoinFacts DEF Left
      <3>3. stops' = SubSeq(stops, 1, Len(pending))
        <4>1. stops' = Causes(Left')
          BY DEF stops, Left
        <4>2. 1 \in 1..(Len(Left) + 1) /\ Len(pending) \in 0..Len(Left)
          BY LeftFacts
        <4> QED BY <3>2, <4>1, <4>2, LeftFacts, CausesFacts
      <3> QED BY <3>3, LeftFacts
    <2>2. CASE rx' = rx
      <3>1. stops' = stops
        BY <2>2 DEF stops
      <3>2. stops = SubSeq(stops, 1, Len(stops))
        <4>1. Left = SubSeq(Left, 1, Len(Left))
          BY LeftFacts
        <4>2. 1 \in 1..(Len(Left) + 1) /\ Len(Left) \in 0..Len(Left)
          BY LeftFacts
        <4>3. Causes(SubSeq(Left, 1, Len(Left))) = SubSeq(Causes(Left), 1, Len(Left))
          BY <4>2, LeftFacts, CausesFacts
        <4>4. stops = Causes(Left) /\ Len(stops) = Len(Left)
          BY LeftFacts
        <4>5. Causes(Left) = SubSeq(Causes(Left), 1, Len(Left))
          BY <4>1, <4>3
        <4> QED BY <4>4, <4>5
      <3>3. Len(stops) \in 0..Len(stops)
        BY LeftFacts
      <3> QED BY <3>1, <3>2, <3>3
    <2> QED BY <2>1, <2>2
  <1> QED BY <1>1, <1>2 DEF Stream!StreamNext, Stream!Down

\* Taking the first tokens of Left takes the first stops.
LEMMA TakeStep ==
  ASSUME TypeOK, StreamShape, NEW n \in 1..Len(Left),
         Left' = SubSeq(Left, n + 1, Len(Left)), tx' = tx, cpu' = cpu
  PROVE  Stream!StreamNext
  <1>1. intr' = intr
    BY DEF intr, Outstanding
  <1>2. stops' = SubSeq(stops, n + 1, Len(stops))
    <2>1. stops' = Causes(Left')
      BY DEF stops, Left
    <2>2. n + 1 \in 1..(Len(Left) + 1) /\ Len(Left) \in 0..Len(Left)
      BY LeftFacts
    <2> QED BY <2>1, <2>2, LeftFacts, CausesFacts
  <1>3. n \in 1..Len(stops)
    BY LeftFacts
  <1> QED BY <1>1, <1>2, <1>3 DEF Stream!StreamNext, Stream!Take

\* A step that keeps the requests and the stops is no step of the stream.
LEMMA SameStep ==
  ASSUME tx' = tx \/ intr' = intr, Left' = Left, cpu' = cpu
  PROVE  UNCHANGED Stream!streamVars
  <1>1. intr' = intr
    BY DEF intr, Outstanding
  <1>2. stops' = stops
    BY DEF stops, Left
  <1> QED BY <1>1, <1>2 DEF Stream!streamVars

\* A stop behind the input is the last of the stream.
LEMMA LaterStop ==
  ASSUME TypeOK, StreamShape, NEW w \in Cause, pending' = pending,
         Stops(rx') = Append(Stops(rx), Stop(w))
  PROVE  stops' = Append(stops, w)
  <1>1. Stop(w) \in Token /\ Stop(w).why = w
    BY TokenFacts DEF Stop
  <1>2. Left' = Append(Left, Stop(w))
    BY <1>1, LeftFacts, JoinFacts DEF Left
  <1>3. stops' = Causes(Left')
    BY DEF stops, Left
  <1> QED BY <1>1, <1>2, <1>3, LeftFacts, CausesFacts

\* An exception ends the connection or leaves the stream alone.
LEMMA RaiseStep ==
  ASSUME TypeOK, StreamShape, NEW o, NEW out, NEW rest, Raise(o, out, rest),
         Stops(rest) = Stops(rx), pending' = pending, cpu' = cpu
  PROVE  Stream!StreamNext \/ UNCHANGED Stream!streamVars
  <1>1. CASE LinkDown
    BY <1>1, DownStep, LeftFacts DEF LinkDown
  <1>2. CASE rx' = rest /\ UNCHANGED <<link, tx>>
    BY <1>2, SameStep DEF Left
  <1> QED BY <1>1, <1>2 DEF Raise

\* The first packet of an input of stops is its first token.
LEMMA FirstStop ==
  ASSUME NEW s \in Seq(Token), AllStops(s), HasPacket(s)
  PROVE  s # <<>> /\ FirstPacket(s) = 1 /\ After(s, 1) = Tail(s) /\ AllStops(Tail(s))
  <1>1. /\ Len(s) \in Nat /\ FirstPacket(s) \in 1..Len(s)
        /\ \A j \in 1..(FirstPacket(s) - 1) : ~IsPacket(s[j])
    BY FirstPacketLemma, LenProperties
  <1>2. s # <<>> /\ 1 \in 1..Len(s)
    BY <1>1
  <1>3. IsPacket(s[1])
    BY <1>2, TokenFacts, ElementOfSeq DEF AllStops
  <1>4. FirstPacket(s) = 1
    BY <1>1, <1>2, <1>3
  <1> QED BY <1>2, <1>4, StopsLemma DEF After

-----------------------------------------------------------------------------
(* GdbClient implements StopStream                                         *)

\* A drain has emptied _pending_replies before it reads the wire.
DrainEmpty == stage = "drain" => pending = <<>>

\* No step of a drain puts a packet back (drain_stop_replies).
LEMMA DrainEmptyHolds == Spec => []DrainEmpty
  <1>1. Init => DrainEmpty
    BY DEF Init, DrainEmpty
  <1>2. ASSUME DrainEmpty, [Next]_vars PROVE DrainEmpty'
    <2> USE <1>2 DEF DrainEmpty, stubVars, clientVars
    <2>1. CASE Begin
      BY <2>1 DEF Begin, Connect, ConnectRefused, Close, Send, SendFails, Interrupt,
                  InterruptFails, Wait, Drain, DrainPending, Return, Raise
    <2>2. CASE Read
      BY <2>2 DEF Read, AckPlus, AckOob, AckNak, ReadReply, TakePending, TakeWire,
                  DrainWire, DrainDone, Timeout, Lost, LostOpen, AckLost, Return, Raise
    <2>3. CASE Stub
      BY <2>3 DEF Stub, Serve, ServeNot, Hit, Stall, Vanish, Launch
    <2>4. CASE UNCHANGED vars
      BY <2>4 DEF vars
    <2> QED BY <2>1, <2>2, <2>3, <2>4 DEF Next
  <1> QED BY <1>1, <1>2, PTL DEF Spec

\* The steps a method begins with.
LEMMA BeginSteps ==
  ASSUME TypeOK, StreamShape, Begin
  PROVE  Stream!StreamNext \/ UNCHANGED Stream!streamVars
  <1> USE DEF stubVars, clientVars
  <1>1. CASE Connect \/ Close
    BY <1>1, DownStep, LeftFacts DEF Connect, Close, LinkDown
  <1>2. CASE ConnectRefused \/ Wait
    BY <1>2, SameStep DEF ConnectRefused, Wait, Left
  <1>3. ASSUME NEW o \in Senders, Send(o)
        PROVE  UNCHANGED Stream!streamVars
    <2>1. intr' = intr
      <3>1. CASE link = "up"
        <4> DEFINE r == [op |-> o, tag |-> tag']
        <4>1. tx' = Append(tx, r) /\ stage = "idle"
          BY <1>3, <3>1 DEF Send
        <4>2. r.op # "interrupt" /\ r \in Request
          <5>1. tag' \in TagSet
            BY <1>3, TagsAssumption DEF Send, TypeOK, TagSet
          <5> QED BY <5>1 DEF Senders, Queries, Request
        <4> HIDE DEF r
        <4>3. tx' # <<>> /\ tx'[Len(tx')] = r /\ Len(tx') = Len(tx) + 1
          BY <4>1, <4>2, AppendProperties DEF TypeOK
        <4>4. intr' = Len(tx') - 1
          BY <4>2, <4>3 DEF intr, Outstanding
        <4> QED BY <4>1, <4>3, <4>4, IntrFacts
      <3>2. CASE link # "up"
        BY <1>3, <3>2 DEF Send, intr, Outstanding
      <3> QED BY <3>1, <3>2
    <2>2. Left' = Left /\ cpu' = cpu
      BY <1>3 DEF Send, Left
    <2> QED BY <2>1, <2>2, SameStep
  <1>4. ASSUME NEW o, SendFails(o)
        PROVE  Stream!StreamNext \/ UNCHANGED Stream!streamVars
    BY <1>4, RaiseStep DEF SendFails
  <1>5. CASE Interrupt
    <2>1. CASE link = "up"
      <3> DEFINE r == [op |-> "interrupt", tag |-> 0]
      <3>1. tx' = Append(tx, r) /\ stage = "idle" /\ UNCHANGED <<rx, pending, cpu>>
        BY <1>5, <2>1 DEF Interrupt
      <3>2. r.op = "interrupt" /\ r \in Request
        BY TagsAssumption DEF Request, TagSet
      <3> HIDE DEF r
      <3>3. tx' # <<>> /\ tx'[Len(tx')] = r /\ Len(tx') = Len(tx) + 1
        BY <3>1, <3>2, AppendProperties DEF TypeOK
      <3>4. intr' = Len(tx')
        BY <3>2, <3>3 DEF intr, Outstanding
      <3>5. intr' = intr + 1
        BY <3>1, <3>3, <3>4, IntrFacts
      <3>6. stops' = stops
        BY <3>1 DEF stops
      <3> QED BY <3>1, <3>5, <3>6 DEF Stream!StreamNext, Stream!Interrupt
    <2>2. CASE link # "up"
      BY <1>5, <2>2, SameStep DEF Interrupt, Left
    <2> QED BY <2>1, <2>2
  <1>6. CASE InterruptFails
    BY <1>6, RaiseStep DEF InterruptFails
  <1>7. CASE Drain \/ DrainPending
    <2>1. pending' = <<>> /\ UNCHANGED <<rx, tx, cpu>>
      BY <1>7 DEF Drain, DrainPending
    <2>2. Left' = SubSeq(Left, Len(pending) + 1, Len(Left))
      BY <2>1, LeftFacts, JoinFacts DEF Left
    <2>3. CASE pending = <<>>
      BY <2>1, <2>3, SameStep DEF Left
    <2>4. CASE pending # <<>>
      <3>1. Len(pending) \in 1..Len(Left)
        <4>1. Len(pending) # 0
          BY <2>4, LeftFacts
        <4> QED BY <4>1, LeftFacts
      <3> QED BY <2>1, <2>2, <3>1, TakeStep
    <2> QED BY <2>3, <2>4
  <1> QED BY <1>1, <1>2, <1>3, <1>4, <1>5, <1>6, <1>7 DEF Begin

\* A stop taken from the wire, _pending_replies being empty, is the first one left.
LEMMA WireStep ==
  ASSUME TypeOK, StreamShape, stage \in {"stop", "drain"}, pending = <<>>, HasPacket(rx),
         rx' = After(rx, FirstPacket(rx)), UNCHANGED <<tx, pending, cpu>>
  PROVE  Stream!StreamNext
  <1>1. rx \in Seq(Token) /\ AllStops(rx)
    BY DEF TypeOK, StreamShape
  <1>2. rx # <<>> /\ rx' = Tail(rx) /\ AllStops(Tail(rx))
    BY <1>1, FirstStop
  <1>3. Stops(rx) = rx /\ Stops(rx') = Tail(rx)
    BY <1>1, <1>2 DEF Stops
  <1>4. Left = <<>> \o rx /\ Left' = <<>> \o Tail(rx)
    BY <1>3 DEF Left
  <1>5. Left' = SubSeq(Left, 2, Len(Left))
    BY <1>1, <1>2, <1>4, EmptyIsTyped, JoinFacts
  <1>6. 1 \in 1..Len(Left) /\ 1 + 1 = 2
    BY <1>1, <1>2, <1>4, ConcatEmptySeq
  <1> QED BY <1>5, <1>6, TakeStep

\* The steps a running method reads on with.
LEMMA ReadSteps ==
  ASSUME TypeOK, StreamShape, DrainEmpty, Read
  PROVE  Stream!StreamNext \/ UNCHANGED Stream!streamVars
  <1> USE DEF stubVars, clientVars
  <1>0. rx \in Seq(Token) /\ tag \in TagSet
    BY DEF TypeOK
  <1>1. ASSUME stage = "ack", rx # <<>>, Head(rx) \in {Ack, Nak}
        PROVE  Stops(Tail(rx)) = Stops(rx)
    <2>1. ~IsStop(rx[1]) /\ Head(rx) = rx[1] /\ 1 \in 1..Len(rx)
      BY <1>0, <1>1, TokenFacts
    <2>2. PICK k \in 1..Len(rx) : AnsweredAt(rx, k, op, tag)
      BY <1>1, <2>1 DEF StreamShape, AllStops
    <2>3. PICK j \in {k, k + 1} : IsCut(rx, k, j)
      BY <1>0, <2>2, AnswerIsCut
    <2>4. k = 1
      BY <1>0, <2>1, <2>3 DEF IsCut
    <2> QED BY <1>0, <1>1, <2>3, <2>4, FrontOwn
  <1>2. CASE AckPlus
    <2>1. Stops(rx') = Stops(rx) /\ UNCHANGED <<pending, tx, cpu>>
      BY <1>1, <1>2 DEF AckPlus
    <2> QED BY <2>1, SameStep DEF Left
  <1>3. CASE AckNak
    BY <1>1, <1>3, RaiseStep DEF AckNak
  <1>4. CASE AckOob
    <2>1. /\ rx # <<>> /\ IsPacket(Head(rx)) /\ pending' = Append(pending, Head(rx))
          /\ rx' = Tail(rx) /\ UNCHANGED <<tx, cpu>> /\ stage = "ack"
      BY <1>4 DEF AckOob
    <2>2. IsStop(Head(rx))
      <3>1. CASE AllStops(rx)
        BY <1>0, <2>1, <3>1, StopsLemma
      <3>2. CASE ~AllStops(rx)
        BY <1>0, <2>1, <3>2, AnsweredTail DEF StreamShape
      <3> QED BY <3>1, <3>2
    <2>3. Stops(rx) # <<>> /\ Head(Stops(rx)) = Head(rx) /\ Tail(Stops(rx)) = Stops(rx')
      BY <1>0, <2>1, <2>2, InputShaped, FrontStop
    <2>4. Left' = Left
      <3>1. pending \in Seq(Token) /\ Stops(rx) \in Seq(Token)
        BY LeftFacts
      <3>2. Append(pending, Head(Stops(rx))) \o Tail(Stops(rx)) = pending \o Stops(rx)
        BY <2>3, <3>1, JoinFacts
      <3> QED BY <2>1, <2>3, <3>2 DEF Left
    <2> QED BY <2>1, <2>4, SameStep
  <1>5. CASE ReadReply
    <2>1. rx # <<>> /\ rx[1] = Reply(tag) /\ AllStops(Tail(rx)) /\ HasPacket(rx)
      BY <1>5 DEF ReadReply, StreamShape
    <2>2. ~IsStop(rx[1]) /\ IsPacket(rx[1]) /\ 1 \in 1..Len(rx) /\ Len(rx) \in Nat
      BY <1>0, <2>1, TokenFacts
    <2>3. FirstPacket(rx) = 1
      BY <1>0, <2>1, <2>2, FirstPacketLemma
    <2>4. After(rx, 1) = Tail(rx)
      BY <1>0, <2>1 DEF After
    <2>5. IsCut(rx, 1, 1)
      <3>1. ASSUME NEW m \in 2..Len(rx) PROVE IsStop(rx[m])
        <4>1. m - 1 \in 1..Len(Tail(rx)) /\ Tail(rx)[m - 1] = rx[m]
          BY <1>0, <2>1
        <4> QED BY <2>1, <4>1 DEF AllStops
      <3> QED BY <2>2, <3>1 DEF IsCut
    <2>6. Stops(Tail(rx)) = Stops(rx)
      BY <1>0, <2>1, <2>5, FrontOwn
    <2>7. CASE op = "detach"
      BY <1>5, <2>7, DownStep, LeftFacts DEF ReadReply, LinkDown
    <2>8. CASE op # "detach"
      <3>1. rx' = Tail(rx) /\ UNCHANGED <<pending, tx, cpu>>
        BY <1>5, <2>3, <2>4, <2>8 DEF ReadReply
      <3> QED BY <2>6, <3>1, SameStep DEF Left
    <2> QED BY <2>7, <2>8
  <1>6. CASE TakePending
    <2>1. pending # <<>> /\ pending' = Tail(pending) /\ UNCHANGED <<rx, tx, cpu>>
      BY <1>6 DEF TakePending
    <2>2. Left' = SubSeq(Left, 2, Len(Left))
      BY <2>1, LeftFacts, JoinFacts DEF Left
    <2>3. 1 \in 1..Len(Left) /\ 1 + 1 = 2
      <3>1. Len(pending) # 0
        BY <2>1, LeftFacts
      <3> QED BY <3>1, LeftFacts
    <2> QED BY <2>1, <2>2, <2>3, TakeStep
  <1>7. CASE TakeWire
    BY <1>7, WireStep DEF TakeWire
  <1>8. CASE DrainWire
    BY <1>8, WireStep DEF DrainWire, DrainEmpty
  <1>9. CASE DrainDone
    <2>1. CASE LinkDown
      BY <1>9, <2>1, DownStep, LeftFacts DEF DrainDone, LinkDown
    <2>2. CASE UNCHANGED <<link, rx, tx>>
      BY <1>9, <2>2, SameStep DEF DrainDone, Left
    <2> QED BY <1>9, <2>1, <2>2 DEF DrainDone
  <1>10. CASE Timeout
    BY <1>10, RaiseStep DEF Timeout
  <1>11. CASE Lost \/ LostOpen \/ AckLost
    BY <1>11, RaiseStep DEF Lost, LostOpen, AckLost
  <1> QED BY <1>2, <1>3, <1>4, <1>5, <1>6, <1>7, <1>8, <1>9, <1>10, <1>11 DEF Read

\* The steps of the stub.
LEMMA StubSteps ==
  ASSUME TypeOK, StreamShape, Stub
  PROVE  Stream!StreamNext \/ UNCHANGED Stream!streamVars
  <1> USE DEF stubVars, clientVars
  <1>0. rx \in Seq(Token) /\ tx \in Seq(Request) /\ "int" \in Cause /\ "step" \in Cause
    BY DEF TypeOK, Cause
  <1>1. CASE Vanish \/ Launch
    <2>1. tx' = <<>> /\ UNCHANGED <<rx, pending>> /\ cpu' \in {"halted", "running"}
      BY <1>1, LeftFacts DEF Vanish, Launch, StreamShape
    <2> QED BY <2>1, DownStep
  <1>2. ASSUME NEW b \in Bp, Hit(b) PROVE Stream!StreamNext
    <2>1. b \in Cause /\ rx' = Append(rx, Stop(b)) /\ cpu = "running" /\ cpu' = "halted"
          /\ UNCHANGED <<tx, pending>>
      BY <1>2 DEF Hit, Cause
    <2>2. Stops(rx') = Append(Stops(rx), Stop(b))
      BY <1>0, <2>1, InputShaped, LateStop
    <2>3. stops' = Append(stops, b) /\ intr' = intr
      BY <2>1, <2>2, LaterStop DEF intr, Outstanding
    <2> QED BY <2>1, <2>3 DEF Stream!StreamNext, Stream!Hit
  <1>3. ASSUME Serve \/ ServeNot
        PROVE  Stream!StreamNext \/ UNCHANGED Stream!streamVars
    <2> DEFINE r == Head(tx)
    <2>1. /\ tx # <<>> /\ tx' = Tail(tx) /\ pending' = pending /\ stage' = stage
          /\ Serve => rx' = rx \o Answer(r) /\ cpu' = CpuAfter(r)
          /\ ServeNot => /\ rx' = IF r.op = "interrupt" THEN rx ELSE Append(rx, Nak)
                         /\ cpu' = cpu
      BY <1>3 DEF Serve, ServeNot
    <2>2. /\ r \in Request /\ r = tx[1] /\ Len(tx) \in Nat /\ Len(tx) >= 1
          /\ Len(tx') = Len(tx) - 1 /\ (tx' = <<>> <=> Len(tx) = 1)
          /\ \A m \in 1..Len(tx') : tx'[m] = tx[m + 1]
      <3>1. /\ r \in Request /\ r = tx[1] /\ Len(tx) \in Nat /\ Len(tx) >= 1
            /\ Tail(tx) \in Seq(Request) /\ Len(Tail(tx)) = Len(tx) - 1
            /\ \A m \in 1..(Len(tx) - 1) : Tail(tx)[m] = tx[m + 1]
        BY <1>0, <2>1
      <3>2. \A q \in Seq(Request) : q = <<>> <=> Len(q) = 0
        OBVIOUS
      <3>3. Tail(tx) = <<>> <=> Len(tx) = 1
        <4>1. Tail(tx) = <<>> <=> Len(Tail(tx)) = 0
          BY <3>1, <3>2
        <4> QED BY <3>1, <4>1
      <3> QED BY <2>1, <3>1, <3>3
    <2> HIDE DEF r
    <2>3. AllStops(rx) /\ stage # "reply"
      BY <2>1 DEF StreamShape, TypeOK, Stages
    <2>4. Stops(rx) = rx
      BY <2>3 DEF Stops
    <2>5. CASE r.op = "interrupt"
      <3>1. intr > 0 /\ intr' = intr - 1
        <4>1. CASE stage = "ack"
          <5>1. intr = Len(tx) - 1 /\ tx[Len(tx)].op # "interrupt"
            <6>1. op \in Senders
              BY <4>1 DEF StreamShape
            <6> QED BY <2>1, <4>1, <6>1, IntrFacts DEF Senders, Queries
          <5>2. Len(tx) # 1
            BY <2>2, <2>5, <5>1
          <5>3. Len(tx') >= 1 /\ tx' # <<>> /\ tx'[Len(tx')] = tx[Len(tx)]
            BY <2>2, <5>2
          <5>4. intr' = Len(tx') - 1
            BY <5>1, <5>3 DEF intr, Outstanding
          <5> QED BY <2>2, <5>1, <5>2, <5>4
        <4>2. CASE stage # "ack"
          <5>1. intr = Len(tx) /\ AllInterrupts(tx, Len(tx))
            BY <2>3, <4>2, IntrFacts DEF StreamShape, TypeOK, Stages
          <5>2. tx' # <<>> => tx'[Len(tx')].op = "interrupt"
            <6>1. ASSUME tx' # <<>>
                  PROVE  Len(tx') \in 1..Len(tx') /\ Len(tx') + 1 \in 1..Len(tx)
              BY <2>2, <6>1
            <6> QED BY <2>2, <5>1, <6>1 DEF AllInterrupts
          <5>3. intr' = Len(tx')
            BY <5>2 DEF intr, Outstanding
          <5> QED BY <2>2, <5>1, <5>3
        <4> QED BY <4>1, <4>2
      <3>2. CASE Serve
        <4>1. rx' = Append(rx, Stop("int")) /\ cpu' = "halted"
          <5>1. Answer(r) = <<Stop("int")>> /\ CpuAfter(r) = "halted"
            BY <2>2, <2>5, AnswerLemma DEF CpuAfter
          <5> QED BY <1>0, <2>1, <3>2, <5>1
        <4>2. Stops(rx') = Append(Stops(rx), Stop("int"))
          BY <1>0, <4>1, InputShaped, LateStop
        <4>3. stops' = Append(stops, "int")
          BY <1>0, <2>1, <4>2, LaterStop
        <4> QED BY <3>1, <4>1, <4>3 DEF Stream!StreamNext, Stream!ServeInterrupt
      <3>3. CASE ServeNot
        <4>1. stops' = stops /\ cpu' = cpu
          BY <2>1, <2>5, <3>3 DEF stops
        <4> QED BY <3>1, <4>1 DEF Stream!StreamNext, Stream!DropInterrupt
      <3> QED BY <1>3, <3>2, <3>3
    <2>6. CASE r.op # "interrupt"
      <3>1. stage = "ack" /\ Len(tx) = 1
        <4>1. stage = "ack"
          <5>1. ASSUME stage # "ack" PROVE FALSE
            <6>1. AllInterrupts(tx, Len(tx)) /\ 1 \in 1..Len(tx)
              BY <2>2, <2>3, <5>1 DEF StreamShape, TypeOK, Stages
            <6> QED BY <2>2, <2>6, <6>1 DEF AllInterrupts
          <5> QED BY <5>1
        <4>2. AllInterrupts(tx, Len(tx) - 1)
          BY <2>1, <4>1 DEF StreamShape
        <4> QED BY <2>2, <2>6, <4>1, <4>2 DEF AllInterrupts
      <3>2. intr = 0 /\ intr' = 0 /\ intr' = intr
        <4>1. intr = 0
          BY <2>1, <3>1, IntrFacts
        <4>2. intr' = 0
          BY <2>2, <3>1, NoRequests
        <4> QED BY <4>1, <4>2
      <3>3. /\ Stops(rx \o Answer(r)) = IF r.op = "step" THEN Append(rx, Stop("step")) ELSE rx
            /\ Stops(Append(rx, Nak)) = rx
        BY <1>0, <2>2, <2>3, <2>6, AnswerStops
      <3>4. CASE Serve /\ r.op = "step"
        <4>1. Stops(rx') = Append(Stops(rx), Stop("step"))
          BY <2>1, <2>4, <3>3, <3>4
        <4>2. stops' = Append(stops, "step")
          BY <1>0, <2>1, <4>1, LaterStop
        <4>3. cpu' = "halted"
          BY <2>1, <3>4 DEF CpuAfter
        <4> QED BY <3>2, <4>2, <4>3 DEF Stream!StreamNext, Stream!StepInsn
      <3>5. CASE Serve /\ r.op \in {"continue", "detach"}
        <4>1. Left' = Left
          BY <2>1, <2>4, <3>3, <3>5 DEF Left
        <4>2. stops' = stops /\ cpu' = "running"
          BY <2>1, <3>5, <4>1 DEF stops, Left, CpuAfter
        <4> QED BY <3>2, <4>2 DEF Stream!StreamNext, Stream!Continue
      <3>6. CASE Serve /\ r.op \notin {"step", "continue", "detach"}
        <4>1. Left' = Left
          BY <2>1, <2>4, <3>3, <3>6 DEF Left
        <4>2. cpu' = cpu
          BY <2>1, <2>6, <3>6 DEF CpuAfter
        <4> QED BY <3>2, <4>1, <4>2, SameStep
      <3>7. CASE ServeNot
        <4>1. Left' = Left /\ cpu' = cpu
          BY <2>1, <2>4, <2>6, <3>3, <3>7 DEF Left
        <4> QED BY <3>2, <4>1, SameStep
      <3> QED BY <1>3, <3>4, <3>5, <3>6, <3>7
    <2> QED BY <2>5, <2>6
  <1>4. CASE Stall
    BY <1>4, SameStep DEF Stall, Left
  <1> QED BY <1>1, <1>2, <1>3, <1>4 DEF Stub

\* Whatever the queues hold and however calls end, commands neither take from
\* the stop replies of client.py nor reorder them, and the waits take the
\* oldest first: the client implements the stream its callers are written for.
\* It does so until an ack is given up on that is still to come.
THEOREM AStreamUntilLate ==
  Spec /\ [][~LateTimeout]_vars => StopsAreAStream
  <1>1. Init => Stream!StreamInit
    <2> SUFFICES ASSUME Init PROVE Stream!StreamInit
      OBVIOUS
    <2>1. intr = 0 /\ cpu = "halted"
      BY DEF Init, intr, Outstanding
    <2>2. stops = <<>>
      <3>1. pending = <<>> /\ Stops(rx) = <<>>
        BY EmptyShapeLemma DEF Init, Stops, EmptyShape
      <3>2. stops = Causes(<<>>)
        BY <3>1 DEF stops
      <3> QED BY <3>2, EmptyIsTyped DEF Causes
    <2> QED BY <2>1, <2>2 DEF Stream!StreamInit
  <1>2. TypeOK /\ StreamShape /\ DrainEmpty /\ [Next]_vars
          => [Stream!StreamNext]_(Stream!streamVars)
    <2> SUFFICES ASSUME TypeOK, StreamShape, DrainEmpty, [Next]_vars
                 PROVE  Stream!StreamNext \/ UNCHANGED Stream!streamVars
      OBVIOUS
    <2>1. CASE Begin \/ Read \/ Stub
      BY <2>1, BeginSteps, ReadSteps, StubSteps
    <2>2. CASE UNCHANGED vars
      BY <2>2, SameStep DEF vars, Left
    <2> QED BY <2>1, <2>2 DEF Next
  <1>3. Spec /\ [][~LateTimeout]_vars => [](TypeOK /\ StreamShape /\ DrainEmpty)
    BY TypeCorrect, InStepUntilLate, DrainEmptyHolds, PTL
  <1> QED BY <1>1, <1>2, <1>3, PTL DEF Spec, StopsAreAStream, Stream!StreamSpec

\* A stub that answers within the client's timeouts never leaves an ack so late:
\* with it the client is the stream of stop replies for good.
THEOREM ClientIsAStream ==
  ASSUME MayStall = FALSE
  PROVE  Spec => StopsAreAStream
  BY NoStallNoLate, AStreamUntilLate, PTL
=============================================================================
