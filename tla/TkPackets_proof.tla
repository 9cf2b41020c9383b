-------------------------- MODULE TkPackets_proof ---------------------------
(***************************************************************************)
(* Proofs about TkPackets, for every choice of its constants: plserver     *)
(* takes the bytes apart as the program put them together, nothing that    *)
(* has come is left lying, and the link is the channel of TkChannel.       *)
(***************************************************************************)
EXTENDS TkPackets, SequenceTheorems, TLAPS

(* The invariant.                                                          *)

\* Packet p begins and ends with one of the commands c, which end where their sizes say.
Whole(p, c) ==
  /\ p # << >> /\ p[1][3] = 1
  /\ p[Len(p)][2] \in 1..Len(c) /\ p[Len(p)][3] = c[p[Len(p)][2]]

\* start[ i ] is the number of bytes before packet i of s.
Starts(start, s) ==
  /\ start \in [1..Len(s) + 1 -> Nat]
  /\ \A i \in 1..Len(s) : start[i + 1] = start[i] + HeaderSize + Len(s[i])
  /\ \A i, j \in 1..Len(s) + 1 : i <= j => start[i] <= start[j]

\* The bytes f are the packets of s from packet a on, each with its header.
Carries(start, s, a, f) ==
  /\ Len(f) = start[Len(s) + 1] - start[a]
  /\ \A i \in a..Len(s) :
       /\ \A k \in 1..HeaderSize : f[start[i] - start[a] + k] = << Len(s[i]), 0, k >>
       /\ \A k \in 1..Len(s[i]) : f[start[i] - start[a] + HeaderSize + k] = s[i][k]

\* The packet that plserver is at, and all bytes of it and of those behind it.
at   == Len(arrived) + 1
flow == (IF server = "body" THEN hbuf ELSE << >>) \o (partial \o (pipe \o unsent))

\* The program is dead, and plserver has given up the packet of which a part was not written.
Lost ==
  /\ client = "dead" /\ unsent # << >> /\ pipe = << >> /\ partial = << >>
  /\ server # "body" /\ Len(sent) = at

UnderWay == Lost \/ \E start : Starts(start, sent) /\ Carries(start, sent, at, flow)

ProgramOK ==
  /\ commands \in Seq(Sizes) /\ Len(commands) <= MaxCommands
  /\ buffer \in Seq(Byte) /\ loose \in 0..Len(buffer) /\ Len(buffer) - loose <= BufMax
  /\ client \in {"run", "write", "dead"} /\ atomic \in BOOLEAN
  /\ unsent \in Seq(Byte)
  /\ client = "write" => unsent # << >>
  /\ client = "run" => unsent = << >>
  /\ buffer # << >> => Whole(buffer, commands)
  /\ sent \in Seq(Seq(Byte)) /\ \A i \in 1..Len(sent) : Whole(sent[i], commands)
  /\ unsent # << >> => sent # << >> /\ Len(unsent) <= HeaderSize + Len(sent[Len(sent)])

PlserverOK ==
  /\ pipe \in Seq(Byte) /\ Len(pipe) <= PipeSize
  /\ server \in {"loop", "body", "closed"}
  /\ partial \in Seq(Byte) /\ hbuf \in Seq(Byte) /\ garbled = FALSE
  /\ arrived \in Seq(Seq(Byte)) /\ Len(arrived) <= Len(sent)
  /\ \A i \in 1..Len(arrived) : arrived[i] = sent[i]
  /\ server = "body" => /\ Len(hbuf) = HeaderSize /\ at <= Len(sent)
                        /\ Len(partial) < Len(sent[at])
  /\ server # "body" /\ at <= Len(sent) => Len(partial) < HeaderSize + Len(sent[at])
  /\ server = "closed" => client = "dead" /\ pipe = << >> /\ partial = << >>

IInv == ProgramOK /\ PlserverOK /\ UnderWay

-----------------------------------------------------------------------------
(* Sequences.                                                              *)

\* What a sequence put together of two is made of.
LEMMA Joined ==
  ASSUME NEW a \in Seq(Byte), NEW b \in Seq(Byte)
  PROVE  /\ a \o b \in Seq(Byte) /\ Len(a \o b) = Len(a) + Len(b) /\ Len(a) \in Nat /\ Len(b) \in Nat
         /\ \A k \in 1..Len(a) : (a \o b)[k] = a[k]
         /\ \A k \in 1..Len(b) : (a \o b)[Len(a) + k] = b[k]
<1>1. /\ a \o b \in Seq(Byte) /\ Len(a \o b) = Len(a) + Len(b) /\ Len(a) \in Nat /\ Len(b) \in Nat
      /\ \A k \in 1..Len(a) + Len(b) : (a \o b)[k] = IF k <= Len(a) THEN a[k] ELSE b[k - Len(a)]
  BY ConcatProperties, LenProperties
<1>2. \A k \in 1..Len(a) : k \in 1..Len(a) + Len(b) /\ k <= Len(a)
  BY <1>1
<1>3. \A k \in 1..Len(b) : Len(a) + k \in 1..Len(a) + Len(b) /\ ~ (Len(a) + k <= Len(a)) /\ (Len(a) + k) - Len(a) = k
  BY <1>1
<1> QED BY <1>1, <1>2, <1>3

\* A sequence cut in two.
LEMMA CutInTwo ==
  ASSUME NEW S, NEW a \in Seq(S), NEW n \in 0..Len(a)
  PROVE  /\ SubSeq(a, 1, n) \in Seq(S) /\ SubSeq(a, n + 1, Len(a)) \in Seq(S)
         /\ Len(SubSeq(a, 1, n)) = n /\ Len(SubSeq(a, n + 1, Len(a))) = Len(a) - n
         /\ SubSeq(a, 1, n) \o SubSeq(a, n + 1, Len(a)) = a
<1>1. Len(a) \in Nat /\ n \in Nat /\ n <= Len(a)
  BY LenProperties
<1>2. SubSeq(a, 1, n) \in Seq(S) /\ Len(SubSeq(a, 1, n)) = n
  BY <1>1
<1>3. SubSeq(a, n + 1, Len(a)) \in Seq(S) /\ Len(SubSeq(a, n + 1, Len(a))) = Len(a) - n
  BY <1>1
<1>4. 1 \in 1..Len(a) + 1 /\ n \in 1 - 1..Len(a) /\ Len(a) \in n..Len(a)
  BY <1>1
<1>5. SubSeq(a, 1, n) \o SubSeq(a, n + 1, Len(a)) = SubSeq(a, 1, Len(a))
  BY <1>4, ConcatAdjacentSubSeq
<1>6. SubSeq(a, 1, Len(a)) = a
  BY SubSeqFull
<1> QED BY <1>2, <1>3, <1>5, <1>6

\* Two sequences after each other, with the empty one.
LEMMA WithNothing == ASSUME NEW S, NEW a \in Seq(S) PROVE << >> \in Seq(S) /\ << >> \o a = a /\ a \o << >> = a
BY ConcatEmptySeq, EmptySeq

\* Bytes after each other can be grouped as one likes.
LEMMA Regroup == \A a, b, c \in Seq(Byte) : (a \o b) \o c = a \o (b \o c)
BY ConcatAssociative

\* The sizes of the header and of the pipe.
LEMMA Sizings == HeaderSize \in Nat \ {0} /\ PipeSize \in Nat /\ BufMax \in Nat /\ MaxCommands \in Nat /\ Sizes \subseteq Nat \ {0}
BY LinkAssumption

-----------------------------------------------------------------------------
(* pl_Read.                                                                *)

\* pl_Read takes the next bytes, not more than were asked for, and no byte is lost:
\* what was put back comes first, and if all of it is taken nothing remains put back.
LEMMA ReadNext ==
  ASSUME NEW n \in Nat, partial \in Seq(Byte), pipe \in Seq(Byte)
  PROVE  LET got == PlRead(n)
         IN  /\ got.bytes \in Seq(Byte) /\ got.partial \in Seq(Byte) /\ got.pipe \in Seq(Byte)
             /\ Len(got.bytes) <= n /\ Len(got.pipe) <= Len(pipe)
             /\ got.bytes \o (got.partial \o got.pipe) = partial \o pipe
             /\ Len(partial) <= n => got.partial = << >>
             /\ Len(partial) > n => Len(got.bytes) = n /\ Len(got.partial) = Len(partial) - n
             /\ got.bytes = << >> /\ n > 0 => partial = << >> /\ pipe = << >> /\ got.partial = << >> /\ got.pipe = << >>
             /\ pipe = << >> => got.pipe = << >>
             /\ partial = << >> /\ pipe = << >> => got.bytes = << >>
<1> DEFINE old == Least(n, Len(partial))
           new == Least(n - old, Len(pipe))
           b1 == SubSeq(partial, 1, old)
           p1 == SubSeq(partial, old + 1, Len(partial))
           b2 == SubSeq(pipe, 1, new)
           p2 == SubSeq(pipe, new + 1, Len(pipe))
<1>1. Len(partial) \in Nat /\ Len(pipe) \in Nat
  BY LenProperties
<1>2. old \in 0..Len(partial) /\ old <= n /\ (Len(partial) <= n => old = Len(partial)) /\ (Len(partial) > n => old = n)
  BY <1>1 DEF Least
<1>3. new \in 0..Len(pipe) /\ old + new <= n /\ (n - old = 0 => new = 0) /\ (old + new < n => new = Len(pipe))
  <2> HIDE DEF old
  <2>1. n - old \in Nat
    BY <1>2, <1>1
  <2> QED BY <2>1, <1>1, <1>2 DEF Least
<1> HIDE DEF old, new
<1>4. /\ b1 \in Seq(Byte) /\ p1 \in Seq(Byte) /\ Len(b1) = old /\ Len(p1) = Len(partial) - old /\ b1 \o p1 = partial
      /\ b2 \in Seq(Byte) /\ p2 \in Seq(Byte) /\ Len(b2) = new /\ Len(p2) = Len(pipe) - new /\ b2 \o p2 = pipe
  BY <1>2, <1>3, CutInTwo
<1> HIDE DEF b1, p1, b2, p2
<1>5. /\ PlRead(n).bytes = b1 \o b2 /\ PlRead(n).partial = p1 /\ PlRead(n).pipe = p2
  BY DEF PlRead, old, new, b1, b2, p1, p2
<1>6. b1 \o b2 \in Seq(Byte) /\ Len(b1 \o b2) = old + new
  BY <1>4, Joined
<1>7. Len(partial) <= n => p1 = << >>
  BY <1>1, <1>2, <1>4, EmptySeq
<1>8. (b1 \o b2) \o (p1 \o p2) = partial \o pipe
  <2>1. CASE Len(partial) <= n
    <3>1. p1 = << >> /\ b1 = partial
      BY <1>4, <1>7, <2>1, WithNothing
    <3>2. p1 \o p2 = p2
      BY <1>4, <3>1, WithNothing
    <3>3. (b1 \o b2) \o p2 = b1 \o (b2 \o p2)
      <4>1. b1 \in Seq(Byte) /\ b2 \in Seq(Byte) /\ p2 \in Seq(Byte)
        BY <1>4
      <4> QED BY <4>1, Regroup, Zenon
    <3> QED BY <1>4, <3>1, <3>2, <3>3
  <2>2. CASE Len(partial) > n
    <3>1. b2 = << >>
      BY <1>1, <1>2, <1>3, <1>4, <2>2, EmptySeq
    <3>2. b1 \o b2 = b1 /\ b2 \o p2 = p2
      BY <1>4, <3>1, WithNothing
    <3>3. b1 \o (p1 \o p2) = (b1 \o p1) \o p2
      <4>1. b1 \in Seq(Byte) /\ p1 \in Seq(Byte) /\ p2 \in Seq(Byte)
        BY <1>4
      <4> QED BY <4>1, Regroup, Zenon
    <3> QED BY <1>4, <3>2, <3>3
  <2>3. Len(partial) <= n \/ Len(partial) > n
    BY <1>1
  <2> QED BY <2>1, <2>2, <2>3, Zenon
<1>9. ASSUME b1 \o b2 = << >>, n > 0 PROVE partial = << >> /\ pipe = << >> /\ p1 = << >> /\ p2 = << >>
  <2>1. old + new = 0
    BY <1>6, <1>9, EmptySeq
  <2>2. Len(partial) = 0 /\ Len(pipe) = 0
    BY <2>1, <1>1, <1>2, <1>3, <1>9
  <2>3. Len(p1) = 0 /\ Len(p2) = 0
    <3> DEFINE l1 == Len(p1)
               l2 == Len(p2)
    <3>1. l1 = Len(partial) - old /\ l2 = Len(pipe) - new
      BY <1>4
    <3> HIDE DEF l1, l2
    <3>2. l1 = 0 /\ l2 = 0
      <4>1. old = 0 /\ new = 0
        BY <2>1, <2>2, <1>2, <1>3
      <4> QED BY <3>1, <2>2, <4>1
    <3> QED BY <3>2 DEF l1, l2
  <2> QED BY <2>2, <2>3, <1>4, EmptySeq
<1>10. pipe = << >> => p2 = << >>
  BY <1>1, <1>3, <1>4, EmptySeq
<1>11. ASSUME partial = << >>, pipe = << >> PROVE b1 \o b2 = << >>
  <2>1. Len(partial) = 0 /\ Len(pipe) = 0
    BY <1>11, EmptySeq
  <2>2. old + new = 0
    BY <2>1, <1>2, <1>3
  <2> QED BY <2>2, <1>6, EmptySeq
<1>12. /\ Len(b1 \o b2) <= n /\ Len(p2) <= Len(pipe)
       /\ Len(partial) > n => Len(b1 \o b2) = n /\ Len(p1) = Len(partial) - n
  <2> DEFINE l == Len(b1 \o b2)
             l1 == Len(p1)
             l2 == Len(p2)
  <2>1. l = old + new /\ l1 = Len(partial) - old /\ l2 = Len(pipe) - new
    BY <1>4, <1>6
  <2> HIDE DEF l, l1, l2
  <2>2. Len(partial) > n => old = n /\ new = 0
    BY <1>1, <1>2, <1>3
  <2>3. l <= n /\ l2 <= Len(pipe) /\ (Len(partial) > n => l = n /\ l1 = Len(partial) - n)
    BY <1>1, <1>2, <1>3, <2>1, <2>2
  <2> QED BY <2>3 DEF l, l1, l2
<1> QED BY <1>4, <1>5, <1>6, <1>7, <1>8, <1>9, <1>10, <1>11, <1>12, Zenon

-----------------------------------------------------------------------------
(* The packets under way.                                                  *)

\* A header is bytes.
LEMMA HeaderBytes ==
  ASSUME NEW n \in Nat
  PROVE  /\ Header(n) \in Seq(Byte) /\ Len(Header(n)) = HeaderSize
         /\ \A k \in 1..HeaderSize : Header(n)[k] = << n, 0, k >>
BY Sizings DEF Header, Byte

\* The first of the packets under way lies at the front.
LEMMA FirstPacket ==
  ASSUME NEW start, NEW s \in Seq(Seq(Byte)), NEW a \in 1..Len(s), NEW f \in Seq(Byte),
         Starts(start, s), Carries(start, s, a, f)
  PROVE  /\ Len(s[a]) \in Nat /\ HeaderSize + Len(s[a]) <= Len(f)
         /\ \A k \in 1..HeaderSize : f[k] = << Len(s[a]), 0, k >>
         /\ \A k \in 1..Len(s[a]) : f[HeaderSize + k] = s[a][k]
         /\ a # Len(s) => HeaderSize + Len(s[a]) + HeaderSize + Len(s[Len(s)]) <= Len(f)
<1>1. /\ Len(s) \in Nat /\ a \in Nat /\ a <= Len(s) /\ a + 1 <= Len(s) + 1 /\ HeaderSize \in Nat
      /\ a \in a..Len(s) /\ a + 1 \in 1..Len(s) + 1 /\ Len(s) + 1 \in 1..Len(s) + 1 /\ a \in 1..Len(s) + 1
      /\ Len(s) \in 1..Len(s)
  BY Sizings, LenProperties
<1>2. s[a] \in Seq(Byte) /\ s[Len(s)] \in Seq(Byte)
  BY <1>1, ElementOfSeq
<1>3. Len(s[a]) \in Nat /\ Len(s[Len(s)]) \in Nat /\ Len(f) \in Nat
  BY <1>2, LenProperties
<1>4. /\ start[a] \in Nat /\ start[a + 1] \in Nat /\ start[Len(s) + 1] \in Nat
      /\ start[a + 1] = start[a] + HeaderSize + Len(s[a]) /\ start[a + 1] <= start[Len(s) + 1]
      /\ start[Len(s) + 1] = start[Len(s)] + HeaderSize + Len(s[Len(s)])
      /\ start[Len(s)] \in Nat /\ (a # Len(s) => start[a + 1] <= start[Len(s)])
  <2>1. a # Len(s) => a + 1 <= Len(s) /\ Len(s) \in 1..Len(s) + 1
    BY <1>1
  <2> QED BY <1>1, <2>1 DEF Starts
<1>5. Len(f) = start[Len(s) + 1] - start[a]
  BY DEF Carries
<1>6. start[a] - start[a] = 0
  BY <1>4
<1>7. /\ \A k \in 1..HeaderSize : f[0 + k] = << Len(s[a]), 0, k >>
      /\ \A k \in 1..Len(s[a]) : f[0 + HeaderSize + k] = s[a][k]
  BY <1>1, <1>6 DEF Carries
<1>8. \A k \in 1..HeaderSize : 0 + k = k
  BY <1>1
<1>9. 0 + HeaderSize = HeaderSize
  BY <1>1
<1>10. /\ HeaderSize + Len(s[a]) <= Len(f)
       /\ a # Len(s) => HeaderSize + Len(s[a]) + HeaderSize + Len(s[Len(s)]) <= Len(f)
  <2> DEFINE m == Len(s[a])
             l == Len(s[Len(s)])
             g == Len(f)
             e == start[Len(s) + 1]
             b == start[a]
             c == start[a + 1]
             d == start[Len(s)]
  <2>1. /\ m \in Nat /\ l \in Nat /\ g \in Nat /\ e \in Nat /\ b \in Nat /\ c \in Nat /\ d \in Nat
        /\ c = b + HeaderSize + m /\ c <= e /\ e = d + HeaderSize + l /\ (a # Len(s) => c <= d) /\ g = e - b
    BY <1>3, <1>4, <1>5
  <2> HIDE DEF m, l, g, e, b, c, d
  <2>2. HeaderSize + m <= g /\ (a # Len(s) => HeaderSize + m + HeaderSize + l <= g)
    BY <1>1, <2>1
  <2> QED BY <2>2 DEF m, l, g
<1> QED BY <1>3, <1>7, <1>8, <1>9, <1>10

\* Nothing is under way exactly when there is no packet that has not arrived.
LEMMA NothingLeft ==
  ASSUME NEW start, NEW s \in Seq(Seq(Byte)), NEW a \in 1..Len(s) + 1, NEW f \in Seq(Byte),
         Starts(start, s), Carries(start, s, a, f)
  PROVE  f = << >> <=> a = Len(s) + 1
<1>1. Len(s) \in Nat /\ HeaderSize \in Nat \ {0} /\ Len(f) \in Nat
  BY Sizings, LenProperties
<1>2. ASSUME a = Len(s) + 1 PROVE f = << >>
  <2>1. start[a] \in Nat
    BY DEF Starts
  <2>2. Len(f) = 0
    BY <1>2, <2>1 DEF Carries
  <2> QED BY <2>2, EmptySeq
<1>3. ASSUME a # Len(s) + 1 PROVE f # << >>
  <2>1. a \in 1..Len(s)
    BY <1>1, <1>3
  <2>2. Len(s[a]) \in Nat /\ HeaderSize + Len(s[a]) <= Len(f)
    BY <2>1, FirstPacket
  <2>3. Len(f) # 0
    BY <1>1, <2>2
  <2> QED BY <2>3, EmptySeq
<1> QED BY <1>2, <1>3

\* The bytes of the first packet under way are taken out, and the others are left.
LEMMA TakeOut ==
  ASSUME NEW start, NEW s \in Seq(Seq(Byte)), NEW a \in 1..Len(s),
         NEW h \in Seq(Byte), NEW b \in Seq(Byte), NEW r \in Seq(Byte),
         Len(h) = HeaderSize, Len(b) = Len(s[a]),
         Starts(start, s), Carries(start, s, a, h \o (b \o r))
  PROVE  b = s[a] /\ Carries(start, s, a + 1, r)
<1> DEFINE f == h \o (b \o r)
           n == Len(s[a])
<1>1. /\ b \o r \in Seq(Byte) /\ Len(b \o r) = n + Len(r) /\ Len(r) \in Nat
      /\ \A k \in 1..n : (b \o r)[k] = b[k]
      /\ \A k \in 1..Len(r) : (b \o r)[n + k] = r[k]
  <2>1. /\ b \o r \in Seq(Byte) /\ Len(b \o r) = Len(b) + Len(r) /\ Len(b) \in Nat /\ Len(r) \in Nat
        /\ \A k \in 1..Len(b) : (b \o r)[k] = b[k]
        /\ \A k \in 1..Len(r) : (b \o r)[Len(b) + k] = r[k]
    BY Joined
  <2> QED BY <2>1
<1>2. /\ f \in Seq(Byte) /\ Len(f) = HeaderSize + (n + Len(r))
      /\ \A k \in 1..n + Len(r) : f[HeaderSize + k] = (b \o r)[k]
  <2> DEFINE c == b \o r
  <2>1. c \in Seq(Byte) /\ Len(c) = n + Len(r)
    BY <1>1
  <2> HIDE DEF c, n
  <2>2. /\ h \o c \in Seq(Byte) /\ Len(h \o c) = Len(h) + Len(c) /\ Len(h) \in Nat /\ Len(c) \in Nat
        /\ \A k \in 1..Len(h) : (h \o c)[k] = h[k]
        /\ \A k \in 1..Len(c) : (h \o c)[Len(h) + k] = c[k]
    BY <2>1, Joined
  <2> QED BY <2>1, <2>2 DEF c
<1> HIDE DEF f
<1>3. /\ n \in Nat
      /\ \A k \in 1..n : f[HeaderSize + k] = s[a][k]
  BY <1>2, FirstPacket DEF f
<1>4. b = s[a]
  <2>1. s[a] \in Seq(Byte)
    BY ElementOfSeq
  <2>2. \A k \in 1..n : b[k] = s[a][k]
    <3> SUFFICES ASSUME NEW k \in 1..n PROVE b[k] = s[a][k]
      OBVIOUS
    <3>1. k \in 1..n + Len(r)
      BY <1>1, <1>3
    <3> QED BY <1>1, <1>2, <1>3, <3>1
  <2> QED BY <2>1, <2>2, SeqEqual
<1>5. /\ Len(s) \in Nat /\ a + 1 \in 1..Len(s) + 1 /\ Len(s) + 1 \in 1..Len(s) + 1 /\ a \in 1..Len(s) + 1 /\ HeaderSize \in Nat
  BY Sizings, LenProperties
<1>6. /\ start[a] \in Nat /\ start[a + 1] \in Nat /\ start[Len(s) + 1] \in Nat
      /\ start[a + 1] = start[a] + HeaderSize + n
  BY <1>5 DEF Starts
<1>7. Len(r) = start[Len(s) + 1] - start[a + 1]
  <2>1. HeaderSize + (n + Len(r)) = start[Len(s) + 1] - start[a]
    BY <1>2 DEF Carries, f
  <2> HIDE DEF n
  <2> DEFINE x == start[a]
             y == start[a + 1]
             z == start[Len(s) + 1]
             l == Len(r)
  <2>2. /\ x \in Nat /\ y \in Nat /\ z \in Nat /\ l \in Nat /\ y = x + HeaderSize + n
        /\ HeaderSize + (n + l) = z - x
    BY <1>1, <1>6, <2>1
  <2> HIDE DEF x, y, z, l
  <2>3. l = z - y
    BY <1>3, <1>5, <2>2
  <2> QED BY <2>3 DEF y, z, l
<1>8. ASSUME NEW j \in Nat, HeaderSize + n + j \in Nat, NEW i \in a + 1..Len(s), NEW e,
             f[start[i] - start[a] + j] = e, start[i] - start[a + 1] + j \in 1..Len(r)
      PROVE  r[start[i] - start[a + 1] + j] = e
  <2> DEFINE m == start[i] - start[a + 1] + j
  <2>1. start[i] \in Nat
    <3>1. i \in 1..Len(s) + 1
      BY <1>5
    <3> QED BY <3>1 DEF Starts
  <2>2. n + m \in 1..n + Len(r) /\ start[i] - start[a] + j = HeaderSize + (n + m)
    <3> DEFINE x == start[a]
               y == start[a + 1]
               z == start[i]
               l == Len(r)
    <3>1. /\ x \in Nat /\ y \in Nat /\ z \in Nat /\ l \in Nat /\ y = x + HeaderSize + n /\ z - y + j \in 1..l
      BY <1>1, <1>6, <1>8, <2>1
    <3> HIDE DEF x, y, z, l, n
    <3>2. n + (z - y + j) \in 1..n + l /\ z - x + j = HeaderSize + (n + (z - y + j))
      BY <1>3, <1>5, <3>1
    <3> QED BY <3>2 DEF x, y, z, l
  <2> HIDE DEF m, n
  <2>3. f[HeaderSize + (n + m)] = (b \o r)[n + m]
    BY <1>2, <2>2
  <2>4. (b \o r)[n + m] = r[m]
    BY <1>1, <1>8 DEF m
  <2> QED BY <1>8, <2>2, <2>3, <2>4 DEF m
<1>9. ASSUME NEW i \in a + 1..Len(s)
      PROVE  /\ \A k \in 1..HeaderSize : r[start[i] - start[a + 1] + k] = << Len(s[i]), 0, k >>
             /\ \A k \in 1..Len(s[i]) : r[start[i] - start[a + 1] + HeaderSize + k] = s[i][k]
  <2>1. /\ i \in 1..Len(s) /\ i \in a..Len(s) /\ i + 1 \in 1..Len(s) + 1 /\ i \in 1..Len(s) + 1
        /\ a + 1 <= i /\ i + 1 <= Len(s) + 1
    BY <1>5
  <2>2. s[i] \in Seq(Byte) /\ Len(s[i]) \in Nat
    BY <2>1, ElementOfSeq, LenProperties
  <2>3. /\ start[i] \in Nat /\ start[i + 1] \in Nat /\ start[i + 1] = start[i] + HeaderSize + Len(s[i])
        /\ start[a + 1] <= start[i] /\ start[i + 1] <= start[Len(s) + 1]
    BY <1>5, <2>1 DEF Starts
  <2>4. /\ \A k \in 1..HeaderSize : f[start[i] - start[a] + k] = << Len(s[i]), 0, k >>
        /\ \A k \in 1..Len(s[i]) : f[start[i] - start[a] + HeaderSize + k] = s[i][k]
    BY <2>1 DEF Carries, f
  <2>5. ASSUME NEW j \in 1..HeaderSize + Len(s[i]) PROVE start[i] - start[a + 1] + j \in 1..Len(r) /\ HeaderSize + n + j \in Nat
    <3> DEFINE y == start[a + 1]
               z == start[i]
               w == start[i + 1]
               v == start[Len(s) + 1]
               l == Len(r)
               o == Len(s[i])
    <3>1. /\ y \in Nat /\ z \in Nat /\ w \in Nat /\ v \in Nat /\ l \in Nat /\ o \in Nat /\ w = z + HeaderSize + o
          /\ y <= z /\ w <= v /\ l = v - y /\ j \in 1..HeaderSize + o
      BY <1>1, <1>6, <1>7, <2>2, <2>3
    <3> HIDE DEF y, z, w, v, l, o, n
    <3>2. z - y + j \in 1..l /\ HeaderSize + n + j \in Nat
      BY <1>3, <1>5, <3>1
    <3> QED BY <3>2 DEF y, z, l
  <2>6. ASSUME NEW k \in 1..HeaderSize PROVE r[start[i] - start[a + 1] + k] = << Len(s[i]), 0, k >>
    <3>1. k \in 1..HeaderSize + Len(s[i]) /\ k \in Nat
      BY <1>5, <2>2
    <3> QED BY <1>8, <2>4, <2>5, <3>1
  <2>7. ASSUME NEW k \in 1..Len(s[i]) PROVE r[start[i] - start[a + 1] + HeaderSize + k] = s[i][k]
    <3>1. HeaderSize + k \in 1..HeaderSize + Len(s[i]) /\ HeaderSize + k \in Nat
      BY <1>5, <2>2
    <3>2. /\ start[i] - start[a] + HeaderSize + k = start[i] - start[a] + (HeaderSize + k)
          /\ start[i] - start[a + 1] + HeaderSize + k = start[i] - start[a + 1] + (HeaderSize + k)
      <4> DEFINE x == start[a]
                 y == start[a + 1]
                 z == start[i]
      <4>1. x \in Nat /\ y \in Nat /\ z \in Nat /\ k \in Nat
        BY <1>6, <2>2, <2>3
      <4> HIDE DEF x, y, z
      <4>2. z - x + HeaderSize + k = z - x + (HeaderSize + k) /\ z - y + HeaderSize + k = z - y + (HeaderSize + k)
        BY <1>5, <4>1
      <4> QED BY <4>2 DEF x, y, z
    <3>3. f[start[i] - start[a] + (HeaderSize + k)] = s[i][k]
      BY <2>4, <3>2
    <3> QED BY <1>8, <2>5, <3>1, <3>2, <3>3
  <2> QED BY <2>6, <2>7
<1> QED BY <1>4, <1>7, <1>9 DEF Carries

\* A packet that is sent comes behind those under way.
LEMMA PutIn ==
  ASSUME NEW start, NEW s \in Seq(Seq(Byte)), NEW a \in 1..Len(s) + 1, NEW f \in Seq(Byte), NEW body \in Seq(Byte),
         Starts(start, s), Carries(start, s, a, f)
  PROVE  \E st : Starts(st, Append(s, body)) /\ Carries(st, Append(s, body), a, f \o (Header(Len(body)) \o body))
<1> DEFINE n == Len(s)
           t == Append(s, body)
           m == Len(body)
           h == Header(m)
           g == f \o (h \o body)
           last == start[n + 1] + HeaderSize + m
           st == [i \in 1..n + 2 |-> IF i = n + 2 THEN last ELSE start[i]]
<1>1. n \in Nat /\ m \in Nat /\ HeaderSize \in Nat /\ Len(f) \in Nat
  BY Sizings, LenProperties
<1>2. /\ t \in Seq(Seq(Byte)) /\ Len(t) = n + 1 /\ t[n + 1] = body /\ \A i \in 1..n : t[i] = s[i]
  BY AppendProperties
<1>3. /\ start \in [1..n + 1 -> Nat] /\ \A i \in 1..n : start[i + 1] = start[i] + HeaderSize + Len(s[i])
      /\ \A i, j \in 1..n + 1 : i <= j => start[i] <= start[j]
  BY DEF Starts
<1>4. h \in Seq(Byte) /\ Len(h) = HeaderSize /\ \A k \in 1..HeaderSize : h[k] = << m, 0, k >>
  BY <1>1, HeaderBytes
<1> HIDE DEF h, m, n, t
<1>5. n + 1 \in 1..n + 1 /\ start[n + 1] \in Nat /\ start[a] \in Nat /\ start[a] <= start[n + 1] /\ a \in Nat
  <2>1. n + 1 \in 1..n + 1 /\ a \in 1..n + 1 /\ a <= n + 1 /\ a \in Nat
    BY <1>1 DEF n
  <2> QED BY <1>3, <2>1
<1>6. last \in Nat /\ start[n + 1] <= last
  BY <1>1, <1>5
<1>7. /\ st \in [1..n + 2 -> Nat] /\ st[n + 2] = last /\ \A i \in 1..n + 1 : st[i] = start[i]
  <2> HIDE DEF last
  <2>1. \A i \in 1..n + 2 : i # n + 2 => i \in 1..n + 1
    BY <1>1
  <2>2. \A i \in 1..n + 1 : i # n + 2 /\ i \in 1..n + 2
    BY <1>1
  <2>3. n + 2 \in 1..n + 2
    BY <1>1
  <2> QED BY <1>3, <1>6, <2>1, <2>2, <2>3
<1> HIDE DEF last, st
<1>8. Starts(st, t)
  <2>1. n + 1 + 1 = n + 2 /\ Len(t) + 1 = n + 2
    BY <1>1, <1>2
  <2>2. ASSUME NEW i \in 1..n + 1 PROVE st[i + 1] = st[i] + HeaderSize + Len(t[i])
    <3>1. CASE i = n + 1
      <4>1. st[n + 1] = start[n + 1]
        BY <1>5, <1>7
      <4> QED BY <1>2, <1>7, <2>1, <3>1, <4>1 DEF last, m
    <3>2. CASE i # n + 1
      <4>1. i \in 1..n /\ i + 1 \in 1..n + 1
        BY <1>1, <3>2
      <4> QED BY <1>2, <1>3, <1>7, <4>1
    <3> QED BY <3>1, <3>2
  <2>3. ASSUME NEW i \in 1..n + 2, NEW j \in 1..n + 2, i <= j PROVE st[i] <= st[j]
    <3>1. CASE j = n + 2 /\ i = n + 2
      BY <1>6, <1>7, <3>1
    <3>2. CASE j = n + 2 /\ i # n + 2
      <4>1. i \in 1..n + 1 /\ i <= n + 1
        BY <1>1, <3>2
      <4>2. start[i] <= start[n + 1] /\ start[i] \in Nat
        BY <1>3, <1>5, <4>1
      <4>3. st[i] = start[i]
        BY <1>7, <4>1
      <4> QED BY <1>5, <1>6, <1>7, <3>2, <4>2, <4>3
    <3>3. CASE j # n + 2
      <4>1. i \in 1..n + 1 /\ j \in 1..n + 1
        BY <1>1, <2>3, <3>3
      <4> QED BY <1>3, <1>7, <2>3, <4>1
    <3> QED BY <3>1, <3>2, <3>3
  <2> QED BY <1>2, <1>7, <2>1, <2>2, <2>3 DEF Starts
<1>9. /\ g \in Seq(Byte) /\ Len(g) = Len(f) + (HeaderSize + m)
      /\ \A k \in 1..Len(f) : g[k] = f[k]
      /\ \A k \in 1..HeaderSize : g[Len(f) + k] = << m, 0, k >>
      /\ \A k \in 1..m : g[Len(f) + (HeaderSize + k)] = body[k]
  <2> DEFINE u == h \o body
  <2>1. /\ u \in Seq(Byte) /\ Len(u) = HeaderSize + m
        /\ \A k \in 1..HeaderSize : u[k] = h[k]
        /\ \A k \in 1..m : u[HeaderSize + k] = body[k]
    BY <1>4, Joined DEF m
  <2> HIDE DEF u
  <2>2. /\ f \o u \in Seq(Byte) /\ Len(f \o u) = Len(f) + Len(u)
        /\ \A k \in 1..Len(f) : (f \o u)[k] = f[k]
        /\ \A k \in 1..Len(u) : (f \o u)[Len(f) + k] = u[k]
    BY <2>1, Joined
  <2>3. \A k \in 1..HeaderSize : k \in 1..HeaderSize + m
    BY <1>1
  <2>4. \A k \in 1..m : HeaderSize + k \in 1..HeaderSize + m
    BY <1>1
  <2> QED BY <1>4, <2>1, <2>2, <2>3, <2>4 DEF u
<1> HIDE DEF g
<1>10. Len(f) = start[n + 1] - start[a]
  BY DEF Carries, n
<1>11. st[a] = start[a] /\ st[n + 1] = start[n + 1] /\ n + 1 + 1 = n + 2
  <2>1. a \in 1..n + 1
    BY DEF n
  <2> QED BY <1>1, <1>5, <1>7, <2>1
<1>12. Len(g) = st[Len(t) + 1] - st[a]
  <2> DEFINE x == start[n + 1]
             y == start[a]
  <2>1. x \in Nat /\ y \in Nat /\ Len(g) = (x - y) + (HeaderSize + m) /\ last = x + HeaderSize + m
    BY <1>5, <1>9, <1>10 DEF last
  <2>2. st[Len(t) + 1] = last /\ st[a] = y
    BY <1>2, <1>7, <1>11
  <2> HIDE DEF x, y
  <2> QED BY <1>1, <2>1, <2>2
<1>13. ASSUME NEW i \in a..Len(t)
       PROVE  /\ \A k \in 1..HeaderSize : g[st[i] - st[a] + k] = << Len(t[i]), 0, k >>
              /\ \A k \in 1..Len(t[i]) : g[st[i] - st[a] + HeaderSize + k] = t[i][k]
  <2>1. CASE i = n + 1
    <3>1. st[i] - st[a] = Len(f) /\ t[i] = body /\ Len(t[i]) = m
      BY <1>2, <1>10, <1>11, <2>1 DEF m
    <3>2. \A k \in 1..m : Len(f) + HeaderSize + k = Len(f) + (HeaderSize + k)
      BY <1>1
    <3> QED BY <1>9, <3>1, <3>2
  <2>2. CASE i # n + 1
    <3>1. i \in a..n /\ i \in 1..n /\ i \in 1..n + 1 /\ i + 1 \in 1..n + 1 /\ a \in 1..n + 1 /\ a <= i /\ i + 1 <= n + 1
      BY <1>1, <1>2, <1>5, <2>2 DEF n
    <3>2. st[i] = start[i] /\ st[a] = start[a] /\ t[i] = s[i]
      BY <1>2, <1>7, <3>1
    <3>3. Len(s[i]) \in Nat
      <4>1. s[i] \in Seq(Byte)
        BY <3>1, ElementOfSeq DEF n
      <4> QED BY <4>1, LenProperties
    <3>4. /\ \A k \in 1..HeaderSize : f[start[i] - start[a] + k] = << Len(s[i]), 0, k >>
          /\ \A k \in 1..Len(s[i]) : f[start[i] - start[a] + HeaderSize + k] = s[i][k]
      BY <3>1 DEF Carries, n
    <3>5. /\ start[i] \in Nat /\ start[i + 1] \in Nat /\ start[i + 1] = start[i] + HeaderSize + Len(s[i])
          /\ start[a] <= start[i] /\ start[i + 1] <= start[n + 1]
      BY <1>3, <1>5, <3>1
    <3>6. ASSUME NEW j \in 1..HeaderSize + Len(s[i]) PROVE start[i] - start[a] + j \in 1..Len(f)
      <4> DEFINE x == start[n + 1]
                 y == start[a]
                 z == start[i]
                 w == start[i + 1]
                 o == Len(s[i])
                 l == Len(f)
      <4>1. /\ x \in Nat /\ y \in Nat /\ z \in Nat /\ w \in Nat /\ o \in Nat /\ l = x - y
            /\ w = z + HeaderSize + o /\ y <= z /\ w <= x /\ j \in 1..HeaderSize + o
        BY <1>5, <1>10, <3>3, <3>5
      <4> HIDE DEF x, y, z, w, o, l
      <4>2. z - y + j \in 1..l
        BY <1>1, <4>1
      <4> QED BY <4>2 DEF z, y, l
    <3>7. ASSUME NEW k \in 1..HeaderSize PROVE g[st[i] - st[a] + k] = << Len(t[i]), 0, k >>
      <4>1. k \in 1..HeaderSize + Len(s[i])
        BY <1>1, <3>3
      <4>2. start[i] - start[a] + k \in 1..Len(f)
        BY <3>6, <4>1
      <4> QED BY <1>9, <3>2, <3>4, <4>2
    <3>8. ASSUME NEW k \in 1..Len(t[i]) PROVE g[st[i] - st[a] + HeaderSize + k] = t[i][k]
      <4>1. HeaderSize + k \in 1..HeaderSize + Len(s[i]) /\ k \in 1..Len(s[i]) /\ k \in Nat
        BY <1>1, <3>2, <3>3
      <4>2. start[i] - start[a] + HeaderSize + k = start[i] - start[a] + (HeaderSize + k)
        <5> DEFINE x == start[i]
                   y == start[a]
        <5>1. x \in Nat /\ y \in Nat
          BY <1>5, <3>5
        <5> HIDE DEF x, y
        <5>2. x - y + HeaderSize + k = x - y + (HeaderSize + k)
          BY <1>1, <4>1, <5>1
        <5> QED BY <5>2 DEF x, y
      <4>3. start[i] - start[a] + HeaderSize + k \in 1..Len(f)
        BY <3>6, <4>1, <4>2
      <4> QED BY <1>9, <3>2, <3>4, <4>1, <4>3
    <3> QED BY <3>7, <3>8
  <2> QED BY <2>1, <2>2
<1>14. Carries(st, t, a, g)
  BY <1>12, <1>13 DEF Carries
<1> QED BY <1>8, <1>14 DEF t, g, h, m

-----------------------------------------------------------------------------
(* The initial state, and what the invariant says of kinds.                *)

\* Nothing is under way at first.
LEMMA InitiallyNothing == Init => IInv
<1> SUFFICES ASSUME Init PROVE IInv
  OBVIOUS
<1> USE DEF Init
<1>1. /\ << >> \in Seq(Byte) /\ << >> \in Seq(Seq(Byte)) /\ << >> \in Seq(Sizes) /\ Len(<< >>) = 0
  BY EmptySeq
<1>2. ProgramOK
  <2>1. commands \in Seq(Sizes) /\ buffer \in Seq(Byte) /\ unsent \in Seq(Byte) /\ sent \in Seq(Seq(Byte))
    BY <1>1
  <2>2. Len(commands) <= MaxCommands /\ loose \in 0..Len(buffer) /\ Len(buffer) - loose <= BufMax
    BY <1>1, Sizings
  <2>3. \A i \in 1..Len(sent) : Whole(sent[i], commands)
    BY <1>1
  <2> QED BY <2>1, <2>2, <2>3 DEF ProgramOK
<1>3. PlserverOK
  BY <1>1, Sizings DEF PlserverOK, at
<1>4. flow = << >>
  <2>1. << >> \o << >> = << >>
    BY <1>1, WithNothing
  <2> QED BY <2>1 DEF flow
<1> DEFINE start == [i \in 1..1 |-> 0]
<1>5. Starts(start, sent)
  BY <1>1 DEF Starts
<1>6. Carries(start, sent, at, flow)
  <2>1. Len(sent) = 0 /\ at = 1 /\ Len(flow) = 0
    BY <1>1, <1>4 DEF at
  <2> QED BY <2>1 DEF Carries
<1> QED BY <1>2, <1>3, <1>5, <1>6 DEF IInv, UnderWay

\* The kinds of things, and that no packet is empty.
LEMMA KindsOf ==
  ASSUME IInv
  PROVE  /\ commands \in Seq(Sizes) /\ Len(commands) \in Nat
         /\ unsent \in Seq(Byte) /\ buffer \in Seq(Byte) /\ pipe \in Seq(Byte) /\ partial \in Seq(Byte) /\ hbuf \in Seq(Byte)
         /\ sent \in Seq(Seq(Byte)) /\ Len(sent) \in Nat /\ at \in 1..Len(sent) + 1 /\ Len(arrived) \in Nat
         /\ \A i \in 1..Len(sent) : sent[i] \in Seq(Byte) /\ Len(sent[i]) \in Nat \ {0} /\ sent[i] # << >>
         /\ flow \in Seq(Byte)
<1>1. /\ commands \in Seq(Sizes) /\ unsent \in Seq(Byte) /\ buffer \in Seq(Byte) /\ pipe \in Seq(Byte) /\ partial \in Seq(Byte)
      /\ hbuf \in Seq(Byte) /\ sent \in Seq(Seq(Byte)) /\ arrived \in Seq(Seq(Byte)) /\ Len(arrived) <= Len(sent)
      /\ \A i \in 1..Len(sent) : sent[i] # << >>
  BY DEF IInv, ProgramOK, PlserverOK, Whole
<1>2. Len(commands) \in Nat /\ Len(sent) \in Nat /\ Len(arrived) \in Nat
  BY <1>1, LenProperties
<1>3. at \in 1..Len(sent) + 1
  BY <1>1, <1>2 DEF at
<1>4. \A i \in 1..Len(sent) : sent[i] \in Seq(Byte)
  BY <1>1, ElementOfSeq
<1>5. \A i \in 1..Len(sent) : Len(sent[i]) \in Nat \ {0}
  BY <1>1, <1>4, EmptySeq
<1>6. << >> \in Seq(Byte)
  BY EmptySeq
<1>7. pipe \o unsent \in Seq(Byte)
  BY <1>1, ConcatProperties
<1>8. partial \o (pipe \o unsent) \in Seq(Byte)
  BY <1>1, <1>7, ConcatProperties
<1>9. hbuf \o (partial \o (pipe \o unsent)) \in Seq(Byte) /\ << >> \o (partial \o (pipe \o unsent)) \in Seq(Byte)
  BY <1>1, <1>6, <1>8, ConcatProperties
<1>10. flow \in Seq(Byte)
  BY <1>9 DEF flow
<1> QED BY <1>1, <1>2, <1>3, <1>4, <1>5, <1>10

-----------------------------------------------------------------------------
(* The program.                                                            *)

\* The whole commands of a packet are not undone by another one.
LEMMA WholeKept ==
  ASSUME NEW c \in Seq(Sizes), NEW n \in Sizes, NEW p, Whole(p, c)
  PROVE  Whole(p, Append(c, n))
<1>1. Len(c) \in Nat /\ Len(Append(c, n)) = Len(c) + 1 /\ \A i \in 1..Len(c) : Append(c, n)[i] = c[i]
  BY AppendProperties, LenProperties
<1> DEFINE d == Append(c, n)
<1> HIDE DEF d
<1>2. Len(c) \in Nat /\ Len(d) = Len(c) + 1 /\ \A i \in 1..Len(c) : d[i] = c[i]
  BY <1>1 DEF d
<1>3. Whole(p, d)
  BY <1>2 DEF Whole
<1> QED BY <1>3 DEF d

\* A command that is put behind whole ones leaves whole ones.
LEMMA OneMore ==
  ASSUME NEW c \in Seq(Sizes), NEW n \in Sizes, NEW p \in Seq(Byte), p # << >> => Whole(p, c)
  PROVE  /\ p \o Bytes(Len(c) + 1, n) \in Seq(Byte)
         /\ Len(p \o Bytes(Len(c) + 1, n)) = Len(p) + n
         /\ Whole(p \o Bytes(Len(c) + 1, n), Append(c, n))
<1> DEFINE b == Bytes(Len(c) + 1, n)
           q == p \o b
           d == Append(c, n)
<1>1. n \in Nat \ {0} /\ Len(c) \in Nat /\ Len(p) \in Nat
  BY Sizings, LenProperties
<1>2. b \in Seq(Byte) /\ Len(b) = n /\ \A k \in 1..n : b[k] = << 0, Len(c) + 1, k >>
  BY <1>1 DEF Bytes, Byte
<1> HIDE DEF b
<1>3. /\ q \in Seq(Byte) /\ Len(q) = Len(p) + n
      /\ \A k \in 1..Len(p) : q[k] = p[k]
      /\ \A k \in 1..n : q[Len(p) + k] = b[k]
  BY <1>2, Joined
<1> HIDE DEF q
<1>4. Len(d) = Len(c) + 1 /\ d[Len(c) + 1] = n
  BY AppendProperties
<1> HIDE DEF d
<1>5. 1 \in 1..n /\ n \in 1..n
  BY <1>1
<1>6. q[Len(q)] = << 0, Len(c) + 1, n >>
  BY <1>2, <1>3, <1>5
<1>7. q[Len(q)][2] = Len(c) + 1 /\ q[Len(q)][3] = n
  BY <1>6
<1>8. q # << >>
  <2>1. Len(q) # 0
    BY <1>1, <1>3
  <2> QED BY <2>1, EmptySeq
<1>9. q[1][3] = 1
  <2>1. CASE p = << >>
    <3>1. Len(p) = 0
      BY <2>1, EmptySeq
    <3>2. q[0 + 1] = b[1]
      BY <1>3, <1>5, <3>1
    <3>3. q[1] = << 0, Len(c) + 1, 1 >>
      BY <1>2, <1>5, <3>2
    <3> QED BY <3>3
  <2>2. CASE p # << >>
    <3>1. 1 \in 1..Len(p)
      BY <1>1, <2>2, EmptySeq
    <3>2. p[1][3] = 1
      BY <2>2 DEF Whole
    <3> QED BY <1>3, <3>1, <3>2
  <2> QED BY <2>1, <2>2
<1>10. Len(c) + 1 \in 1..Len(d)
  BY <1>1, <1>4
<1>11. Whole(q, d)
  BY <1>4, <1>7, <1>8, <1>9, <1>10 DEF Whole
<1> QED BY <1>3, <1>11 DEF q, b, d

\* When the program is to go on, nothing was given up, and all it sent was taken.
LEMMA Running ==
  ASSUME IInv, client # "dead"
  PROVE  /\ \E start : Starts(start, sent) /\ Carries(start, sent, at, flow)
         /\ client = "run" => unsent = << >>
BY DEF IInv, UnderWay, Lost, ProgramOK

\* What write() is given comes behind all that is under way.
LEMMA FlowBehind ==
  ASSUME IInv, unsent = << >>, NEW u \in Seq(Byte), unsent' = u,
         pipe' = pipe, server' = server, partial' = partial, hbuf' = hbuf
  PROVE  flow' = flow \o u
<1>1. partial \in Seq(Byte) /\ pipe \in Seq(Byte) /\ hbuf \in Seq(Byte) /\ << >> \in Seq(Byte)
  BY KindsOf, EmptySeq
<1>2. pipe \o unsent = pipe
  BY <1>1, WithNothing
<1>3. partial \o (pipe \o u) = (partial \o pipe) \o u
  BY <1>1, Regroup, Zenon
<1>4. partial \o pipe \in Seq(Byte)
  BY <1>1, ConcatProperties
<1>5. hbuf \o ((partial \o pipe) \o u) = (hbuf \o (partial \o pipe)) \o u
  BY <1>1, <1>4, Regroup, Zenon
<1>6. << >> \o ((partial \o pipe) \o u) = (<< >> \o (partial \o pipe)) \o u
  BY <1>1, <1>4, Regroup, Zenon
<1> QED BY <1>2, <1>3, <1>5, <1>6 DEF flow

\* The buffer becomes a packet, and the packet is what write() is given.
LEMMA Sending ==
  ASSUME IInv, client = "run", NEW body \in Seq(Byte), Whole(body, commands'),
         \A p : Whole(p, commands) => Whole(p, commands'),
         commands' \in Seq(Sizes), Len(commands') <= MaxCommands,
         FlushOutput(body), UNCHANGED << link, pipe, plserver >>
  PROVE  IInv'
<1> DEFINE u == Header(Len(body)) \o body
<1>1. /\ client' = "write" /\ unsent' = u /\ sent' = Append(sent, body) /\ buffer' = << >> /\ loose' = 0
      /\ atomic' = (link = "fifo" /\ HeaderSize + Len(body) <= PipeBuf)
  BY DEF FlushOutput, Whole
<1>2. pipe' = pipe /\ server' = server /\ partial' = partial /\ hbuf' = hbuf /\ garbled' = garbled /\ arrived' = arrived
  BY DEF plserver
<1>3. PICK start : Starts(start, sent) /\ Carries(start, sent, at, flow)
  BY Running
<1>4. unsent = << >>
  BY Running
<1>5. Len(body) \in Nat /\ HeaderSize \in Nat
  BY Sizings, LenProperties
<1>6. u \in Seq(Byte) /\ Len(u) = HeaderSize + Len(body) /\ Len(u) # 0
  <2>1. Header(Len(body)) \in Seq(Byte) /\ Len(Header(Len(body))) = HeaderSize
    BY <1>5, HeaderBytes
  <2>2. u \in Seq(Byte) /\ Len(u) = HeaderSize + Len(body)
    BY <2>1, Joined
  <2>3. HeaderSize + Len(body) # 0
    BY <1>5, Sizings
  <2> QED BY <2>2, <2>3
<1>7. /\ sent' \in Seq(Seq(Byte)) /\ Len(sent') = Len(sent) + 1 /\ Len(sent) \in Nat
      /\ sent'[Len(sent) + 1] = body /\ \A i \in 1..Len(sent) : sent'[i] = sent[i]
  BY <1>1, KindsOf, AppendProperties
<1>8. u # << >>
  BY <1>6, EmptySeq
<1>9. ProgramOK'
  <2>1. << >> \in Seq(Byte) /\ 0 \in 0..Len(<< >>) /\ Len(<< >>) - 0 <= BufMax
    BY EmptySeq, Sizings
  <2>2. ASSUME NEW i \in 1..Len(sent') PROVE Whole(sent'[i], commands')
    <3>1. CASE i = Len(sent) + 1
      BY <1>7, <3>1
    <3>2. CASE i # Len(sent) + 1
      <4>1. i \in 1..Len(sent)
        BY <1>7, <3>2
      <4>2. Whole(sent[i], commands)
        BY <4>1 DEF IInv, ProgramOK
      <4> QED BY <1>7, <4>1, <4>2
    <3> QED BY <3>1, <3>2
  <2>3. sent' # << >>
    BY <1>1, KindsOf, AppendProperties
  <2>4. Len(unsent') <= HeaderSize + Len(sent'[Len(sent')])
    BY <1>1, <1>5, <1>6, <1>7
  <2>5. atomic' \in BOOLEAN
    BY <1>1
  <2> HIDE DEF u
  <2> QED BY <1>1, <1>6, <1>7, <1>8, <2>1, <2>2, <2>3, <2>4, <2>5 DEF ProgramOK
<1>10. at' = at
  BY <1>2 DEF at
<1>11. PlserverOK'
  <2> DEFINE n == Len(sent)
  <2>1. n \in Nat /\ at \in 1..n + 1 /\ Len(arrived) \in Nat /\ at = Len(arrived) + 1
    BY KindsOf DEF at
  <2> HIDE DEF n
  <2>2. Len(arrived) <= n + 1 /\ \A i \in 1..Len(arrived) : i \in 1..n
    BY <2>1
  <2>3. \A i \in 1..Len(arrived) : arrived[i] = sent'[i]
    BY <1>7, <2>2 DEF IInv, PlserverOK, n
  <2>4. ASSUME server = "body" PROVE at <= n + 1 /\ sent'[at] = sent[at]
    <3>1. at <= n
      BY <2>4 DEF IInv, PlserverOK, n
    <3>2. at \in 1..n
      BY <2>1, <3>1
    <3> QED BY <1>7, <2>1, <3>1, <3>2 DEF n
  <2>5. ASSUME server # "body" PROVE Len(partial) < HeaderSize + Len(sent'[at])
    <3>1. CASE at \in 1..n
      <4>1. at <= n
        BY <3>1, <2>1
      <4> QED BY <1>7, <2>5, <3>1, <4>1 DEF IInv, PlserverOK, n
    <3>2. CASE at \notin 1..n
      <4>1. at = n + 1
        BY <2>1, <3>2
      <4>2. flow = << >>
        BY <1>3, <4>1, KindsOf, NothingLeft DEF n
      <4>3. partial \o (pipe \o unsent) \in Seq(Byte) /\ pipe \o unsent \in Seq(Byte) /\ partial \in Seq(Byte)
        BY KindsOf, ConcatProperties
      <4>4. << >> \o (partial \o (pipe \o unsent)) = << >>
        BY <2>5, <4>2 DEF flow
      <4>5. partial \o (pipe \o unsent) = << >>
        BY <4>3, <4>4, WithNothing
      <4>6. Len(partial) = 0
        <5>1. Len(partial \o (pipe \o unsent)) = Len(partial) + Len(pipe \o unsent) /\ Len(partial) \in Nat /\ Len(pipe \o unsent) \in Nat
          BY <4>3, Joined
        <5>2. Len(partial) + Len(pipe \o unsent) = 0
          BY <4>5, <5>1, EmptySeq
        <5> QED BY <5>1, <5>2
      <4>7. sent'[at] = body
        BY <1>7, <4>1 DEF n
      <4>8. 0 < HeaderSize + Len(body)
        BY <1>5, Sizings
      <4> QED BY <4>6, <4>7, <4>8
    <3> QED BY <3>1, <3>2
  <2>6. server # "closed"
    BY DEF IInv, PlserverOK
  <2>7. /\ pipe' \in Seq(Byte) /\ Len(pipe') <= PipeSize /\ server' \in {"loop", "body", "closed"}
        /\ partial' \in Seq(Byte) /\ hbuf' \in Seq(Byte) /\ garbled' = FALSE /\ arrived' \in Seq(Seq(Byte))
        /\ server = "body" => Len(hbuf) = HeaderSize /\ Len(partial) < Len(sent[at])
    BY <1>2 DEF IInv, PlserverOK
  <2> QED BY <1>2, <1>7, <1>10, <2>2, <2>3, <2>4, <2>5, <2>6, <2>7 DEF PlserverOK, n
<1>12. flow' = flow \o u
  BY <1>1, <1>2, <1>4, <1>6, FlowBehind
<1>13. \E st : Starts(st, Append(sent, body)) /\ Carries(st, Append(sent, body), at, flow \o u)
  BY <1>3, KindsOf, PutIn
<1> QED BY <1>1, <1>9, <1>10, <1>11, <1>12, <1>13 DEF IInv, UnderWay

\* The buffer with one more command in it.
LEMMA Adding ==
  ASSUME IInv, NEW n \in Sizes, Add(n)
  PROVE  /\ client = "run" /\ UNCHANGED << link, pipe, plserver >>
         /\ Written(n) \in Seq(Byte) /\ Len(Written(n)) = Len(buffer) + n /\ Len(buffer) \in Nat /\ n \in Nat
         /\ Whole(Written(n), commands')
         /\ \A p : Whole(p, commands) => Whole(p, commands')
         /\ commands' \in Seq(Sizes) /\ Len(commands') <= MaxCommands
<1>1. client = "run" /\ Len(commands) < MaxCommands /\ UNCHANGED << link, pipe, plserver >> /\ commands' = Append(commands, n)
  BY DEF Add
<1>2. commands \in Seq(Sizes) /\ Len(commands) \in Nat /\ buffer \in Seq(Byte) /\ (buffer # << >> => Whole(buffer, commands))
  BY KindsOf DEF IInv, ProgramOK
<1>3. Len(buffer) \in Nat /\ n \in Nat
  BY <1>2, LenProperties, Sizings
<1>4. Written(n) \in Seq(Byte) /\ Len(Written(n)) = Len(buffer) + n /\ Whole(Written(n), commands')
  BY <1>1, <1>2, OneMore DEF Written
<1>5. \A p : Whole(p, commands) => Whole(p, commands')
  BY <1>1, <1>2, WholeKept
<1>6. commands' \in Seq(Sizes) /\ Len(commands') = Len(commands) + 1
  BY <1>1, <1>2, AppendProperties
<1>7. Len(commands') <= MaxCommands
  BY <1>1, <1>2, <1>6, Sizings
<1> QED BY <1>1, <1>3, <1>4, <1>5, <1>6, <1>7

\* A command that is put into the buffer and not sent preserves the invariant.
LEMMA Keeping ==
  ASSUME IInv, NEW n \in Sizes, Add(n), NEW more \in 0..Len(Written(n)), Len(Written(n)) - more <= BufMax,
         Kept(Written(n), more)
  PROVE  IInv'
<1>1. /\ UNCHANGED << link, pipe, plserver >>
      /\ Written(n) \in Seq(Byte) /\ Whole(Written(n), commands')
      /\ \A p : Whole(p, commands) => Whole(p, commands')
      /\ commands' \in Seq(Sizes) /\ Len(commands') <= MaxCommands
  BY Adding
<1> DEFINE whole == Written(n)
<1>2. buffer' = whole /\ loose' = more /\ UNCHANGED << client, unsent, atomic, sent >>
  BY DEF Kept
<1> HIDE DEF whole
<1>3. ProgramOK'
  <2>1. \A i \in 1..Len(sent') : Whole(sent'[i], commands')
    BY <1>1, <1>2 DEF IInv, ProgramOK
  <2>2. /\ buffer' \in Seq(Byte) /\ loose' \in 0..Len(buffer') /\ Len(buffer') - loose' <= BufMax
        /\ buffer' # << >> => Whole(buffer', commands')
    BY <1>1, <1>2 DEF whole
  <2>3. /\ client' \in {"run", "write", "dead"} /\ atomic' \in BOOLEAN
        /\ unsent' \in Seq(Byte) /\ (client' = "write" => unsent' # << >>) /\ (client' = "run" => unsent' = << >>)
        /\ sent' \in Seq(Seq(Byte))
        /\ unsent' # << >> => sent' # << >> /\ Len(unsent') <= HeaderSize + Len(sent'[Len(sent')])
    BY <1>2 DEF IInv, ProgramOK
  <2> QED BY <1>1, <2>1, <2>2, <2>3 DEF ProgramOK
<1>4. PlserverOK'
  BY <1>1, <1>2 DEF IInv, PlserverOK, at, plserver
<1>5. UnderWay'
  BY <1>1, <1>2 DEF IInv, UnderWay, Lost, flow, at, plserver
<1> QED BY <1>3, <1>4, <1>5 DEF IInv

\* A command that is sent with the buffer it is put into preserves the invariant.
LEMMA AddedSent == ASSUME IInv, NEW n \in Sizes, Add(n), FlushOutput(Written(n)) PROVE IInv'
<1>1. /\ client = "run" /\ UNCHANGED << link, pipe, plserver >>
      /\ Written(n) \in Seq(Byte) /\ Whole(Written(n), commands')
      /\ \A p : Whole(p, commands) => Whole(p, commands')
      /\ commands' \in Seq(Sizes) /\ Len(commands') <= MaxCommands
  BY Adding
<1> QED BY <1>1, Sending

\* Draw preserves the invariant: what is over the limit is sent.
LEMMA DrawStep == ASSUME IInv, Draw PROVE IInv'
<1>1. PICK n \in Sizes :
        /\ Add(n)
        /\ IF Len(Written(n)) > BufMax THEN FlushOutput(Written(n)) ELSE Kept(Written(n), 0)
  BY DEF Draw
<1>2. CASE Len(Written(n)) > BufMax
  BY <1>1, <1>2, AddedSent
<1>3. CASE ~ (Len(Written(n)) > BufMax)
  <2>1. Len(Written(n)) \in Nat
    BY <1>1, Adding, LenProperties
  <2>2. 0 \in 0..Len(Written(n)) /\ Len(Written(n)) - 0 <= BufMax
    BY <1>3, <2>1, Sizings
  <2> QED BY <1>1, <1>3, <2>2, Keeping
<1> QED BY <1>2, <1>3

\* EndOfPage preserves the invariant.
LEMMA EndOfPageStep == ASSUME IInv, EndOfPage PROVE IInv'
BY AddedSent DEF EndOfPage

\* Escape preserves the invariant: what it writes is loose.
LEMMA EscapeStep == ASSUME IInv, Escape PROVE IInv'
<1>1. PICK n \in Sizes : Add(n) /\ Kept(Written(n), loose + n)
  BY DEF Escape
<1>2. Len(Written(n)) = Len(buffer) + n /\ Len(buffer) \in Nat /\ n \in Nat
  BY <1>1, Adding
<1>3. loose \in 0..Len(buffer) /\ Len(buffer) - loose <= BufMax
  BY DEF IInv, ProgramOK
<1>4. loose + n \in 0..Len(Written(n)) /\ Len(Written(n)) - (loose + n) <= BufMax
  BY <1>2, <1>3, Sizings
<1> QED BY <1>1, <1>4, Keeping

\* What the invariant is about is unchanged.
LEMMA Stutter == ASSUME IInv, UNCHANGED vars PROVE IInv'
BY DEF IInv, ProgramOK, PlserverOK, UnderWay, Lost, flow, at, vars, program, plserver

\* Flush preserves the invariant.
LEMMA FlushStep == ASSUME IInv, Flush PROVE IInv'
<1>1. client = "run" /\ FlushOutput(buffer) /\ UNCHANGED << link, pipe, plserver >> /\ commands' = commands
  BY DEF Flush
<1>2. CASE buffer = << >>
  <2>1. UNCHANGED vars
    BY <1>1, <1>2 DEF FlushOutput, vars, program, plserver
  <2> QED BY <2>1, Stutter
<1>3. CASE buffer # << >>
  <2>1. /\ buffer \in Seq(Byte) /\ Whole(buffer, commands') /\ commands' \in Seq(Sizes) /\ Len(commands') <= MaxCommands
        /\ \A p : Whole(p, commands) => Whole(p, commands')
    BY <1>1, <1>3 DEF IInv, ProgramOK
  <2> QED BY <1>1, <2>1, Sending
<1> QED BY <1>2, <1>3

\* Write preserves the invariant.
LEMMA WriteStep == ASSUME IInv, Write PROVE IInv'
<1>1. client = "write" /\ UNCHANGED << link, commands, buffer, loose, atomic, sent, plserver >>
  BY DEF Write
<1>2. PICK n \in 1..Len(unsent) :
         /\ Len(pipe) + n <= PipeSize
         /\ pipe' = pipe \o SubSeq(unsent, 1, n)
         /\ unsent' = SubSeq(unsent, n + 1, Len(unsent))
         /\ client' = IF n = Len(unsent) THEN "run" ELSE "write"
  BY DEF Write
<1>3. Len(unsent) \in Nat /\ unsent \in Seq(Byte) /\ n \in 0..Len(unsent) /\ pipe \in Seq(Byte) /\ partial \in Seq(Byte)
  BY KindsOf, LenProperties
<1> DEFINE b == SubSeq(unsent, 1, n)
           r == SubSeq(unsent, n + 1, Len(unsent))
<1>4. b \in Seq(Byte) /\ r \in Seq(Byte) /\ Len(b) = n /\ Len(r) = Len(unsent) - n /\ b \o r = unsent
  BY <1>3, CutInTwo
<1>5. pipe' = pipe \o b /\ unsent' = r
  BY <1>2
<1> HIDE DEF b, r
<1>6. pipe' \in Seq(Byte) /\ Len(pipe') = Len(pipe) + n
  BY <1>3, <1>4, <1>5, Joined
<1>7. ProgramOK'
  <2>1. r = << >> <=> n = Len(unsent)
    BY <1>3, <1>4, EmptySeq
  <2>2. unsent # << >> /\ sent # << >> /\ Len(unsent) <= HeaderSize + Len(sent[Len(sent)])
    BY <1>1 DEF IInv, ProgramOK
  <2>3. Len(sent[Len(sent)]) \in Nat
    <3>1. Len(sent) \in 1..Len(sent)
      BY <2>2, KindsOf, EmptySeq
    <3> QED BY <3>1, KindsOf
  <2>4. Len(r) <= HeaderSize + Len(sent[Len(sent)])
    BY <1>3, <1>4, <2>2, <2>3, Sizings
  <2>5. client' \in {"run", "write"} /\ (client' = "write" => r # << >>) /\ (client' = "run" => r = << >>)
    BY <1>2, <2>1
  <2> QED BY <1>1, <1>4, <1>5, <2>2, <2>4, <2>5 DEF IInv, ProgramOK
<1>8. PlserverOK'
  <2>1. server # "closed"
    BY <1>1 DEF IInv, PlserverOK
  <2>2. Len(pipe') <= PipeSize
    BY <1>2, <1>6
  <2> QED BY <1>1, <1>6, <2>1, <2>2 DEF IInv, PlserverOK, at, plserver
<1>9. flow' = flow
  <2>1. (pipe \o b) \o r = pipe \o (b \o r)
    BY <1>3, <1>4, Regroup
  <2>2. pipe' \o unsent' = pipe \o unsent
    BY <1>4, <1>5, <2>1
  <2> QED BY <1>1, <2>2 DEF flow, plserver
<1>10. UnderWay'
  BY <1>1, <1>9, Running DEF UnderWay, at, plserver
<1> QED BY <1>7, <1>8, <1>10 DEF IInv

\* Die preserves the invariant.
LEMMA DieStep == ASSUME IInv, Die PROVE IInv'
<1>1. client # "dead" /\ client' = "dead" /\ UNCHANGED << link, commands, buffer, loose, unsent, atomic, sent, pipe, plserver >>
  BY DEF Die
<1>2. ProgramOK'
  BY <1>1 DEF IInv, ProgramOK
<1>3. PlserverOK'
  BY <1>1 DEF IInv, PlserverOK, at, plserver
<1>4. UnderWay'
  BY <1>1, Running DEF UnderWay, at, flow, plserver
<1> QED BY <1>2, <1>3, <1>4 DEF IInv

-----------------------------------------------------------------------------
(* plserver.                                                               *)

\* What pl_Read takes and what it leaves are the bytes under way, in their order.
LEMMA ReadFlow ==
  ASSUME IInv, NEW n \in Nat
  PROVE  LET got == PlRead(n)
         IN  /\ partial \o (pipe \o unsent) = got.bytes \o (got.partial \o (got.pipe \o unsent))
             /\ (got.bytes \o got.partial) \o (got.pipe \o unsent) = partial \o (pipe \o unsent)
<1> DEFINE b == PlRead(n).bytes
           p == PlRead(n).partial
           q == PlRead(n).pipe
<1>1. partial \in Seq(Byte) /\ pipe \in Seq(Byte) /\ unsent \in Seq(Byte)
  BY KindsOf
<1>2. b \in Seq(Byte) /\ p \in Seq(Byte) /\ q \in Seq(Byte) /\ b \o (p \o q) = partial \o pipe
  BY <1>1, ReadNext
<1> HIDE DEF b, p, q
<1>3. partial \o (pipe \o unsent) = (partial \o pipe) \o unsent
  BY <1>1, Regroup, Zenon
<1>4. p \o q \in Seq(Byte) /\ q \o unsent \in Seq(Byte)
  BY <1>1, <1>2, ConcatProperties
<1>5. (b \o (p \o q)) \o unsent = b \o ((p \o q) \o unsent)
  <2> DEFINE w == q \o unsent
  <2>1. w \in Seq(Byte)
    BY <1>4
  <2> HIDE DEF w
  <2>2. (b \o p) \o w = b \o (p \o w)
    BY <1>2, <2>1, Regroup
  <2> QED BY <2>2 DEF w
<1>6. (p \o q) \o unsent = p \o (q \o unsent)
  BY <1>1, <1>2, Regroup, Zenon
<1>7. (b \o p) \o (q \o unsent) = b \o (p \o (q \o unsent))
  BY <1>2, <1>4, Regroup, Zenon
<1>8. partial \o (pipe \o unsent) = b \o (p \o (q \o unsent))
  BY <1>2, <1>3, <1>5, <1>6
<1> QED BY <1>7, <1>8 DEF b, p, q

\* When bytes are under way that plserver has, they begin with the header and the
\* body of the packet that it is at.
LEMMA UnderWayFirst ==
  ASSUME IInv, ~ Lost, NEW h \in Seq(Byte), NEW r \in Seq(Byte), flow = h \o r, Len(h) = HeaderSize
  PROVE  at \in 1..Len(sent) /\ h = Header(Len(sent[at]))
<1>1. PICK start : Starts(start, sent) /\ Carries(start, sent, at, flow)
  BY DEF IInv, UnderWay
<1>2. flow # << >>
  <2>1. Len(flow) = HeaderSize + Len(r) /\ Len(r) \in Nat
    BY Joined
  <2>2. Len(flow) # 0
    BY <2>1, Sizings
  <2> QED BY <2>2, EmptySeq
<1>3. at \in 1..Len(sent)
  <2>1. at # Len(sent) + 1
    BY <1>1, <1>2, KindsOf, NothingLeft
  <2> QED BY <2>1, KindsOf
<1>4. Len(sent[at]) \in Nat /\ \A k \in 1..HeaderSize : flow[k] = << Len(sent[at]), 0, k >>
  <2>1. sent \in Seq(Seq(Byte)) /\ flow \in Seq(Byte)
    BY KindsOf
  <2> QED BY <1>1, <1>3, <2>1, FirstPacket
<1>5. \A k \in 1..HeaderSize : flow[k] = h[k]
  BY Joined
<1>6. Header(Len(sent[at])) \in Seq(Byte) /\ Len(Header(Len(sent[at]))) = HeaderSize
      /\ \A k \in 1..HeaderSize : Header(Len(sent[at]))[k] = << Len(sent[at]), 0, k >>
  BY <1>4, HeaderBytes
<1>7. h = Header(Len(sent[at]))
  <2> DEFINE e == Header(Len(sent[at]))
  <2>1. e \in Seq(Byte) /\ Len(e) = Len(h) /\ \A k \in 1..Len(h) : h[k] = e[k]
    BY <1>4, <1>5, <1>6
  <2> HIDE DEF e
  <2> QED BY <2>1, SeqEqual DEF e
<1> QED BY <1>3, <1>7

\* The header that was read tells how long the packet is.
LEMMA HeaderRead ==
  ASSUME IInv, server = "body"
  PROVE  /\ ~ Lost /\ at \in 1..Len(sent) /\ Len(hbuf) = HeaderSize /\ packetLen = Len(sent[at]) /\ hbuf = Header(Len(sent[at]))
         /\ Len(partial) < Len(sent[at])
<1>1. ~ Lost /\ Len(hbuf) = HeaderSize /\ Len(partial) < Len(sent[at])
  BY DEF Lost, IInv, PlserverOK
<1>2. flow = hbuf \o (partial \o (pipe \o unsent))
  BY DEF flow
<1>3. hbuf \in Seq(Byte) /\ partial \o (pipe \o unsent) \in Seq(Byte)
  <2>1. pipe \o unsent \in Seq(Byte)
    BY KindsOf, ConcatProperties
  <2> QED BY <2>1, KindsOf, ConcatProperties
<1>4. at \in 1..Len(sent) /\ hbuf = Header(Len(sent[at]))
  BY <1>1, <1>2, <1>3, UnderWayFirst
<1>5. hbuf[1] = << Len(sent[at]), 0, 1 >>
  <2>1. 1 \in 1..HeaderSize /\ Len(sent[at]) \in Nat
    BY <1>4, Sizings, KindsOf
  <2> QED BY <1>4, <2>1, HeaderBytes
<1>6. packetLen = Len(sent[at])
  BY <1>5 DEF packetLen
<1> QED BY <1>1, <1>4, <1>6

\* What plserver puts back stays under way.
LEMMA PuttingBack ==
  ASSUME IInv, ~ Lost, UNCHANGED << link, program, arrived, garbled >>, server' = "loop",
         partial' \in Seq(Byte), hbuf' \in Seq(Byte), pipe' \in Seq(Byte), Len(pipe') <= PipeSize,
         flow' = flow, at \in 1..Len(sent) => Len(partial') < HeaderSize + Len(sent[at])
  PROVE  IInv'
<1>1. UNCHANGED << commands, buffer, loose, client, unsent, atomic, sent >> /\ at' = at
  BY DEF program, at
<1>2. ProgramOK'
  BY <1>1 DEF IInv, ProgramOK
<1>3. at <= Len(sent) => Len(partial') < HeaderSize + Len(sent[at])
  BY KindsOf
<1>4. PlserverOK'
  BY <1>1, <1>3 DEF IInv, PlserverOK
<1>5. UnderWay'
  BY <1>1 DEF IInv, UnderWay
<1> QED BY <1>2, <1>4, <1>5 DEF IInv

\* A read() of no bytes: only a program that is dead can have been in the way of them.
LEMMA GivingUp ==
  ASSUME IInv, ReadError, UNCHANGED << link, program, arrived, hbuf, garbled >>, client = "dead",
         partial = << >>, pipe = << >>, pipe' = << >>, server # "closed"
  PROVE  IInv'
<1>1. /\ UNCHANGED << commands, buffer, loose, client, unsent, atomic, sent >> /\ at' = at
      /\ partial' = << >> /\ server' \in {"loop", "closed"}
  BY DEF program, at, ReadError
<1>2. ProgramOK'
  BY <1>1 DEF IInv, ProgramOK
<1>3. << >> \in Seq(Byte) /\ Len(<< >>) = 0
  BY EmptySeq
<1>4. PlserverOK'
  <2>1. at <= Len(sent) => 0 < HeaderSize + Len(sent[at])
    <3> SUFFICES ASSUME at <= Len(sent) PROVE 0 < HeaderSize + Len(sent[at])
      OBVIOUS
    <3>1. at \in 1..Len(sent)
      BY KindsOf
    <3> QED BY <3>1, KindsOf, Sizings
  <2> QED BY <1>1, <1>3, <2>1, Sizings DEF IInv, PlserverOK
<1>5. UnderWay'
  <2>1. CASE Lost
    BY <1>1, <2>1 DEF UnderWay, Lost
  <2>2. CASE ~ Lost /\ server # "body"
    <3>1. flow' = flow
      BY <1>1, <2>2 DEF flow
    <3> QED BY <1>1, <2>2, <3>1 DEF IInv, UnderWay
  <2>3. CASE server = "body"
    <3>1. PICK start : Starts(start, sent) /\ Carries(start, sent, at, flow)
      BY <2>3, HeaderRead DEF IInv, UnderWay
    <3>2. at \in 1..Len(sent) /\ Len(hbuf) = HeaderSize
      BY <2>3, HeaderRead
    <3>3. flow = hbuf \o unsent
      <4>1. << >> \o (<< >> \o unsent) = unsent
        BY KindsOf, WithNothing
      <4> QED BY <2>3, <4>1 DEF flow
    <3>4. Len(flow) = HeaderSize + Len(unsent) /\ Len(unsent) \in Nat
      BY <3>2, <3>3, KindsOf, Joined
    <3>5. /\ HeaderSize + Len(sent[at]) <= Len(flow)
          /\ at # Len(sent) => HeaderSize + Len(sent[at]) + HeaderSize + Len(sent[Len(sent)]) <= Len(flow)
      <4>1. sent \in Seq(Seq(Byte)) /\ flow \in Seq(Byte)
        BY KindsOf
      <4> QED BY <3>1, <3>2, <4>1, FirstPacket
    <3>6. Len(sent[at]) \in Nat \ {0} /\ HeaderSize \in Nat
      BY <3>2, KindsOf, Sizings
    <3>7. Len(unsent) # 0
      BY <3>4, <3>5, <3>6
    <3>8. unsent # << >>
      BY <3>7, EmptySeq
    <3>9. Len(unsent) <= HeaderSize + Len(sent[Len(sent)]) /\ Len(sent[Len(sent)]) \in Nat
      <4>1. Len(sent) \in 1..Len(sent)
        BY <3>2, KindsOf
      <4> QED BY <3>8, <4>1, KindsOf DEF IInv, ProgramOK
    <3>10. at = Len(sent)
      <4> DEFINE m == Len(sent[at])
                 l == Len(sent[Len(sent)])
                 v == Len(unsent)
                 g == Len(flow)
      <4>1. /\ m \in Nat \ {0} /\ l \in Nat /\ v \in Nat /\ g = HeaderSize + v /\ v <= HeaderSize + l
            /\ at # Len(sent) => HeaderSize + m + HeaderSize + l <= g
        BY <3>4, <3>5, <3>6, <3>9
      <4> HIDE DEF m, l, v, g
      <4> QED BY <3>6, <4>1
    <3> QED BY <1>1, <3>8, <3>10 DEF UnderWay, Lost
  <2> QED BY <2>1, <2>2, <2>3
<1> QED BY <1>2, <1>4, <1>5 DEF IInv

\* ReceiveHeader preserves the invariant.
LEMMA ReceiveHeaderStep == ASSUME IInv, ReceiveHeader PROVE IInv'
<1> DEFINE got == PlRead(HeaderSize)
           b == got.bytes
           p == got.partial
           q == got.pipe
<1>1. /\ server = "loop" /\ Readable /\ pipe' = q /\ UNCHANGED << link, program, arrived >>
      /\ IF b = << >> THEN ReadError /\ UNCHANGED << hbuf, garbled >>
         ELSE IF Len(b) < HeaderSize
         THEN partial' = b \o p /\ UNCHANGED << server, hbuf, garbled >>
         ELSE /\ hbuf' = b /\ partial' = p /\ garbled' = (garbled \/ b # Header(b[1][1]))
              /\ server' = IF b = Header(b[1][1]) THEN "body" ELSE "loop"
  BY DEF ReceiveHeader
<1>2. HeaderSize \in Nat \ {0} /\ partial \in Seq(Byte) /\ pipe \in Seq(Byte) /\ unsent \in Seq(Byte) /\ hbuf \in Seq(Byte)
  BY Sizings, KindsOf
<1>3. /\ b \in Seq(Byte) /\ p \in Seq(Byte) /\ q \in Seq(Byte)
      /\ Len(b) <= HeaderSize /\ Len(q) <= Len(pipe)
      /\ Len(partial) <= HeaderSize => p = << >>
      /\ Len(partial) > HeaderSize => Len(b) = HeaderSize /\ Len(p) = Len(partial) - HeaderSize
      /\ b = << >> => partial = << >> /\ pipe = << >> /\ p = << >> /\ q = << >>
      /\ partial = << >> /\ pipe = << >> => b = << >>
  <2>1. HeaderSize \in Nat /\ HeaderSize > 0
    BY <1>2
  <2> QED BY <1>2, <2>1, ReadNext, Zenon
<1>4. /\ partial \o (pipe \o unsent) = b \o (p \o (q \o unsent))
      /\ (b \o p) \o (q \o unsent) = partial \o (pipe \o unsent)
  BY <1>2, ReadFlow
<1> HIDE DEF b, p, q
<1>5. Len(q) <= PipeSize
  <2>1. Len(pipe) \in Nat /\ Len(q) \in Nat /\ Len(pipe) <= PipeSize /\ PipeSize \in Nat
    BY <1>2, <1>3, LenProperties, Sizings DEF IInv, PlserverOK
  <2> QED BY <1>3, <2>1
<1>6. garbled = FALSE
  BY DEF IInv, PlserverOK
<1>7. Len(b) \in Nat /\ Len(partial) \in Nat
  BY <1>2, <1>3, LenProperties
<1>8. q \o unsent \in Seq(Byte) /\ p \o (q \o unsent) \in Seq(Byte)
  <2>1. q \o unsent \in Seq(Byte)
    BY <1>2, <1>3, ConcatProperties
  <2> QED BY <2>1, <1>3, ConcatProperties
<1>9. << >> \o (partial \o (pipe \o unsent)) = partial \o (pipe \o unsent)
  <2>1. pipe \o unsent \in Seq(Byte)
    BY <1>2, ConcatProperties
  <2>2. partial \o (pipe \o unsent) \in Seq(Byte)
    BY <2>1, <1>2, ConcatProperties
  <2> QED BY <2>2, WithNothing
<1>10. CASE b = << >>
  <2>1. client = "dead"
    BY <1>1, <1>3, <1>10 DEF Readable
  <2> QED BY <1>1, <1>3, <1>10, <2>1, GivingUp
<1>11. CASE b # << >> /\ Len(b) < HeaderSize
  <2>1. ~ Lost
    BY <1>3, <1>11 DEF Lost
  <2>2. partial' = b \o p /\ UNCHANGED << server, hbuf, garbled >>
    BY <1>1, <1>11
  <2>3. p = << >>
    BY <1>2, <1>3, <1>7, <1>11
  <2>4. b \o p = b
    BY <1>3, <2>3, WithNothing
  <2>5. at \in 1..Len(sent) => Len(partial') < HeaderSize + Len(sent[at])
    <3> SUFFICES ASSUME at \in 1..Len(sent) PROVE Len(b) < HeaderSize + Len(sent[at])
      BY <2>2, <2>4
    <3>1. Len(sent[at]) \in Nat
      BY KindsOf
    <3> QED BY <1>2, <1>7, <1>11, <3>1
  <2>6. flow' = flow
    <3>1. unsent' = unsent
      BY <1>1 DEF program
    <3> QED BY <1>1, <1>4, <2>2, <3>1 DEF flow
  <2> QED BY <1>1, <1>2, <1>3, <1>5, <2>1, <2>2, <2>4, <2>5, <2>6, PuttingBack
<1>12. CASE b # << >> /\ ~ (Len(b) < HeaderSize)
  <2>1. ~ Lost
    BY <1>3, <1>12 DEF Lost
  <2>2. /\ hbuf' = b /\ partial' = p /\ garbled' = (garbled \/ b # Header(b[1][1]))
        /\ server' = IF b = Header(b[1][1]) THEN "body" ELSE "loop"
    BY <1>1, <1>12
  <2>3. Len(b) = HeaderSize
    BY <1>2, <1>3, <1>7, <1>12
  <2>4. flow = b \o (p \o (q \o unsent))
    BY <1>1, <1>4, <1>9 DEF flow
  <2>5. at \in 1..Len(sent) /\ b = Header(Len(sent[at]))
    BY <1>3, <1>8, <2>1, <2>3, <2>4, UnderWayFirst
  <2>6. Len(sent[at]) \in Nat \ {0}
    BY <2>5, KindsOf
  <2>7. b = Header(b[1][1])
    <3>1. 1 \in 1..HeaderSize
      BY <1>2
    <3>2. b[1] = << Len(sent[at]), 0, 1 >>
      BY <2>5, <2>6, <3>1, HeaderBytes
    <3>3. b[1][1] = Len(sent[at])
      BY <3>2
    <3> QED BY <2>5, <3>3
  <2>8. server' = "body" /\ garbled' = FALSE
    BY <1>6, <2>2, <2>7
  <2>9. UNCHANGED << commands, buffer, loose, client, unsent, atomic, sent, arrived >> /\ at' = at
    BY <1>1 DEF program, at
  <2>10. ProgramOK'
    BY <2>9 DEF IInv, ProgramOK
  <2>11. Len(p) < Len(sent[at])
    <3>1. CASE Len(partial) <= HeaderSize
      <4>1. Len(p) = 0
        BY <1>3, <3>1, EmptySeq
      <4> QED BY <2>6, <4>1
    <3>2. CASE Len(partial) > HeaderSize
      <4>1. Len(p) = Len(partial) - HeaderSize
        BY <1>3, <3>2
      <4>2. Len(partial) < HeaderSize + Len(sent[at])
        <5>1. at <= Len(sent)
          BY <2>5, KindsOf
        <5> QED BY <1>1, <5>1 DEF IInv, PlserverOK
      <4> QED BY <1>2, <1>7, <2>6, <4>1, <4>2
    <3>3. Len(partial) <= HeaderSize \/ Len(partial) > HeaderSize
      BY <1>2, <1>7
    <3> QED BY <3>1, <3>2, <3>3
  <2>12. at <= Len(sent)
    BY <2>5, KindsOf
  <2>13. PlserverOK'
    BY <1>1, <1>3, <1>5, <2>2, <2>3, <2>8, <2>9, <2>11, <2>12 DEF IInv, PlserverOK
  <2>14. flow' = flow
    BY <1>1, <2>2, <2>4, <2>8, <2>9 DEF flow
  <2>15. UnderWay'
    BY <2>1, <2>9, <2>14 DEF IInv, UnderWay
  <2> QED BY <2>10, <2>13, <2>15 DEF IInv
<1> QED BY <1>10, <1>11, <1>12

\* ReceiveBody preserves the invariant.
LEMMA ReceiveBodyStep == ASSUME IInv, ReceiveBody PROVE IInv'
<1> DEFINE got == PlRead(packetLen)
           b == got.bytes
           p == got.partial
           q == got.pipe
           n == Len(sent[at])
<1>1. /\ server = "body" /\ UNCHANGED << link, program, hbuf, garbled >>
      /\ IF link = "socket" /\ ~ Readable
         THEN /\ partial' = hbuf \o partial /\ server' = "loop" /\ UNCHANGED << pipe, arrived >>
         ELSE /\ ~ Blocks(packetLen) /\ pipe' = q
              /\ IF b = << >> THEN ReadError /\ UNCHANGED arrived
                 ELSE IF Len(b) < packetLen
                 THEN server' = "loop" /\ partial' = hbuf \o b \o p /\ UNCHANGED arrived
                 ELSE server' = "loop" /\ partial' = p /\ arrived' = Append(arrived, b)
  BY DEF ReceiveBody, PutBack
<1>2. /\ ~ Lost /\ at \in 1..Len(sent) /\ Len(hbuf) = HeaderSize /\ packetLen = n /\ hbuf = Header(n) /\ Len(partial) < n
  BY <1>1, HeaderRead
<1>3. /\ HeaderSize \in Nat \ {0} /\ n \in Nat \ {0} /\ partial \in Seq(Byte) /\ pipe \in Seq(Byte) /\ unsent \in Seq(Byte)
      /\ hbuf \in Seq(Byte)
  BY <1>2, Sizings, KindsOf
<1>4. Len(partial) \in Nat /\ Len(hbuf) \in Nat
  BY <1>3, LenProperties
<1>5. /\ b \in Seq(Byte) /\ p \in Seq(Byte) /\ q \in Seq(Byte)
      /\ Len(b) <= n /\ Len(q) <= Len(pipe) /\ p = << >>
      /\ b = << >> => partial = << >> /\ pipe = << >> /\ q = << >>
  <2>1. packetLen \in Nat /\ packetLen > 0 /\ Len(partial) <= packetLen
    BY <1>2, <1>3, <1>4
  <2>2. /\ b \in Seq(Byte) /\ p \in Seq(Byte) /\ q \in Seq(Byte)
        /\ Len(b) <= packetLen /\ Len(q) <= Len(pipe) /\ p = << >>
        /\ b = << >> => partial = << >> /\ pipe = << >> /\ q = << >>
    BY <1>3, <2>1, ReadNext, Zenon
  <2> QED BY <1>2, <2>2
<1>6. /\ partial \o (pipe \o unsent) = b \o (p \o (q \o unsent))
      /\ (b \o p) \o (q \o unsent) = partial \o (pipe \o unsent)
  BY <1>2, <1>3, ReadFlow
<1>7. Len(b) \in Nat
  BY <1>5, LenProperties
<1> HIDE DEF b, p, q, n
<1>8. q \o unsent \in Seq(Byte) /\ p \o (q \o unsent) \in Seq(Byte) /\ p \o (q \o unsent) = q \o unsent
  <2>1. q \o unsent \in Seq(Byte)
    BY <1>3, <1>5, ConcatProperties
  <2> QED BY <2>1, <1>5, ConcatProperties, WithNothing
<1>9. unsent' = unsent /\ flow = hbuf \o (partial \o (pipe \o unsent))
  BY <1>1 DEF program, flow
<1>10. Len(pipe) <= PipeSize /\ Len(q) <= PipeSize /\ garbled = FALSE
  <2>1. Len(pipe) \in Nat /\ Len(q) \in Nat /\ Len(pipe) <= PipeSize /\ PipeSize \in Nat /\ garbled = FALSE
    BY <1>3, <1>5, LenProperties, Sizings DEF IInv, PlserverOK
  <2> QED BY <1>5, <2>1
<1>11. CASE link = "socket" /\ ~ Readable
  <2>1. partial' = hbuf \o partial /\ server' = "loop" /\ UNCHANGED << pipe, arrived >>
    BY <1>1, <1>11
  <2>2. hbuf \o partial \in Seq(Byte) /\ Len(hbuf \o partial) = HeaderSize + Len(partial)
    BY <1>2, <1>3, Joined
  <2>3. Len(hbuf \o partial) < HeaderSize + n
    BY <1>2, <1>3, <1>4, <2>2
  <2>4. flow' = flow
    <3>1. pipe \o unsent \in Seq(Byte)
      BY <1>3, ConcatProperties
    <3>2. (hbuf \o partial) \o (pipe \o unsent) = hbuf \o (partial \o (pipe \o unsent))
      BY <1>3, <3>1, Regroup, Zenon
    <3>3. (hbuf \o partial) \o (pipe \o unsent) \in Seq(Byte)
      BY <2>2, <3>1, ConcatProperties
    <3>4. << >> \o ((hbuf \o partial) \o (pipe \o unsent)) = (hbuf \o partial) \o (pipe \o unsent)
      BY <3>3, WithNothing
    <3> QED BY <1>9, <2>1, <3>2, <3>4 DEF flow
  <2> QED BY <1>1, <1>2, <1>3, <1>10, <2>1, <2>2, <2>3, <2>4, PuttingBack DEF n
<1>12. CASE ~ (link = "socket" /\ ~ Readable) /\ b = << >>
  <2>1. ReadError /\ UNCHANGED arrived /\ ~ Blocks(packetLen) /\ pipe' = q
    BY <1>1, <1>12
  <2>2. partial = << >> /\ pipe = << >> /\ q = << >>
    BY <1>5, <1>12
  <2>3. client = "dead"
    <3>1. Len(partial) < packetLen
      BY <1>2
    <3> QED BY <2>1, <2>2, <3>1 DEF Blocks, Readable
  <2> QED BY <1>1, <2>1, <2>2, <2>3, GivingUp
<1>13. CASE ~ (link = "socket" /\ ~ Readable) /\ b # << >> /\ Len(b) < n
  <2>1. server' = "loop" /\ partial' = hbuf \o b \o p /\ UNCHANGED arrived /\ pipe' = q
    BY <1>1, <1>2, <1>13
  <2>2. hbuf \o b \in Seq(Byte) /\ Len(hbuf \o b) = HeaderSize + Len(b)
    BY <1>2, <1>3, <1>5, Joined
  <2>3. partial' = hbuf \o b
    BY <1>5, <2>1, <2>2, WithNothing
  <2>4. Len(hbuf \o b) < HeaderSize + n
    BY <1>3, <1>7, <1>13, <2>2
  <2>5. flow' = flow
    <3>1. (hbuf \o b) \o (q \o unsent) = hbuf \o (b \o (q \o unsent))
      BY <1>3, <1>5, <1>8, Regroup, Zenon
    <3>2. (hbuf \o b) \o (q \o unsent) \in Seq(Byte)
      BY <1>8, <2>2, ConcatProperties
    <3>3. << >> \o ((hbuf \o b) \o (q \o unsent)) = (hbuf \o b) \o (q \o unsent)
      BY <3>2, WithNothing
    <3> QED BY <1>6, <1>8, <1>9, <2>1, <2>3, <3>1, <3>3 DEF flow
  <2> QED BY <1>1, <1>2, <1>3, <1>5, <1>10, <2>1, <2>2, <2>3, <2>4, <2>5, PuttingBack DEF n
<1>14. CASE ~ (link = "socket" /\ ~ Readable) /\ b # << >> /\ ~ (Len(b) < n)
  <2>1. server' = "loop" /\ partial' = p /\ arrived' = Append(arrived, b) /\ pipe' = q
    BY <1>1, <1>2, <1>14
  <2>2. Len(b) = n
    BY <1>3, <1>5, <1>7, <1>14
  <2>3. PICK start : Starts(start, sent) /\ Carries(start, sent, at, flow)
    BY <1>2 DEF IInv, UnderWay
  <2>4. flow = hbuf \o (b \o (p \o (q \o unsent)))
    BY <1>6, <1>9
  <2>5. b = sent[at] /\ Carries(start, sent, at + 1, p \o (q \o unsent))
    <3> DEFINE r == p \o (q \o unsent)
    <3>1. r \in Seq(Byte) /\ Carries(start, sent, at, hbuf \o (b \o r)) /\ sent \in Seq(Seq(Byte)) /\ Len(b) = Len(sent[at])
      BY <1>8, <2>2, <2>3, <2>4, KindsOf DEF n
    <3> HIDE DEF r
    <3>2. b = sent[at] /\ Carries(start, sent, at + 1, r)
      BY <1>2, <1>3, <1>5, <2>3, <3>1, TakeOut
    <3> QED BY <3>2 DEF r
  <2>6. /\ Len(arrived) \in Nat /\ at = Len(arrived) + 1 /\ arrived' \in Seq(Seq(Byte)) /\ Len(arrived') = Len(arrived) + 1
        /\ arrived'[Len(arrived) + 1] = b /\ \A i \in 1..Len(arrived) : arrived'[i] = arrived[i]
    <3>1. arrived \in Seq(Seq(Byte))
      BY DEF IInv, PlserverOK
    <3> QED BY <1>5, <2>1, <3>1, KindsOf, AppendProperties DEF at
  <2>7. at' = at + 1
    BY <2>6 DEF at
  <2>8. UNCHANGED << commands, buffer, loose, client, unsent, atomic, sent, hbuf, garbled >>
    BY <1>1 DEF program
  <2>9. ProgramOK'
    BY <2>8 DEF IInv, ProgramOK
  <2>10. \A i \in 1..Len(arrived') : arrived'[i] = sent[i]
    <3> SUFFICES ASSUME NEW i \in 1..Len(arrived') PROVE arrived'[i] = sent[i]
      OBVIOUS
    <3>1. CASE i = Len(arrived) + 1
      BY <2>5, <2>6, <3>1
    <3>2. CASE i # Len(arrived) + 1
      <4>1. i \in 1..Len(arrived)
        BY <2>6, <3>2
      <4> QED BY <2>6, <4>1 DEF IInv, PlserverOK
    <3> QED BY <3>1, <3>2
  <2>11. Len(arrived') <= Len(sent)
    BY <1>2, <2>6, KindsOf
  <2>12. at + 1 <= Len(sent) => Len(p) < HeaderSize + Len(sent[at + 1])
    <3> SUFFICES ASSUME at + 1 <= Len(sent) PROVE Len(p) < HeaderSize + Len(sent[at + 1])
      OBVIOUS
    <3>1. at + 1 \in 1..Len(sent)
      BY <1>2
    <3>2. Len(sent[at + 1]) \in Nat
      BY <3>1, KindsOf
    <3>3. Len(p) = 0
      BY <1>5, EmptySeq
    <3> QED BY <1>3, <3>2, <3>3
  <2>13. PlserverOK'
    BY <1>3, <1>5, <1>10, <2>1, <2>6, <2>7, <2>8, <2>10, <2>11, <2>12 DEF PlserverOK
  <2>14. flow' = p \o (q \o unsent)
    <3>1. << >> \o (p \o (q \o unsent)) = p \o (q \o unsent)
      BY <1>8, WithNothing
    <3> QED BY <2>1, <2>8, <3>1 DEF flow
  <2>15. UnderWay'
    BY <2>3, <2>5, <2>7, <2>8, <2>14 DEF UnderWay
  <2> QED BY <2>9, <2>13, <2>15 DEF IInv
<1> QED BY <1>11, <1>12, <1>13, <1>14

-----------------------------------------------------------------------------
(* The theorems.                                                           *)

\* Every step preserves the invariant.
LEMMA EveryStep == ASSUME IInv, [Next]_vars PROVE IInv'
BY DrawStep, EndOfPageStep, EscapeStep, FlushStep, WriteStep, DieStep, ReceiveHeaderStep, ReceiveBodyStep, Stutter DEF Next, Client, Server

\* What is under way between program and plserver is always the packets that have
\* not arrived, each with its header, cut anywhere.
THEOREM PacketsInvariant == Spec => []IInv
<1>1. Init => IInv
  BY InitiallyNothing
<1>2. IInv /\ [Next]_vars => IInv'
  BY EveryStep
<1> QED BY <1>1, <1>2, PTL DEF Spec

\* The kinds and bounds of the link's variables.
THEOREM TypeHolds == Spec => []TypeOK
<1>1. IInv => TypeOK
  BY DEF IInv, ProgramOK, PlserverOK, TypeOK
<1> QED BY <1>1, PacketsInvariant, PTL

\* pl_PacketReceive never finds a header that is none, and what plr_process is given
\* begins and ends with a command, wherever a read() ends.
THEOREM CommandsWholeHolds == Spec => []CommandsWhole
<1>1. ASSUME IInv PROVE CommandsWhole
  <2>1. garbled = FALSE /\ Len(arrived) <= Len(sent) /\ \A i \in 1..Len(arrived) : arrived[i] = sent[i]
    BY <1>1 DEF IInv, PlserverOK
  <2>2. DOMAIN arrived = 1..Len(arrived)
    BY <1>1, LenProperties DEF IInv, PlserverOK
  <2>3. ASSUME NEW i \in 1..Len(arrived)
        PROVE  arrived[i][1][3] = 1 /\ arrived[i][Len(arrived[i])][3] = commands[arrived[i][Len(arrived[i])][2]]
    <3>1. i \in 1..Len(sent)
      BY <1>1, <2>1, KindsOf
    <3>2. Whole(sent[i], commands)
      BY <1>1, <3>1 DEF IInv, ProgramOK
    <3> QED BY <2>1, <3>2 DEF Whole
  <2> QED BY <2>1, <2>2, <2>3 DEF CommandsWhole
<1>2. IInv => CommandsWhole
  BY <1>1
<1> QED BY <1>2, PacketsInvariant, PTL

\* What plserver put back is never a whole packet that nothing would wake it for, and
\* it closes its end only when the program is dead and all it had sent is processed.
THEOREM NothingStrandedHolds == Spec => []NothingStranded
<1>1. ASSUME IInv PROVE NothingStranded
  <2> USE <1>1
  <2>1. ASSUME ~ Lost, pipe = << >>, unsent = << >>, server # "body",
               at \in 1..Len(sent) => Len(partial) < HeaderSize + Len(sent[at])
        PROVE  arrived = sent /\ partial = << >>
    <3>1. PICK start : Starts(start, sent) /\ Carries(start, sent, at, flow)
      BY <2>1 DEF IInv, UnderWay
    <3>2. flow = partial
      <4>1. << >> \o << >> = << >> /\ partial \o << >> = partial /\ << >> \o partial = partial
        BY KindsOf, EmptySeq, WithNothing
      <4> QED BY <2>1, <4>1 DEF flow
    <3>3. at \notin 1..Len(sent)
      <4> SUFFICES ASSUME at \in 1..Len(sent) PROVE FALSE
        OBVIOUS
      <4>1. sent \in Seq(Seq(Byte)) /\ flow \in Seq(Byte) /\ Len(sent[at]) \in Nat /\ HeaderSize \in Nat
        BY KindsOf, Sizings
      <4>2. HeaderSize + Len(sent[at]) <= Len(flow)
        BY <3>1, <4>1, FirstPacket
      <4>3. Len(partial) < HeaderSize + Len(sent[at]) /\ Len(partial) \in Nat
        BY <2>1, KindsOf, LenProperties
      <4> QED BY <3>2, <4>1, <4>2, <4>3
    <3>4. at = Len(sent) + 1
      BY <3>3, KindsOf
    <3>5. flow = << >>
      BY <3>1, <3>4, KindsOf, NothingLeft
    <3>6. arrived \in Seq(Seq(Byte)) /\ sent \in Seq(Seq(Byte)) /\ \A i \in 1..Len(arrived) : arrived[i] = sent[i]
      BY KindsOf DEF IInv, PlserverOK
    <3>7. Len(arrived) = Len(sent)
      BY <3>4, KindsOf DEF at
    <3>8. arrived = sent
      BY <3>6, <3>7, SeqEqual
    <3> QED BY <3>2, <3>5, <3>8
  <2>2. server # "body" => (at \in 1..Len(sent) => Len(partial) < HeaderSize + Len(sent[at]))
    <3>1. at \in 1..Len(sent) => at <= Len(sent)
      BY KindsOf
    <3> QED BY <3>1 DEF IInv, PlserverOK
  <2>3. client = "run" => unsent = << >> /\ ~ Lost
    BY DEF IInv, ProgramOK, Lost
  <2>4. unsent = << >> => ~ Lost
    BY DEF Lost
  <2>5. server = "closed" => client = "dead" /\ pipe = << >>
    BY DEF IInv, PlserverOK
  <2> QED BY <2>1, <2>2, <2>3, <2>4, <2>5, Zenon DEF NothingStranded
<1>2. IInv => NothingStranded
  BY <1>1
<1> QED BY <1>2, PacketsInvariant, PTL

-----------------------------------------------------------------------------
(* The channel.                                                            *)

\* A packet that is given to the link is one that the channel is given.
LEMMA SendsAll ==
  ASSUME IInv, client = "run", NEW body \in Seq(Byte), FlushOutput(body), UNCHANGED << link, pipe, plserver >>
  PROVE  [Channel!Next]_(Channel!vars)
<1>1. /\ unsent = << >> /\ sent \in Seq(Seq(Byte)) /\ Len(sent) \in Nat /\ arrived' = arrived
  BY Running, KindsOf DEF plserver
<1>2. CASE body = << >>
  <2>1. UNCHANGED << client, unsent, sent, arrived >>
    BY <1>1, <1>2 DEF FlushOutput
  <2> QED BY <2>1 DEF Channel!vars
<1>3. CASE body # << >>
  <2>1. client' = "write" /\ unsent' = Header(Len(body)) \o body /\ sent' = Append(sent, body)
    BY <1>3 DEF FlushOutput
  <2>2. unsent' # << >>
    <3>1. Len(body) \in Nat
      BY LenProperties
    <3>2. Header(Len(body)) \in Seq(Byte) /\ Len(Header(Len(body))) = HeaderSize
      BY <3>1, HeaderBytes
    <3>3. Len(unsent') = HeaderSize + Len(body)
      BY <2>1, <3>2, Joined
    <3>4. Len(unsent') # 0
      BY <3>1, <3>3, Sizings
    <3> QED BY <3>4, EmptySeq
  <2>3. sent' \in Seq(Seq(Byte)) /\ Len(sent') = Len(sent) + 1
    BY <1>1, <2>1, AppendProperties
  <2>4. SubSeq(sent', 1, Len(sent)) = sent
    <3>1. SubSeq(sent', 1, Len(sent)) \in Seq(Seq(Byte)) /\ Len(SubSeq(sent', 1, Len(sent))) = Len(sent)
      BY <1>1, <2>3
    <3>2. \A i \in 1..Len(sent) : SubSeq(sent', 1, Len(sent))[i] = sent'[i]
      BY <1>1, <2>3
    <3>3. \A i \in 1..Len(sent) : sent'[i] = sent[i]
      BY <1>1, <2>1, AppendProperties
    <3> DEFINE front == SubSeq(sent', 1, Len(sent))
    <3>4. front \in Seq(Seq(Byte)) /\ Len(front) = Len(sent) /\ \A i \in 1..Len(front) : front[i] = sent[i]
      BY <3>1, <3>2, <3>3
    <3> HIDE DEF front
    <3> QED BY <1>1, <3>4, SeqEqual DEF front
  <2>5. Len(sent') - 1 = Len(sent)
    BY <1>1, <2>3
  <2>6. Channel!Send
    BY <1>1, <2>1, <2>2, <2>3, <2>4, <2>5 DEF Channel!Send
  <2> QED BY <2>6 DEF Channel!Next
<1> QED BY <1>2, <1>3

\* When a packet has arrived, it is the next of those that pl_PacketSend has returned from.
LEMMA ArrivesNext ==
  ASSUME IInv, IInv', NEW b, arrived' = Append(arrived, b), UNCHANGED program
  PROVE  Channel!Arrive
<1>1. UNCHANGED << client, unsent, sent >>
  BY DEF program
<1>2. arrived \in Seq(Seq(Byte)) /\ arrived' \in Seq(Seq(Byte)) /\ Len(arrived) \in Nat /\ Len(sent) \in Nat
  BY KindsOf DEF IInv, PlserverOK
<1>3. Len(arrived') = Len(arrived) + 1 /\ arrived'[Len(arrived) + 1] = b
  BY <1>2
<1>4. Len(arrived) + 1 <= Len(sent)
  BY <1>1, <1>3 DEF IInv, PlserverOK
<1>5. b = sent[Len(arrived) + 1]
  <2>1. Len(arrived) + 1 \in 1..Len(arrived')
    BY <1>2, <1>3
  <2>2. arrived'[Len(arrived) + 1] = sent'[Len(arrived) + 1]
    BY <2>1 DEF IInv, PlserverOK
  <2> QED BY <1>1, <1>3, <2>2
<1>6. ASSUME unsent # << >> PROVE Len(arrived) + 1 # Len(sent)
  <2> SUFFICES ASSUME Len(arrived) + 1 = Len(sent) PROVE FALSE
    OBVIOUS
  <2>1. at' = Len(sent) + 1
    BY <1>3 DEF at
  <2>2. ~ Lost'
    BY <1>1, <1>2, <2>1 DEF Lost
  <2>3. PICK start : Starts(start, sent) /\ Carries(start, sent, at', flow')
    BY <1>1, <2>2 DEF IInv, UnderWay
  <2>4. sent \in Seq(Seq(Byte)) /\ at' \in 1..Len(sent) + 1 /\ flow' \in Seq(Byte)
        /\ unsent' \in Seq(Byte) /\ pipe' \in Seq(Byte) /\ partial' \in Seq(Byte) /\ hbuf' \in Seq(Byte)
    <3>1. (/\ commands \in Seq(Sizes) /\ Len(commands) \in Nat
           /\ unsent \in Seq(Byte) /\ buffer \in Seq(Byte) /\ pipe \in Seq(Byte) /\ partial \in Seq(Byte) /\ hbuf \in Seq(Byte)
           /\ sent \in Seq(Seq(Byte)) /\ Len(sent) \in Nat /\ at \in 1..Len(sent) + 1 /\ Len(arrived) \in Nat
           /\ \A i \in 1..Len(sent) : sent[i] \in Seq(Byte) /\ Len(sent[i]) \in Nat \ {0} /\ sent[i] # << >>
           /\ flow \in Seq(Byte))'
      BY KindsOf, PTL
    <3> QED BY <1>1, <3>1
  <2>5. flow' = << >>
    BY <2>1, <2>3, <2>4, NothingLeft
  <2> DEFINE x == (IF server = "body" THEN hbuf ELSE << >>)'
             r == pipe' \o unsent'
  <2>6. x \in Seq(Byte) /\ r \in Seq(Byte) /\ partial' \o r \in Seq(Byte)
    BY <2>4, EmptySeq, ConcatProperties
  <2>7. flow' = x \o (partial' \o r)
    BY DEF flow
  <2>8. partial' \o r = << >>
    <3> DEFINE y == partial' \o r
    <3>1. x \in Seq(Byte) /\ y \in Seq(Byte) /\ x \o y = << >>
      BY <2>5, <2>6, <2>7
    <3> HIDE DEF x, y
    <3>2. y = << >>
      BY <3>1, ConcatEqualIffEmpty
    <3> QED BY <3>2 DEF y
  <2>9. r = << >>
    BY <2>4, <2>6, <2>8, ConcatEqualIffEmpty
  <2>10. unsent' = << >>
    BY <2>4, <2>9, ConcatEqualIffEmpty
  <2> QED BY <1>1, <1>6, <2>10
<1>7. Len(arrived) < (IF unsent = << >> THEN Len(sent) ELSE Len(sent) - 1)
  BY <1>2, <1>4, <1>6
<1> QED BY <1>1, <1>5, <1>7 DEF Channel!Arrive

\* Every step of the link is one of the channel or none.
LEMMA ChannelStep == ASSUME IInv, IInv', [Next]_vars PROVE [Channel!Next]_(Channel!vars)
<1>1. CASE Draw \/ EndOfPage \/ Escape
  <2>1. PICK n \in Sizes : Add(n) /\ (FlushOutput(Written(n)) \/ \E more \in {0, loose + n} : Kept(Written(n), more))
    BY <1>1 DEF Draw, EndOfPage, Escape
  <2>2. client = "run" /\ UNCHANGED << link, pipe, plserver >> /\ Written(n) \in Seq(Byte)
    BY <2>1, Adding
  <2>3. CASE FlushOutput(Written(n))
    BY <2>2, <2>3, SendsAll
  <2>4. CASE UNCHANGED << client, unsent, atomic, sent >>
    BY <2>2, <2>4 DEF Channel!vars, plserver
  <2> QED BY <2>1, <2>3, <2>4 DEF Kept
<1>2. CASE Flush
  <2>1. client = "run" /\ FlushOutput(buffer) /\ UNCHANGED << link, pipe, plserver >>
    BY <1>2 DEF Flush
  <2> QED BY <2>1, KindsOf, SendsAll
<1>3. CASE Write
  <2>1. client = "write" /\ UNCHANGED << sent, arrived >> /\ client' \in {"run", "write"}
    BY <1>3 DEF Write, plserver
  <2>2. unsent # << >> /\ sent # << >> /\ Len(sent) \in Nat
    BY <2>1, KindsOf DEF IInv, ProgramOK
  <2>3. CASE unsent' = << >>
    <3>1. Len(sent) - 1 < Len(sent)
      BY <2>2
    <3>2. Channel!Sent
      BY <2>1, <2>2, <2>3, <3>1 DEF Channel!Sent
    <3> QED BY <3>2 DEF Channel!Next
  <2>4. CASE unsent' # << >>
    BY <2>1, <2>2, <2>4 DEF Channel!vars
  <2> QED BY <2>3, <2>4
<1>4. CASE Die
  <2>1. client # "dead" /\ client' = "dead" /\ UNCHANGED << unsent, sent, arrived >>
    BY <1>4 DEF Die, plserver
  <2>2. Channel!Die
    BY <2>1 DEF Channel!Die
  <2> QED BY <2>2 DEF Channel!Next
<1>5. CASE ReceiveHeader
  <2>1. UNCHANGED << client, unsent, sent, arrived >>
    BY <1>5 DEF ReceiveHeader, program
  <2> QED BY <2>1 DEF Channel!vars
<1>6. CASE ReceiveBody
  <2>1. UNCHANGED program /\ (UNCHANGED arrived \/ arrived' = Append(arrived, PlRead(packetLen).bytes))
    BY <1>6 DEF ReceiveBody
  <2>2. CASE UNCHANGED arrived
    BY <2>1, <2>2 DEF program, Channel!vars
  <2>3. CASE arrived' = Append(arrived, PlRead(packetLen).bytes)
    BY <2>1, <2>3, ArrivesNext DEF Channel!Next
  <2> QED BY <2>1, <2>2, <2>3
<1>7. CASE UNCHANGED vars
  BY <1>7 DEF vars, program, plserver, Channel!vars
<1> QED BY <1>1, <1>2, <1>3, <1>4, <1>5, <1>6, <1>7 DEF Next, Client, Server

\* The link is the channel in all that it does: it starts as one, and no packet is
\* lost, repeated, reordered or put together wrongly.
THEOREM ImplementsChannelSteps == Spec => Channel!Init /\ [][Channel!Next]_(Channel!vars)
<1>1. Init => Channel!Init
  <2>1. Len(<< >>) = 0
    BY EmptySeq
  <2> QED BY <2>1 DEF Init, Channel!Init
<1>2. IInv /\ IInv' /\ [Next]_vars => [Channel!Next]_(Channel!vars)
  BY ChannelStep
<1> QED BY <1>1, <1>2, PacketsInvariant, PTL DEF Spec
==============================================================================
