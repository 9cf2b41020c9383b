---------------------------- MODULE Streams_proof ----------------------------
(***************************************************************************)
(* Proofs about the life of the plot streams, for every PL_NSTREAMS and    *)
(* every set of memory blocks.                                             *)
(***************************************************************************)
EXTENDS Streams, SequenceTheorems, TLAPS

Fields == DOMAIN Blank
Parts  == {"pls", "ipls", "initialized", "heap", "open"}

Proper(st) == DOMAIN st = Fields /\ st.exists = TRUE /\ {st.top, st.level} \subseteq Nat

Alive(s) == {i \in Number : s.pls[i].exists = TRUE}
Holds(s, i) == s.pls[i].block # Null

\* The streams and their blocks between two steps of a call.
Shaped(s) ==
  /\ DOMAIN s = Parts /\ DOMAIN s.pls = Number /\ s.ipls \in Number
  /\ \A i \in Number : s.pls[i] = None \/ Proper(s.pls[i])
  /\ Null \notin DOMAIN s.heap /\ \A b \in DOMAIN s.heap : s.heap[b] \in Seq(Nat)

Owning(s) ==
  /\ \A i \in Alive(s) : Holds(s, i) =>
       s.pls[i].block \in DOMAIN s.heap /\ s.pls[i].top <= Len(s.heap[s.pls[i].block])
  /\ \A i \in Alive(s) : ~ Holds(s, i) => s.pls[i].top = 0
  /\ \A i, j \in Alive(s) : i # j /\ Holds(s, i) => s.pls[i].block # s.pls[j].block

Sound(s) == Shaped(s) /\ Owning(s) /\ {0, s.ipls} \subseteq Alive(s)

\* A stream has a block only when it has a driver, and one if it records.
Settled(s, i) == s.pls[i].exists = TRUE =>
  (Holds(s, i) => s.pls[i].level > 0) /\ (s.pls[i].write => Holds(s, i))

\* What a step leaves of stream i.
Left(s, t, i) ==
  /\ t.pls[i] = s.pls[i]
  /\ i \in Alive(s) /\ Holds(s, i) =>
       s.pls[i].block \in DOMAIN t.heap /\ t.heap[s.pls[i].block] = s.heap[s.pls[i].block]

\* Of a step that works on the current stream only.
Only(s, t) == Sound(t) /\ t.ipls = s.ipls /\ \A i \in Number \ {s.ipls} : Left(s, t, i)
-----------------------------------------------------------------------------
\* Stream 0 is one of the streams.
LEMMA NumberZero == 0 \in Number
BY StreamsAssumption DEF Number

\* The current stream is written to, but for its block.
LEMMA WithOnly ==
  ASSUME NEW s, Sound(s), NEW st, Proper(st), st.block = plsc(s).block, st.top <= plsc(s).top
  PROVE  Only(s, With(s, st)) /\ plsc(With(s, st)) = st
<1> DEFINE t == With(s, st)
<1>1. /\ DOMAIN t = Parts /\ DOMAIN t.pls = Number /\ t.ipls = s.ipls /\ t.heap = s.heap
      /\ t.pls[s.ipls] = st /\ \A i \in Number \ {s.ipls} : t.pls[i] = s.pls[i]
  BY DEF Sound, Shaped, With, Parts
<1> HIDE DEF t
<1>2. Alive(t) = Alive(s)
  BY <1>1 DEF Alive, Proper, Sound
<1>3. Shaped(t)
  BY <1>1 DEF Sound, Shaped
<1>4. Owning(t)
  <2>1. s.pls[s.ipls].top \in Nat /\ st.top \in Nat /\ \A b \in DOMAIN s.heap : Len(s.heap[b]) \in Nat
    BY DEF Sound, Shaped, Proper, Alive, None
  <2>2. ASSUME NEW i \in Alive(t), Holds(t, i)
        PROVE  t.pls[i].block \in DOMAIN t.heap /\ t.pls[i].top <= Len(t.heap[t.pls[i].block])
    BY <1>1, <1>2, <2>1, <2>2 DEF Sound, Owning, Holds, plsc, Alive
  <2>4. ASSUME NEW i \in Alive(t), ~ Holds(t, i) PROVE t.pls[i].top = 0
    BY <1>1, <1>2, <2>1, <2>4 DEF Sound, Owning, Holds, plsc, Alive
  <2>3. ASSUME NEW i \in Alive(t), NEW j \in Alive(t), i # j, Holds(t, i)
        PROVE  t.pls[i].block # t.pls[j].block
    BY <1>1, <1>2, <2>3 DEF Sound, Owning, Holds, plsc, Alive
  <2> QED BY <2>2, <2>3, <2>4 DEF Owning
<1>5. \A i \in Number \ {s.ipls} : Left(s, t, i)
  BY <1>1 DEF Left, Sound, Owning
<1>6. Only(s, t)
  BY <1>1, <1>2, <1>3, <1>4, <1>5 DEF Only, Sound
<1> QED BY <1>1, <1>6 DEF t, plsc

\* The current stream is written to, and a block of its own or a fresh one.
LEMMA StoreOnly ==
  ASSUME NEW s, Sound(s), NEW st, Proper(st), NEW b, b # Null, NEW c \in Seq(Nat),
         st.block = b, st.top <= Len(c), b \in DOMAIN s.heap => b = plsc(s).block
  PROVE  Only(s, Store(With(s, st), b, c)) /\ plsc(Store(With(s, st), b, c)) = st
<1> DEFINE t == Store(With(s, st), b, c)
<1>1. /\ DOMAIN t = Parts /\ DOMAIN t.pls = Number /\ t.ipls = s.ipls
      /\ t.pls[s.ipls] = st /\ \A i \in Number \ {s.ipls} : t.pls[i] = s.pls[i]
      /\ DOMAIN t.heap = DOMAIN s.heap \cup {b} /\ t.heap[b] = c
      /\ \A x \in DOMAIN s.heap : x # b => t.heap[x] = s.heap[x]
  BY DEF Sound, Shaped, With, Store, Parts
<1> HIDE DEF t
<1>2. Alive(t) = Alive(s) /\ s.ipls \in Number
  BY <1>1 DEF Alive, Proper, Sound
<1>3. Shaped(t)
  BY <1>1 DEF Sound, Shaped
<1>4. \A i \in Alive(s) : i # s.ipls /\ Holds(s, i) => s.pls[i].block # b
  BY <1>2 DEF Sound, Owning, Holds, plsc
<1>5. Owning(t)
  <2>1. ASSUME NEW i \in Alive(t), Holds(t, i)
        PROVE  t.pls[i].block \in DOMAIN t.heap /\ t.pls[i].top <= Len(t.heap[t.pls[i].block])
    BY <1>1, <1>2, <1>4, <2>1 DEF Sound, Owning, Holds, Alive
  <2>2. ASSUME NEW i \in Alive(t), NEW j \in Alive(t), i # j, Holds(t, i)
        PROVE  t.pls[i].block # t.pls[j].block
    BY <1>1, <1>2, <1>4, <2>2 DEF Sound, Owning, Holds, Alive
  <2>3. ASSUME NEW i \in Alive(t), ~ Holds(t, i) PROVE t.pls[i].top = 0
    BY <1>1, <1>2, <2>3 DEF Sound, Owning, Holds, Alive
  <2> QED BY <2>1, <2>2, <2>3 DEF Owning
<1>6. \A i \in Number \ {s.ipls} : Left(s, t, i)
  BY <1>1, <1>4 DEF Left, Sound, Owning
<1>7. Only(s, t)
  BY <1>1, <1>2, <1>3, <1>5, <1>6 DEF Only, Sound
<1> QED BY <1>1, <1>7 DEF t, plsc

\* A count of the outputs, or a flag of the library, touches no stream.
Same(s, t) == DOMAIN t = DOMAIN s /\ t.pls = s.pls /\ t.ipls = s.ipls /\ t.heap = s.heap

\* What touches no stream leaves the current one as it was.
LEMMA SameOnly ==
  ASSUME NEW s, NEW t, Sound(s), Same(s, t)
  PROVE  Only(s, t) /\ plsc(t) = plsc(s)
BY DEF Sound, Shaped, Owning, Alive, Holds, Only, Left, Same, plsc

\* plP_init and plend set such fields.
LEMMA FlagSame ==
  ASSUME NEW s, Sound(s), NEW n
  PROVE  Same(s, [s EXCEPT !.open[s.ipls] = n]) /\ Same(s, [s EXCEPT !.initialized = n])
BY DEF Sound, Shaped, Same, Parts

\* One step after another.
LEMMA OnlyTrans ==
  ASSUME NEW s, NEW t, NEW u, Sound(s), Only(s, t), Only(t, u)
  PROVE  Only(s, u)
BY DEF Only, Left, Alive, Holds

\* Nothing done.
LEMMA OnlyRefl == ASSUME NEW s, Sound(s) PROVE Only(s, s)
BY DEF Only, Left, Sound, Owning

\* The current stream as the caller knows it.
Keeps(st, at) == at.block = st.block /\ at.level = st.level /\ at.write = st.write

\* What is known of the current stream.
LEMMA CurrentProper ==
  ASSUME NEW s, Sound(s)
  PROVE  /\ Proper(plsc(s)) /\ s.ipls \in Number /\ \A b \in DOMAIN s.heap : s.heap[b] \in Seq(Nat)
         /\ plsc(s).block # Null => /\ plsc(s).block \in DOMAIN s.heap
                                    /\ plsc(s).top <= Len(s.heap[plsc(s).block])
BY DEF Sound, Shaped, Owning, Alive, Holds, plsc, None

\* wr_command of a stream with a buffer.
LEMMA WrOnly ==
  ASSUME NEW s, Sound(s), plsc(s).block # Null, NEW item \in Nat
  PROVE  Only(s, Wr(s, item)) /\ Keeps(plsc(s), plsc(Wr(s, item)))
<1> DEFINE st == plsc(s)
           at == [st EXCEPT !.top = @ + 1]
           c  == Append(SubSeq(s.heap[st.block], 1, st.top), item)
<1>1. st.top \in Nat /\ st.block \in DOMAIN s.heap /\ s.heap[st.block] \in Seq(Nat) /\ st.top <= Len(s.heap[st.block])
  BY CurrentProper DEF Proper
<1>2. c \in Seq(Nat) /\ Len(c) = st.top + 1
  <2>1. SubSeq(s.heap[st.block], 1, st.top) \in Seq(Nat) /\ Len(SubSeq(s.heap[st.block], 1, st.top)) = st.top
    BY <1>1
  <2> QED BY <2>1
<1>3. Proper(at) /\ at.block = st.block /\ at.top = st.top + 1 /\ Keeps(st, at)
  <2>1. Proper(st)
    BY CurrentProper
  <2> HIDE DEF st
  <2> QED BY <1>1, <2>1 DEF Proper, Fields, Blank, Keeps
<1>4. Wr(s, item) = Store(With(s, at), st.block, c)
  BY DEF Wr
<1> HIDE DEF st, at, c
<1> QED BY <1>1, <1>2, <1>3, <1>4, StoreOnly DEF st
-----------------------------------------------------------------------------
(* The calls on the current stream.                                        *)

\* A stream that records has a buffer.
Records(s) == plsc(s).write => plsc(s).block # Null

Within(s, t) == Only(s, t) /\ Keeps(plsc(s), plsc(t))

\* A change of the current stream's record that leaves its block alone.
LEMMA ChangeWithin ==
  ASSUME NEW s, Sound(s), NEW at, Proper(at), Keeps(plsc(s), at), at.top <= plsc(s).top
  PROVE  Within(s, With(s, at))
BY WithOnly DEF Within, Keeps

\* One call after another.
LEMMA WithinTrans ==
  ASSUME NEW s, NEW t, NEW u, Sound(s), Within(s, t), Within(t, u)
  PROVE  Within(s, u)
BY OnlyTrans DEF Within, Keeps

\* plP_bop, plP_line and plstrm_init touch no other stream, and keep the block.
LEMMA PlPBopWithin == ASSUME NEW s, Sound(s), Records(s) PROVE Within(s, PlPBop(s))
<1> DEFINE st  == plsc(s)
           at  == [st EXCEPT !.status = "bop", !.page = << >>]
           at1 == [at EXCEPT !.top = 0, !.copy = NoCopy]
<1>1. Proper(st)
  BY CurrentProper
<1>2. PlPBop(s) = IF st.status = "bop" THEN s ELSE IF st.write THEN Wr(With(s, at1), Bop) ELSE With(s, at)
  BY DEF PlPBop
<1>3. Proper(at) /\ Keeps(st, at) /\ at.top = st.top
  <2> HIDE DEF st
  <2> QED BY <1>1 DEF Proper, Fields, Blank, Keeps
<1>4. Proper(at1) /\ Keeps(st, at1) /\ at1.top = 0
  <2> HIDE DEF at
  <2> QED BY <1>3 DEF Proper, Fields, Blank, Keeps
<1> HIDE DEF at, at1
<1>5. 0 <= st.top /\ st.top <= st.top
  BY <1>1 DEF Proper
<1>6. Within(s, With(s, at)) /\ Within(s, With(s, at1))
  BY <1>3, <1>4, <1>5, ChangeWithin
<1>7. CASE st.status = "bop"
  BY <1>2, <1>7, OnlyRefl DEF Within, Keeps
<1>8. CASE st.status # "bop" /\ st.write
  <2>1. Sound(With(s, at1)) /\ plsc(With(s, at1)).block # Null
    BY <1>6, <1>8 DEF Within, Only, Keeps, Records
  <2>2. Within(With(s, at1), Wr(With(s, at1), Bop))
    BY <2>1, WrOnly DEF Within, Bop
  <2> QED BY <1>2, <1>6, <1>8, <2>2, WithinTrans
<1>9. CASE st.status # "bop" /\ ~ st.write
  BY <1>2, <1>6, <1>9
<1> QED BY <1>7, <1>8, <1>9

\* A drawing is recorded behind the others.
LEMMA PlPLineWithin ==
  ASSUME NEW s, Sound(s), Records(s), NEW item \in Nat
  PROVE  Within(s, PlPLine(s, item))
<1> DEFINE st == plsc(s)
           at == [st EXCEPT !.status = "drawing", !.page = Append(@, item),
                            !.copy = IF st.write /\ @ # NoCopy THEN Unknown ELSE @]
<1>1. Proper(st)
  BY CurrentProper
<1>2. PlPLine(s, item) = IF st.write THEN Wr(With(s, at), item) ELSE With(s, at)
  BY DEF PlPLine
<1>3. Proper(at) /\ Keeps(st, at) /\ at.top = st.top
  <2> HIDE DEF st
  <2> QED BY <1>1 DEF Proper, Fields, Blank, Keeps
<1> HIDE DEF at
<1>4. Within(s, With(s, at))
  <2>1. st.top <= st.top
    BY <1>1 DEF Proper
  <2> QED BY <1>3, <2>1, ChangeWithin
<1>5. CASE st.write
  <2>1. Sound(With(s, at)) /\ plsc(With(s, at)).block # Null
    BY <1>4, <1>5 DEF Within, Only, Keeps, Records
  <2>2. Within(With(s, at), Wr(With(s, at), item))
    BY <2>1, WrOnly DEF Within
  <2> QED BY <1>2, <1>4, <1>5, <2>2, WithinTrans
<1> QED BY <1>2, <1>4, <1>5

\* plRemakePlot changes no buffer.
LEMMA PlRemakePlotWithin == ASSUME NEW s, Sound(s) PROVE Within(s, PlRemakePlot(s))
<1>1. Proper(plsc(s))
  BY CurrentProper
<1>2. \A st : Proper(st) => \A x, y : /\ Proper([st EXCEPT !.page = x, !.status = y])
                                      /\ Keeps(st, [st EXCEPT !.page = x, !.status = y])
                                      /\ [st EXCEPT !.page = x, !.status = y].top <= st.top
  BY DEF Proper, Fields, Blank, Keeps
<1>3. \E x, y : PlRemakePlot(s) = With(s, [plsc(s) EXCEPT !.page = x, !.status = y])
  BY DEF PlRemakePlot
<1> QED BY <1>1, <1>2, <1>3, ChangeWithin

\* malloc gives a block that nobody has.
LEMMA FreshBlock ==
  ASSUME NEW s, Room(s)
  PROVE  Fresh(s) \in Blocks /\ Fresh(s) \notin DOMAIN s.heap /\ Fresh(s) # Null
BY StreamsAssumption DEF Room, Fresh, Null

\* plstrm_init sets fields of the current stream, and no buffer.
LEMMA PlstrmInitWithin == ASSUME NEW s, Sound(s) PROVE Within(s, PlstrmInit(s))
<1> DEFINE at == [plsc(s) EXCEPT !.initialized = TRUE, !.psdoc = FALSE]
<1>1. Proper(plsc(s))
  BY CurrentProper
<1>2. \A st : LET a == [st EXCEPT !.initialized = TRUE, !.psdoc = FALSE]
              IN  Proper(st) => Proper(a) /\ Keeps(st, a) /\ a.top <= st.top
  BY DEF Proper, Fields, Blank, Keeps
<1> QED BY <1>1, <1>2, ChangeWithin DEF PlstrmInit

\* plP_init gives a stream that records its buffer, an empty one.
LEMMA PlPInitOnly ==
  ASSUME NEW s, Sound(s), Room(s) \/ plsc(s).block # Null, NEW device
  PROVE  Only(s, PlPInit(s, device)) /\ Records(PlPInit(s, device))
<1> DEFINE st  == plsc(s)
           d   == IF st.device = "none" THEN device ELSE st.device
           at  == [st EXCEPT !.device = d, !.status = "eop", !.psdoc = (d = "psttf"), !.write = (d = "screen")]
           at0 == [at EXCEPT !.top = 0]
           at1 == [at EXCEPT !.block = Fresh(s), !.top = 0]
           s1  == [s EXCEPT !.open[s.ipls] = @ + 1]
<1>1. PlPInit(s, device) = IF ~ at.write THEN With(s1, at)
                           ELSE IF at.block # Null THEN With(s1, at0)
                           ELSE Store(With(s1, at1), Fresh(s), << >>)
  BY DEF PlPInit
<1>2. Only(s, s1) /\ plsc(s1) = st /\ s1.heap = s.heap
  BY FlagSame, SameOnly DEF Same
<1>3. Proper(st)
  BY CurrentProper
<1>4. Proper(at) /\ at.block = st.block /\ at.top = st.top
  <2> HIDE DEF st, d
  <2> QED BY <1>3 DEF Proper, Fields, Blank
<1> HIDE DEF at
<1>5. /\ Proper(at0) /\ at0.block = at.block /\ at0.top = 0
      /\ Proper(at1) /\ at1.block = Fresh(s) /\ at1.top = 0
  BY <1>4 DEF Proper, Fields, Blank
<1> HIDE DEF at0, at1, s1, d
<1>6. Sound(s1) /\ 0 <= st.top /\ st.top <= st.top
  BY <1>2, <1>3 DEF Only, Proper
<1>7. CASE ~ at.write
  <2>1. Only(s1, With(s1, at)) /\ plsc(With(s1, at)) = at
    BY <1>2, <1>4, <1>6, WithOnly
  <2> QED BY <1>1, <1>2, <1>7, <2>1, OnlyTrans DEF Records
<1>8. CASE at.write /\ at.block # Null
  <2>1. Only(s1, With(s1, at0)) /\ plsc(With(s1, at0)) = at0
    BY <1>2, <1>4, <1>5, <1>6, WithOnly
  <2> QED BY <1>1, <1>2, <1>5, <1>8, <2>1, OnlyTrans DEF Records
<1>9. CASE at.write /\ at.block = Null
  <2> DEFINE t == Store(With(s1, at1), Fresh(s), << >>)
  <2>1. << >> \in Seq(Nat) /\ at1.top <= Len(<< >>)
    BY <1>5
  <2>2. Fresh(s) # Null /\ Fresh(s) \notin DOMAIN s1.heap
    BY <1>2, <1>4, <1>9, FreshBlock
  <2>3. Only(s1, t) /\ plsc(t) = at1
    <3>1. Proper(at1) /\ Sound(s1) /\ at1.block = Fresh(s)
      BY <1>5, <1>6
    <3> QED BY ONLY <3>1, <2>1, <2>2, StoreOnly DEF t
  <2>4. PlPInit(s, device) = t
    BY <1>1, <1>9
  <2> HIDE DEF t
  <2> QED BY <1>2, <1>5, <2>2, <2>3, <2>4, OnlyTrans DEF Records
<1> QED BY <1>7, <1>8, <1>9
-----------------------------------------------------------------------------
(* The calls that select, end and copy streams.                            *)

\* A blank stream has no block.
LEMMA BlankProper == Proper(Blank) /\ Blank.block = Null /\ Blank.top = 0 /\ ~ Blank.write /\ Blank.level = 0
BY DEF Proper, Fields, Blank

\* A stream that is selected is created if it does not exist.
LEMMA PlsstrmToSound ==
  ASSUME NEW s, Sound(s), NEW i \in Number
  PROVE  LET t == PlsstrmTo(s, i)
         IN  /\ Sound(t) /\ t.ipls = i /\ t.heap = s.heap
             /\ \A j \in Number : t.pls[j] = s.pls[j] \/ (j = i /\ s.pls[j] = None /\ t.pls[j] = Blank)
<1> DEFINE t == PlsstrmTo(s, i)
<1>1. /\ DOMAIN t = Parts /\ DOMAIN t.pls = Number /\ t.ipls = i /\ t.heap = s.heap
      /\ \A j \in Number \ {i} : t.pls[j] = s.pls[j]
      /\ t.pls[i] = IF s.pls[i].exists THEN s.pls[i] ELSE Blank
  BY DEF PlsstrmTo, Sound, Shaped, Parts
<1> HIDE DEF t
<1>2. s.pls[i] = None \/ (Proper(s.pls[i]) /\ s.pls[i].exists)
  BY DEF Sound, Shaped, Proper
<1>3. \A j \in Number : t.pls[j] = s.pls[j] \/ (j = i /\ s.pls[j] = None /\ t.pls[j] = Blank)
  BY <1>1, <1>2 DEF None
<1>4. Alive(t) = Alive(s) \cup {i}
  BY <1>1, <1>2, <1>3, BlankProper DEF Alive, Proper
<1>5. Shaped(t)
  BY <1>1, <1>3, BlankProper DEF Sound, Shaped
<1>6. Owning(t)
  BY <1>1, <1>3, BlankProper DEF Sound, Owning, Alive, Holds, None
<1>7. Sound(t)
  BY <1>1, <1>4, <1>5, <1>6, NumberZero DEF Sound
<1> QED BY <1>1, <1>3, <1>7 DEF t

\* plend1 takes one stream and its buffer away, and leaves the others theirs.
LEMMA Plend1OfSound ==
  ASSUME NEW s, Sound(s)
  PROVE  LET t == Plend1Of(s)
         IN  /\ Sound(t) /\ t.ipls = 0
             /\ t.pls[s.ipls] = IF s.ipls = 0 THEN Blank ELSE None
             /\ \A i \in Number \ {s.ipls} : Left(s, t, i)
             /\ DOMAIN t.heap = DOMAIN s.heap \ {plsc(s).block}
<1> DEFINE st == plsc(s)
           s1 == IF st.level > 0 THEN [s EXCEPT !.open[s.ipls] = @ - 1] ELSE s
           s2 == Release(s1, st.block)
           n  == IF s.ipls > 0 THEN None ELSE Blank
           u  == With(s2, n)
           t  == Plend1Of(s)
<1>0. s.ipls \in Number /\ (s.ipls > 0 <=> s.ipls # 0)
  BY DEF Sound, Shaped, Number
<1>1. Same(s, s1) /\ DOMAIN s1 = Parts
  BY FlagSame DEF Same, Sound, Shaped
<1>2. t = IF s.ipls > 0 THEN PlsstrmTo(u, 0) ELSE u
  BY DEF Plend1Of
<1> HIDE DEF s1
<1>3. /\ DOMAIN s2 = Parts /\ s2.pls = s.pls /\ s2.ipls = s.ipls
      /\ DOMAIN s2.heap = DOMAIN s.heap \ {st.block} /\ \A b \in DOMAIN s2.heap : s2.heap[b] = s.heap[b]
  BY <1>1 DEF Release, Same, Parts
<1> HIDE DEF s2
<1>4. /\ DOMAIN u = Parts /\ DOMAIN u.pls = Number /\ u.ipls = s.ipls /\ u.pls[s.ipls] = n
      /\ \A i \in Number \ {s.ipls} : u.pls[i] = s.pls[i]
      /\ DOMAIN u.heap = DOMAIN s.heap \ {st.block} /\ \A b \in DOMAIN u.heap : u.heap[b] = s.heap[b]
  BY <1>0, <1>3 DEF With, Sound, Shaped, Parts
<1> HIDE DEF u
<1>5. Alive(u) = (Alive(s) \ {s.ipls}) \cup (IF s.ipls = 0 THEN {0} ELSE {})
  BY <1>0, <1>4, BlankProper DEF Alive, Proper, None
<1>6. Shaped(u)
  BY <1>4, BlankProper DEF Sound, Shaped
<1>7. Owning(u)
  <2>1. \A i \in Alive(s) : i # s.ipls /\ Holds(s, i) => s.pls[i].block # st.block
    BY DEF Sound, Owning, Holds, plsc
  <2>2. ASSUME NEW i \in Alive(u), i # s.ipls PROVE i \in Alive(s) /\ u.pls[i] = s.pls[i]
    BY <1>4, <2>2 DEF Alive
  <2>3. ASSUME s.ipls \in Alive(u) PROVE u.pls[s.ipls] = Blank
    BY <1>4, <2>3 DEF Alive, None
  <2> QED BY <1>4, <2>1, <2>2, <2>3, BlankProper DEF Sound, Owning, Holds
<1>8. \A i \in Number \ {s.ipls} : Left(s, u, i)
  BY <1>4 DEF Left, Sound, Owning, Holds, plsc
<1>9. CASE s.ipls = 0
  BY <1>0, <1>2, <1>4, <1>5, <1>6, <1>7, <1>8, <1>9 DEF Sound
<1>10. CASE s.ipls # 0
  <2>1. 0 \in Number /\ u.pls[0] = s.pls[0] /\ s.pls[0].exists
    BY <1>4, <1>10, NumberZero DEF Sound, Alive
  <2>2. /\ DOMAIN t = Parts /\ DOMAIN t.pls = Number /\ t.ipls = 0 /\ t.heap = u.heap
        /\ \A i \in Number : t.pls[i] = u.pls[i]
    BY <1>0, <1>2, <1>4, <1>10, <2>1 DEF PlsstrmTo, Parts
  <2> HIDE DEF t
  <2>3. Alive(t) = Alive(u) /\ 0 \in Alive(u)
    BY <1>5, <1>10, <2>1, <2>2 DEF Alive, Sound
  <2>4. Shaped(t) /\ Owning(t)
    BY <1>6, <1>7, <2>1, <2>2, <2>3 DEF Shaped, Owning, Holds, Alive
  <2> QED BY <1>0, <1>4, <1>8, <1>10, <2>2, <2>3, <2>4 DEF Sound, Left, t
<1> QED BY <1>9, <1>10

\* Those that are left as they are stay settled.
LEMMA LeftSettled ==
  ASSUME NEW s, NEW t, NEW i, Left(s, t, i), Settled(s, i)
  PROVE  Settled(t, i)
BY DEF Left, Settled, Holds

\* plinit of a stream without a driver, and of what remains of another.
LEMMA PlinitTail ==
  ASSUME NEW s, Sound(s), Room(s) \/ plsc(s).block # Null, NEW device
  PROVE  LET s2 == PlPBop(PlPInit(PlstrmInit([s EXCEPT !.initialized = TRUE]), device))
             t  == With(s2, [plsc(s2) EXCEPT !.level = 1])
         IN  Only(s, t) /\ Settled(t, t.ipls)
<1> DEFINE s0 == [s EXCEPT !.initialized = TRUE]
           s1 == PlstrmInit(s0)
           p  == PlPInit(s1, device)
           s2 == PlPBop(p)
           at == [plsc(s2) EXCEPT !.level = 1]
           t  == With(s2, at)
<1>1. Only(s, s0) /\ Sound(s0) /\ s0.heap = s.heap /\ plsc(s0) = plsc(s)
  BY FlagSame, SameOnly DEF Only, Same
<1> HIDE DEF s0
<1>2. Only(s, s1) /\ Sound(s1) /\ s1.heap = s.heap /\ plsc(s1).block = plsc(s).block
  <2>1. s1.heap = s0.heap
    BY <1>1 DEF PlstrmInit, With, Sound, Shaped, Parts
  <2> QED BY <1>1, <2>1, PlstrmInitWithin, OnlyTrans DEF Within, Only, Keeps
<1> HIDE DEF s1
<1>3. Only(s, p) /\ Sound(p) /\ Records(p)
  <2>1. Room(s1) \/ plsc(s1).block # Null
    BY <1>2 DEF Room
  <2> QED BY <1>2, <2>1, PlPInitOnly, OnlyTrans DEF Only
<1> HIDE DEF p
<1>4. Only(s, s2) /\ Sound(s2) /\ Records(s2)
  BY <1>3, PlPBopWithin, OnlyTrans DEF Within, Only, Records, Keeps
<1> HIDE DEF s2
<1>5. Proper(plsc(s2))
  BY <1>4, CurrentProper
<1>6. /\ Proper(at) /\ at.block = plsc(s2).block /\ at.top = plsc(s2).top /\ at.top <= plsc(s2).top
      /\ at.level = 1 /\ at.write = plsc(s2).write
  BY <1>5 DEF Proper, Fields, Blank
<1> HIDE DEF at
<1>7. Only(s2, t) /\ plsc(t) = at
  BY <1>4, <1>6, WithOnly
<1> HIDE DEF t
<1>8. Only(s, t)
  BY <1>4, <1>7, OnlyTrans
<1>9. Settled(t, t.ipls)
  BY <1>4, <1>6, <1>7 DEF Settled, Holds, Records, plsc
<1> QED BY <1>8, <1>9 DEF t, at, s2, p, s1, s0

\* Between two calls every stream is settled; a call is done when it has left
\* the other streams alone, but for stream 0 when the current one has ended.
Library(s) == Sound(s) /\ \A i \in Number : Settled(s, i)
Apart(s, t) == \A i \in Alive(s) \ {s.ipls} :
  Left(s, t, i) \/ (i = 0 /\ t.ipls = 0 /\ t.pls[s.ipls] = None)
Done(s, t) == Library(t) /\ Apart(s, t)

\* A call that works on the current stream only is done when it has settled it.
LEMMA OnlyDone ==
  ASSUME NEW s, NEW t, Library(s), Only(s, t), Settled(t, t.ipls)
  PROVE  Done(s, t)
BY LeftSettled DEF Library, Only, Done, Apart, Alive

\* A call that stays within the current stream is done in that sense.
LEMMA WithinDone ==
  ASSUME NEW s, NEW t, Library(s), Within(s, t)
  PROVE  Done(s, t)
<1>1. Settled(s, s.ipls) /\ Proper(plsc(s)) /\ t.ipls = s.ipls
  BY CurrentProper DEF Library, Sound, Shaped, Within, Only
<1>2. Settled(t, t.ipls)
  BY <1>1 DEF Within, Keeps, Settled, Holds, plsc, Proper
<1> QED BY <1>2, OnlyDone DEF Within

\* Between two calls a stream that records has a buffer.
LEMMA SettledRecords == ASSUME NEW s, Library(s) PROVE Records(s)
BY CurrentProper DEF Library, Sound, Shaped, Settled, Records, plsc, Holds, Proper

\* plsstrm, plend1 and plinit are done in that sense.
LEMMA PlsstrmToDone ==
  ASSUME NEW s, Library(s), NEW i \in Number
  PROVE  LET t == PlsstrmTo(s, i)
         IN  Done(s, t) /\ t.ipls = i /\ \A j \in Number : j # i => Left(s, t, j)
<1> DEFINE t == PlsstrmTo(s, i)
<1>1. /\ Sound(t) /\ t.ipls = i /\ t.heap = s.heap
      /\ \A j \in Number : t.pls[j] = s.pls[j] \/ (j = i /\ s.pls[j] = None /\ t.pls[j] = Blank)
  BY PlsstrmToSound DEF Library
<1> HIDE DEF t
<1>2. \A j \in Number : Settled(t, j)
  BY <1>1, BlankProper DEF Library, Settled, Holds
<1>3. \A j \in Number : j # i => Left(s, t, j)
  BY <1>1 DEF Left, Library, Sound, Owning
<1>4. Apart(s, t)
  BY <1>1 DEF Apart, Left, Library, Sound, Owning, Alive, None
<1> QED BY <1>1, <1>2, <1>3, <1>4 DEF t, Library, Done

\* plend1 leaves stream 0 as the current one, blank where it was that one.
LEMMA Plend1Done ==
  ASSUME NEW s, Library(s)
  PROVE  Done(s, Plend1Of(s)) /\ Plend1Of(s).ipls = 0
<1> DEFINE t == Plend1Of(s)
<1>1. /\ Sound(t) /\ t.ipls = 0 /\ t.pls[s.ipls] = IF s.ipls = 0 THEN Blank ELSE None
      /\ \A i \in Number \ {s.ipls} : Left(s, t, i)
  BY Plend1OfSound DEF Library
<1> HIDE DEF t
<1>2. \A i \in Number : Settled(t, i)
  <2>1. Settled(t, s.ipls)
    BY <1>1, BlankProper DEF Settled, Holds, None
  <2> QED BY <1>1, <2>1, LeftSettled DEF Library
<1> QED BY <1>1, <1>2 DEF t, Done, Library, Apart, Alive

\* plinit ends a stream that is initialised before it begins it.
LEMMA PlinitDone ==
  ASSUME NEW s, Library(s), Room(s), NEW device
  PROVE  Done(s, PlinitOf(s, device))
<1> DEFINE e == IF plsc(s).level # 0 THEN Plend1Of(s) ELSE s
           t == PlinitOf(s, device)
<1>1. Sound(e) /\ Room(e)
  BY Plend1OfSound DEF Library, Room
<1>2. Only(e, t) /\ Settled(t, t.ipls)
  BY <1>1, PlinitTail DEF PlinitOf
<1>3. Library(e) /\ Apart(s, e) /\ e.ipls \in {0, s.ipls} /\ (e.ipls # s.ipls => e.pls[s.ipls] = None)
  <2>1. CASE plsc(s).level # 0
    BY <2>1, Plend1Done, Plend1OfSound DEF Library, Done
  <2>2. CASE plsc(s).level = 0
    BY <2>2, OnlyRefl DEF Library, Only, Apart, Alive
  <2> QED BY <2>1, <2>2
<1> HIDE DEF e, t
<1>4. Library(t)
  BY <1>2, <1>3, OnlyDone DEF Done
<1>5. Apart(s, t)
  <2> SUFFICES ASSUME NEW i \in Alive(s) \ {s.ipls}
               PROVE  Left(s, t, i) \/ (i = 0 /\ t.ipls = 0 /\ t.pls[s.ipls] = None)
    BY DEF Apart
  <2>1. t.ipls = e.ipls /\ \A j \in Number \ {e.ipls} : t.pls[j] = e.pls[j]
    BY <1>2 DEF Only, Left
  <2>2. s.ipls \in Number
    BY DEF Library, Sound, Shaped
  <2>3. CASE i = e.ipls
    BY <1>3, <2>1, <2>2, <2>3
  <2>4. CASE i # e.ipls
    BY <1>2, <1>3, <2>1, <2>2, <2>4 DEF Apart, Only, Left, Alive, Holds
  <2> QED BY <2>3, <2>4
<1> QED BY <1>4, <1>5 DEF Done, t

\* The buffer that is copied is a fresh one, whatever stream it is copied from.
LEMMA CopiedOnly ==
  ASSUME NEW s, Library(s), Room(s), NEW r \in Number, s.pls[r].exists
  PROVE  /\ Only(s, Copied(s, r)) /\ plsc(Copied(s, r)).block # Null
         /\ plsc(Copied(s, r)).level = plsc(s).level
<1> DEFINE from == s.pls[r]
           data == IF r = s.ipls THEN [k \in 1..from.top |-> Junk]
                   ELSE IF from.block = Null THEN << >> ELSE Buffer(s, r)
           b    == Fresh(s)
<1>1. PICK x : Copied(s, r) = Store(With(s, [plsc(s) EXCEPT !.block = b, !.top = from.top, !.copy = x]), b, data)
  BY DEF Copied
<1> DEFINE at == [plsc(s) EXCEPT !.block = b, !.top = from.top, !.copy = x]
<1>2. r \in Alive(s) /\ Proper(from)
  BY DEF Library, Sound, Shaped, Alive, Proper, None
<1>3. data \in Seq(Nat) /\ Len(data) = from.top
  <2>1. from.top \in Nat /\ Junk \in Nat
    BY <1>2, StreamsAssumption DEF Proper, Junk
  <2>2. CASE r = s.ipls
    BY <2>1, <2>2
  <2>3. CASE r # s.ipls /\ from.block = Null
    BY <1>2, <2>3 DEF Library, Sound, Owning, Holds
  <2>4. CASE r # s.ipls /\ from.block # Null
    <3>1. s.heap[from.block] \in Seq(Nat) /\ from.top <= Len(s.heap[from.block])
      BY <1>2, <2>4 DEF Library, Sound, Shaped, Owning, Holds
    <3>2. Buffer(s, r) = SubSeq(s.heap[from.block], 1, from.top)
      BY DEF Buffer
    <3> HIDE DEF from
    <3>3. Buffer(s, r) \in Seq(Nat) /\ Len(Buffer(s, r)) = from.top
      BY <2>1, <3>1, <3>2
    <3> QED BY <2>4, <3>3
  <2> QED BY <2>2, <2>3, <2>4
<1>4. Proper(plsc(s)) /\ Sound(s)
  BY CurrentProper DEF Library
<1>5. b # Null /\ b \notin DOMAIN s.heap /\ from.top \in Nat
  BY <1>2, FreshBlock DEF Proper
<1> HIDE DEF from, data, b
<1>6. Proper(at) /\ at.block = b /\ at.top = from.top /\ at.level = plsc(s).level
  BY <1>4, <1>5 DEF Proper, Fields, Blank
<1>7. at.top <= Len(data)
  BY <1>3, <1>5, <1>6
<1> HIDE DEF at
<1>8. Only(s, Store(With(s, at), b, data)) /\ plsc(Store(With(s, at), b, data)) = at
  BY <1>3, <1>4, <1>5, <1>6, <1>7, StoreOnly
<1> QED BY <1>1, <1>5, <1>6, <1>8 DEF at

\* A second block is needed only when plinit is called for a stream without one.
LEMMA PlcpstrmDone ==
  ASSUME NEW s, Library(s), Room(s), NEW r \in Number, s.pls[r].exists, NEW device
  PROVE  Done(s, PlcpstrmOf(s, r, device))
<1> DEFINE c == Copied(s, r)
<1>1. Only(s, c) /\ plsc(c).block # Null /\ plsc(c).level = plsc(s).level
  BY CopiedOnly
<1>2. PlcpstrmOf(s, r, device) = IF plsc(s).level = 0 THEN PlinitOf(c, device) ELSE c
  BY DEF PlcpstrmOf
<1> HIDE DEF c
<1>3. CASE plsc(s).level # 0
  <2>1. plsc(s).level \in Nat /\ c.ipls = s.ipls
    BY <1>1, CurrentProper DEF Library, Proper, Only
  <2>2. Settled(c, c.ipls)
    BY <1>1, <1>3, <2>1 DEF Settled, Holds, plsc
  <2> QED BY <1>1, <1>2, <1>3, <2>2, OnlyDone
<1>4. CASE plsc(s).level = 0
  <2>1. Sound(c) /\ plsc(c).level = 0
    BY <1>1, <1>4 DEF Only
  <2>2. Only(c, PlinitOf(c, device)) /\ Settled(PlinitOf(c, device), PlinitOf(c, device).ipls)
    BY <1>1, <2>1, PlinitTail DEF PlinitOf
  <2>3. Only(s, PlinitOf(c, device))
    BY <1>1, <2>2, OnlyTrans DEF Library
  <2> QED BY <1>2, <1>4, <2>2, <2>3, OnlyDone
<1> QED BY <1>3, <1>4
-----------------------------------------------------------------------------
(* The steps of a program.                                                 *)

\* The library begins with one blank stream.
LEMMA LibraryInit == Init => Library(lib)
<1> SUFFICES ASSUME Init PROVE Library(lib)
  OBVIOUS
<1>1. /\ DOMAIN lib = Parts /\ DOMAIN lib.pls = Number /\ lib.ipls = 0 /\ DOMAIN lib.heap = {}
      /\ lib.pls[0] = Blank /\ \A i \in Number \ {0} : lib.pls[i] = None
  BY NumberZero DEF Init, Parts
<1>2. Alive(lib) = {0}
  BY <1>1, NumberZero, BlankProper DEF Alive, Proper, None
<1>3. Shaped(lib)
  BY <1>1, NumberZero, BlankProper DEF Shaped
<1>4. Owning(lib)
  BY <1>1, <1>2, BlankProper DEF Owning, Holds
<1>5. \A i \in Number : Settled(lib, i)
  BY <1>1, BlankProper DEF Settled, Holds, None
<1> QED BY <1>1, <1>2, <1>3, <1>4, <1>5 DEF Library, Sound

\* The calls of a program, and a round of plend's loop.
Call == Plsstrm \/ Plmkstrm \/ Plinit \/ Plcpstrm \/ Draw \/ Plbop \/ Pleop \/ Plreplot \/ Plend1

\* So is a call that does nothing.
LEMMA SelfDone == ASSUME NEW s, Library(s) PROVE Done(s, s)
BY OnlyRefl DEF Library, Done, Only, Apart, Alive

\* Every call of the program is done in that sense.
LEMMA CallDone == Library(lib) /\ drawn \in Nat /\ Call => Done(lib, lib') /\ drawn' \in Nat
<1> SUFFICES ASSUME Library(lib), drawn \in Nat, Call PROVE Done(lib, lib') /\ drawn' \in Nat
  OBVIOUS
<1>1. CASE Plsstrm
  BY <1>1, PlsstrmToDone DEF Plsstrm, Other
<1>2. CASE Plmkstrm
  <2> DEFINE free == {i \in Number \ {0} : ~ lib.pls[i].exists}
  <2>1. drawn' = drawn
    BY <1>2 DEF Plmkstrm, Other
  <2>2. CASE lib' = PlstrmInit(lib)
    BY <2>1, <2>2, PlstrmInitWithin, WithinDone DEF Library
  <2>3. ASSUME NEW n \in free, lib' = PlstrmInit(PlsstrmTo(lib, n))
        PROVE  Done(lib, lib')
    <3> DEFINE s == PlsstrmTo(lib, n)
    <3>1. n \in Number \ {0} /\ n \notin Alive(lib)
      BY DEF Alive
    <3>3. Done(lib, s) /\ s.ipls = n /\ \A j \in Number : j # n => Left(lib, s, j)
      BY <3>1, PlsstrmToDone
    <3>4. Within(s, lib') /\ Done(s, lib')
      BY <2>3, <3>3, PlstrmInitWithin, WithinDone DEF Done, Library
    <3> HIDE DEF s
    <3>5. Apart(lib, lib')
      BY <3>1, <3>3, <3>4 DEF Apart, Within, Only, Left, Alive, Holds
    <3> QED BY <3>4, <3>5 DEF Done
  <2> QED BY <1>2, <2>1, <2>2, <2>3 DEF Plmkstrm
<1>3. CASE Plinit
  BY <1>3, PlinitDone DEF Plinit, Other
<1>4. CASE Plcpstrm
  BY <1>4, PlcpstrmDone, SelfDone DEF Plcpstrm, Other
<1>5. CASE Draw
  BY <1>5, PlPLineWithin, WithinDone, SettledRecords DEF Draw, Library
<1>6. CASE Plbop
  BY <1>6, PlPBopWithin, WithinDone, SettledRecords DEF Plbop, Other, Library
<1>7. CASE Pleop
  <2> DEFINE at == [plsc(lib) EXCEPT !.status = "eop"]
  <2>1. Proper(plsc(lib))
    BY CurrentProper DEF Library
  <2>2. Proper(at) /\ Keeps(plsc(lib), at) /\ at.top <= plsc(lib).top
    BY <2>1 DEF Proper, Fields, Blank, Keeps
  <2>3. lib' = With(lib, at) /\ drawn' = drawn
    BY <1>7 DEF Pleop, Other
  <2> HIDE DEF at
  <2> QED BY <2>2, <2>3, ChangeWithin, WithinDone DEF Library
<1>8. CASE Plreplot
  BY <1>8, PlRemakePlotWithin, WithinDone DEF Plreplot, Other, Library
<1>9. CASE Plend1
  BY <1>9, Plend1Done DEF Plend1, Other
<1> QED BY <1>1, <1>2, <1>3, <1>4, <1>5, <1>6, <1>7, <1>8, <1>9 DEF Call

\* plend ends the streams from the last one down; what is above is gone.
Ended == ending <= NStreams => \A i \in Number : i >= ending /\ i # 0 => lib.pls[i] = None

IInv == Library(lib) /\ drawn \in Nat /\ ending \in 1..NStreams + 1 /\ Ended

\* What touches no stream keeps the library in order.
LEMMA LibrarySame ==
  ASSUME NEW s, NEW t, Library(s), Same(s, t)
  PROVE  Library(t)
BY SameOnly DEF Library, Same, Only, Settled, Holds

\* A round of plend's loop, and what it makes of the stream that is its turn.
LEMMA PlendStepDone ==
  ASSUME IInv, PlendStep
  PROVE  /\ Library(lib') /\ drawn' = drawn /\ ending' = IF ending = 1 THEN NStreams + 1 ELSE ending - 1
         /\ lib'.pls[ending - 1] = IF ending = 1 THEN Blank ELSE None
         /\ \A i \in Number : i # ending - 1 => lib'.pls[i] = lib.pls[i]
         /\ ending = 1 => lib'.ipls = 0 /\ DOMAIN lib'.heap = DOMAIN lib.heap \ {lib.pls[0].block}
<1> DEFINE n  == ending - 1
           s1 == PlsstrmTo(lib, n)
           s  == IF lib.pls[n].exists THEN Plend1Of(s1) ELSE lib
<1>0. ending \in 1..NStreams /\ n \in Number /\ (n = 0 <=> ending = 1) /\ Library(lib)
  BY StreamsAssumption DEF PlendStep, Number, IInv
<1>1. lib' = [s EXCEPT !.initialized = (ending > 1)] /\ drawn' = drawn /\ ending' = IF ending = 1 THEN NStreams + 1 ELSE ending - 1
  BY DEF PlendStep
<1> HIDE DEF n
<1>2. CASE lib.pls[n].exists
  <2>1. /\ Library(s1) /\ s1.ipls = n /\ s1.heap = lib.heap
        /\ \A i \in Number : i # n => s1.pls[i] = lib.pls[i]
        /\ s1.pls[n] = lib.pls[n]
    <3>1. Sound(lib) /\ lib.pls[n] # None
      BY <1>0, <1>2 DEF Library, None
    <3>2. /\ s1.ipls = n /\ s1.heap = lib.heap
          /\ \A j \in Number : s1.pls[j] = lib.pls[j] \/ (j = n /\ lib.pls[j] = None /\ s1.pls[j] = Blank)
      BY <1>0, <3>1, PlsstrmToSound
    <3>3. Library(s1)
      BY <1>0, PlsstrmToDone DEF Done
    <3> HIDE DEF s1
    <3> QED BY <1>0, <3>1, <3>2, <3>3
  <2> HIDE DEF s1
  <2>2. /\ Library(s) /\ s.ipls = 0 /\ s.pls[n] = IF n = 0 THEN Blank ELSE None
        /\ \A i \in Number \ {n} : s.pls[i] = s1.pls[i]
        /\ DOMAIN s.heap = DOMAIN s1.heap \ {plsc(s1).block}
    BY <1>2, <2>1, Plend1Done, Plend1OfSound DEF Done, Library, Left
  <2> HIDE DEF s
  <2>3. Same(s, lib')
    BY <1>1, <2>2, FlagSame DEF Library
  <2>4. Library(lib')
    BY <2>2, <2>3, LibrarySame
  <2> QED BY <1>0, <1>1, <2>1, <2>2, <2>3, <2>4 DEF n, Same, plsc
<1>3. CASE ~ lib.pls[n].exists
  <2>1. s = lib /\ Same(lib, lib')
    BY <1>0, <1>1, <1>3, FlagSame DEF Library
  <2>2. n # 0 /\ lib.pls[n] = None
    BY <1>0, <1>3 DEF Library, Sound, Shaped, Alive, Proper
  <2>3. Library(lib')
    BY <1>0, <2>1, LibrarySame
  <2> QED BY <1>0, <1>1, <2>1, <2>2, <2>3 DEF n, Same
<1> QED BY <1>2, <1>3

\* The inductive invariant.
LEMMA IInvInit == Init => IInv
<1> SUFFICES ASSUME Init PROVE IInv
  OBVIOUS
<1>1. NStreams \in Nat /\ drawn = 0 /\ ending = NStreams + 1
  BY StreamsAssumption DEF Init
<1> QED BY <1>1, LibraryInit DEF IInv, Ended

\* The program calls nothing while plend runs.
LEMMA CallsOnly == Call => ending > NStreams /\ ending' = ending
BY DEF Call, Plsstrm, Plmkstrm, Plinit, Plcpstrm, Draw, Plbop, Pleop, Plreplot, Plend1, Calls, Other

\* The invariant is kept by every call and by every round of plend.
LEMMA IInvStep == IInv /\ [Next]_vars => IInv'
<1> SUFFICES ASSUME IInv, [Next]_vars PROVE IInv'
  OBVIOUS
<1>0. NStreams \in Nat \ {0} /\ ending \in 1..NStreams + 1
  BY StreamsAssumption DEF IInv
<1>1. CASE Call
  BY <1>0, <1>1, CallDone, CallsOnly DEF IInv, Done, Ended
<1>2. CASE Plend
  BY <1>0, <1>2 DEF Plend, IInv, Ended, Number
<1>3. CASE PlendStep
  <2>1. Library(lib') /\ drawn' \in Nat
    BY <1>3, PlendStepDone DEF IInv
  <2>2. ending' \in 1..NStreams + 1
    BY <1>0, <1>3, PlendStepDone DEF PlendStep
  <2>3. Ended'
    BY <1>0, <1>3, PlendStepDone DEF PlendStep, IInv, Ended, Number
  <2> QED BY <2>1, <2>2, <2>3 DEF IInv
<1>4. CASE UNCHANGED vars
  BY <1>4 DEF vars, IInv, Ended
<1> QED BY <1>1, <1>2, <1>3, <1>4 DEF Next, Call

\* The streams and their buffers, whatever the program calls.
THEOREM StreamsInvariant == Spec => []IInv
BY IInvInit, IInvStep, PTL DEF Spec

\* plsc never points to a stream that was freed.
THEOREM CurrentExistsHolds == Spec => []CurrentExists
<1> IInv => CurrentExists
  BY DEF IInv, Library, Sound, CurrentExists, Live, Alive
<1> QED BY StreamsInvariant, PTL

\* No plot buffer belongs to two streams, whatever is copied, initialised and ended.
THEOREM BuffersOwnedHolds == Spec => []BuffersOwned
<1>1. IInv => BuffersOwned
  <2> SUFFICES ASSUME IInv PROVE BuffersOwned
    OBVIOUS
  <2>1. Live = Alive(lib) /\ \A i \in Live : Has(i) <=> Holds(lib, i)
    BY DEF IInv, Library, Sound, Shaped, Live, Alive, Has, Holds, None, Proper
  <2>2. Owning(lib) /\ \A i \in Live : Settled(lib, i)
    BY DEF IInv, Library, Sound, Live
  <2>3. \A i \in Live : lib.pls[i].exists = TRUE
    BY <2>1 DEF Alive
  <2> QED BY <2>1, <2>2, <2>3 DEF BuffersOwned, Owning, Settled, Holds
<1> QED BY <1>1, StreamsInvariant, PTL

\* A call changes no stream but the current one, nor its buffer; only where the
\* current one is ended stream 0 takes its place.
THEOREM StreamsApartHolds == Spec => StreamsApart
<1> DEFINE A == \A i \in Live \ {lib.ipls} :
     ending > NStreams /\ ~ (i = 0 /\ lib'.ipls = 0 /\ ~ lib'.pls[lib.ipls].exists) =>
       /\ lib'.pls[i] = lib.pls[i]
       /\ Has(i) => lib'.heap[lib.pls[i].block] = lib.heap[lib.pls[i].block]
<1>1. IInv /\ [Next]_vars => [A]_vars
  <2> SUFFICES ASSUME IInv, Next, ending > NStreams, NEW i \in Live \ {lib.ipls},
                      ~ (i = 0 /\ lib'.ipls = 0 /\ ~ lib'.pls[lib.ipls].exists)
               PROVE  /\ lib'.pls[i] = lib.pls[i]
                      /\ Has(i) => lib'.heap[lib.pls[i].block] = lib.heap[lib.pls[i].block]
    OBVIOUS
  <2>1. i \in Alive(lib) \ {lib.ipls}
    BY DEF IInv, Library, Sound, Shaped, Live, Alive, None, Proper
  <2>2. Left(lib, lib', i) => /\ lib'.pls[i] = lib.pls[i]
                              /\ Has(i) => lib'.heap[lib.pls[i].block] = lib.heap[lib.pls[i].block]
    BY <2>1 DEF Left, Has, Holds
  <2>3. CASE Call
    <3>1. Apart(lib, lib')
      BY <2>3, CallDone DEF IInv, Done
    <3> QED BY <2>1, <2>2, <3>1 DEF Apart, None
  <2>4. CASE Plend
    BY <2>4 DEF Plend
  <2>5. CASE PlendStep
    BY <2>5, StreamsAssumption DEF PlendStep
  <2> QED BY <2>3, <2>4, <2>5 DEF Next, Call
<1> QED BY <1>1, StreamsInvariant, PTL DEF Spec, StreamsApart

\* plend leaves one blank stream and no buffer of any stream.
THEOREM EndEndsAllHolds == Spec => EndEndsAll
<1> DEFINE A == ending <= NStreams /\ ending' > NStreams =>
     lib'.ipls = 0 /\ Live' = {0} /\ lib'.pls[0] = Blank /\ DOMAIN lib'.heap = Leaked
<1>1. IInv /\ [Next]_vars => [A]_vars
  <2> SUFFICES ASSUME IInv, Next, ending <= NStreams, ending' > NStreams
               PROVE  lib'.ipls = 0 /\ Live' = {0} /\ lib'.pls[0] = Blank /\ DOMAIN lib'.heap = Leaked
    OBVIOUS
  <2>0. NStreams \in Nat \ {0} /\ ending \in 1..NStreams
    BY StreamsAssumption DEF IInv
  <2>1. PlendStep
    BY <2>0, CallsOnly DEF Next, Call, Plend
  <2>2. ending = 1
    BY <2>0, <2>1 DEF PlendStep
  <2>3. /\ lib'.ipls = 0 /\ lib'.pls[0] = Blank /\ DOMAIN lib'.heap = DOMAIN lib.heap \ {lib.pls[0].block}
        /\ \A i \in Number : i # 0 => lib'.pls[i] = lib.pls[i]
    BY <2>1, <2>2, PlendStepDone
  <2>4. \A i \in Number : i # 0 => lib.pls[i] = None
    BY <2>0, <2>2 DEF IInv, Ended, Number
  <2>5. Live' = {0}
    BY <2>3, <2>4, NumberZero, BlankProper DEF Live, Proper, None
  <2>6. 0 \in Live /\ Live = {0}
    BY <2>4, NumberZero DEF Live, IInv, Library, Sound, Alive, None
  <2>7. DOMAIN lib'.heap = Leaked
    <3>1. Owned = IF lib.pls[0].block # Null THEN {lib.pls[0].block} ELSE {}
      BY <2>6, NumberZero DEF Owned, Has
    <3>2. Null \notin DOMAIN lib.heap
      BY DEF IInv, Library, Sound, Shaped
    <3> QED BY <2>3, <3>1, <3>2 DEF Leaked
  <2> QED BY <2>3, <2>5, <2>7
<1> QED BY <1>1, StreamsInvariant, PTL DEF Spec, EndEndsAll
-----------------------------------------------------------------------------
(* What plreplot would draw.  A buffer has at most one record that begins a  *)
(* page, the first.                                                          *)

Recorded(buf) == buf \in Seq(0..Junk) /\ \A k \in DOMAIN buf : k > 1 => buf[k] \in 1..Junk

Copying(st) == st.copy \notin {NoCopy, Unknown}

\* A stream and its buffer.
Shows(st, buf) ==
  /\ st \in Stream /\ Recorded(buf)
  /\ st.status = "bop" => st.page = << >>
  /\ st.write /\ st.copy = NoCopy => buf = << Bop >> \o st.page
  /\ Copying(st) => st.copy \in Seq(1..Junk) /\ buf = << Bop >> \o st.copy

Contents(s, i) == IF Holds(s, i) THEN Buffer(s, i) ELSE << >>
ShowsAt(s, i)  == s.pls[i].exists = TRUE => Shows(s.pls[i], Contents(s, i))
HeapOK(s)      == DOMAIN s.heap \subseteq Blocks /\ \A b \in DOMAIN s.heap : s.heap[b] \in Seq(0..Junk)
OutputsOK(s)   == s.open \in [Number -> Nat] /\ s.initialized \in BOOLEAN
Fine(s)        == HeapOK(s) /\ \A i \in Number : ShowsAt(s, i)

\* A step that touches neither the outputs nor the library's flag.
AsWas(s, t) == t.open = s.open /\ t.initialized = s.initialized

Cur(s) == HeapOK(s) /\ Shows(plsc(s), Contents(s, s.ipls))

\* A stream of the right type has the fields of a stream.
LEMMA StreamProper ==
  ASSUME NEW st \in Stream
  PROVE  Proper(st) /\ st.top \in Nat
<1>1. DOMAIN st = Fields
  BY DEF Stream, Fields, Blank
<1>2. st.exists \in {TRUE} /\ st.top \in Nat /\ st.level \in {0, 1}
  BY DEF Stream
<1>3. st.exists = TRUE
  BY <1>2, Zenon
<1>4. {st.top, st.level} \subseteq Nat
  BY <1>2
<1> QED BY <1>1, <1>2, <1>3, <1>4, Zenon DEF Proper

\* The part of a block that a stream uses.
LEMMA Used ==
  ASSUME NEW c \in Seq(0..Junk), NEW n \in Nat, n <= Len(c)
  PROVE  SubSeq(c, 1, n) \in Seq(0..Junk) /\ Len(SubSeq(c, 1, n)) = n
<1> DEFINE S == 0..Junk
<1>0. c \in Seq(S)
  OBVIOUS
<1> HIDE DEF S
<1>1. SubSeq(c, 1, n) \in Seq(S) /\ Len(SubSeq(c, 1, n)) = n
  BY <1>0
<1> QED BY <1>1 DEF S

\* The current stream is written to, but for its block.
LEMMA WithCur ==
  ASSUME NEW s, Sound(s), HeapOK(s), NEW st, st.block = plsc(s).block, st.top = plsc(s).top,
         Shows(st, Contents(s, s.ipls))
  PROVE  LET t == With(s, st)
         IN  Cur(t) /\ AsWas(s, t) /\ Contents(t, t.ipls) = Contents(s, s.ipls)
<1> DEFINE t == With(s, st)
<1>1. t.ipls = s.ipls /\ t.heap = s.heap /\ t.pls[t.ipls] = st /\ AsWas(s, t)
  BY DEF Sound, Shaped, With, Parts, AsWas
<1> HIDE DEF t
<1>2. Contents(t, t.ipls) = Contents(s, s.ipls)
  BY <1>1 DEF Contents, Holds, Buffer, plsc
<1>3. Cur(t)
  BY <1>1, <1>2 DEF Cur, HeapOK, plsc
<1> QED BY <1>1, <1>2, <1>3 DEF t

\* The current stream is written to, and a block of its own or a fresh one.
LEMMA StoreCur ==
  ASSUME NEW s, Sound(s), HeapOK(s), NEW b \in Blocks, NEW c \in Seq(0..Junk), NEW st,
         st.block = b, Shows(st, SubSeq(c, 1, st.top))
  PROVE  LET t == Store(With(s, st), b, c)
         IN  Cur(t) /\ AsWas(s, t) /\ Contents(t, t.ipls) = SubSeq(c, 1, st.top)
<1> DEFINE t == Store(With(s, st), b, c)
<1>1. /\ t.ipls = s.ipls /\ t.pls[t.ipls] = st /\ AsWas(s, t)
      /\ DOMAIN t.heap = DOMAIN s.heap \cup {b} /\ t.heap[b] = c
      /\ \A x \in DOMAIN s.heap : x # b => t.heap[x] = s.heap[x]
  BY DEF Sound, Shaped, With, Store, Parts, AsWas
<1> HIDE DEF t
<1>2. b # Null
  BY StreamsAssumption DEF Null
<1>3. Contents(t, t.ipls) = SubSeq(c, 1, st.top)
  BY <1>1, <1>2 DEF Contents, Holds, Buffer
<1>4. HeapOK(t)
  BY <1>1 DEF HeapOK
<1> QED BY <1>1, <1>3, <1>4 DEF Cur, plsc, t

\* What is known of the current stream, when it is in order.
LEMMA CurKnown ==
  ASSUME NEW s, Sound(s), HeapOK(s), plsc(s) \in Stream
  PROVE  /\ Proper(plsc(s)) /\ plsc(s).top \in Nat
         /\ plsc(s).block # Null =>
              /\ plsc(s).block \in Blocks /\ s.heap[plsc(s).block] \in Seq(0..Junk)
              /\ plsc(s).top <= Len(s.heap[plsc(s).block])
              /\ Contents(s, s.ipls) = SubSeq(s.heap[plsc(s).block], 1, plsc(s).top)
              /\ Contents(s, s.ipls) \in Seq(0..Junk) /\ Len(Contents(s, s.ipls)) = plsc(s).top
         /\ plsc(s).block = Null => Contents(s, s.ipls) = << >> /\ plsc(s).top = 0
<1>1. Proper(plsc(s)) /\ plsc(s).top \in Nat
  BY StreamProper
<1>2. CASE plsc(s).block # Null
  <2>1. /\ plsc(s).block \in DOMAIN s.heap /\ plsc(s).top <= Len(s.heap[plsc(s).block])
    BY <1>2, CurrentProper
  <2>2. plsc(s).block \in Blocks /\ s.heap[plsc(s).block] \in Seq(0..Junk)
    BY <2>1 DEF HeapOK
  <2>3. Contents(s, s.ipls) = SubSeq(s.heap[plsc(s).block], 1, plsc(s).top)
    BY <1>2 DEF Contents, Buffer, plsc, Holds
  <2>4. Contents(s, s.ipls) \in Seq(0..Junk) /\ Len(Contents(s, s.ipls)) = plsc(s).top
    BY <1>1, <2>1, <2>2, <2>3, Used
  <2> QED BY <1>1, <1>2, <2>1, <2>2, <2>3, <2>4
<1>3. CASE plsc(s).block = Null
  BY <1>1, <1>3 DEF Contents, Holds, plsc, Sound, Owning
<1> QED BY <1>1, <1>2, <1>3

\* wr_command of a stream with a buffer: the record comes behind the others.
LEMMA WrCur ==
  ASSUME NEW s, Sound(s), HeapOK(s), plsc(s) \in Stream, plsc(s).block # Null, NEW item \in 0..Junk,
         Shows([plsc(s) EXCEPT !.top = @ + 1], Append(Contents(s, s.ipls), item))
  PROVE  Cur(Wr(s, item)) /\ AsWas(s, Wr(s, item))
<1> DEFINE st == plsc(s)
           at == [st EXCEPT !.top = @ + 1]
           c  == Append(SubSeq(s.heap[st.block], 1, st.top), item)
<1>1. /\ st.top \in Nat /\ st.block \in Blocks
      /\ SubSeq(s.heap[st.block], 1, st.top) = Contents(s, s.ipls)
      /\ Contents(s, s.ipls) \in Seq(0..Junk) /\ Len(Contents(s, s.ipls)) = st.top
  BY CurKnown
<1>2. c = Append(Contents(s, s.ipls), item)
  BY <1>1
<1>3. c \in Seq(0..Junk) /\ Len(c) = st.top + 1
  <2> DEFINE S == 0..Junk
             d == Contents(s, s.ipls)
  <2>1. d \in Seq(S) /\ item \in S /\ Len(d) = st.top /\ c = Append(d, item)
    BY <1>1, <1>2
  <2> HIDE DEF S, d, c, st
  <2>2. c \in Seq(S) /\ Len(c) = st.top + 1
    BY <2>1, AppendProperties
  <2> QED BY <2>2 DEF S
<1>4. at.block = st.block /\ at.top = st.top + 1
  <2>1. Proper(st)
    BY CurKnown
  <2> HIDE DEF st
  <2> QED BY <2>1 DEF Proper, Fields, Blank
<1>5. Wr(s, item) = Store(With(s, at), st.block, c) /\ Shows(at, Append(Contents(s, s.ipls), item))
  BY DEF Wr
<1> HIDE DEF st, at, c
<1>6. SubSeq(c, 1, at.top) = c
  BY <1>1, <1>3, <1>4, SubSeqFull
<1>7. /\ st.block \in Blocks /\ c \in Seq(0..Junk) /\ at.block = st.block
      /\ Shows(at, SubSeq(c, 1, at.top))
  BY <1>1, <1>2, <1>3, <1>4, <1>5, <1>6
<1>8. Cur(Store(With(s, at), st.block, c)) /\ AsWas(s, Store(With(s, at), st.block, c))
  BY <1>7, StoreCur
<1> QED BY <1>5, <1>8

\* The bounds that the records of a buffer have.
LEMMA JunkBound == MaxItems \in Nat /\ Junk \in Nat /\ 1..MaxItems \subseteq 1..Junk /\ 0..Junk \subseteq Nat /\ 1..Junk \subseteq 0..Junk
BY StreamsAssumption DEF Junk

\* A buffer with a record more, and one that begins with a page.
LEMMA RecordedAppend ==
  ASSUME NEW buf, Recorded(buf), NEW item \in 1..Junk
  PROVE  Recorded(Append(buf, item))
<1> DEFINE S == 0..Junk
           new == Append(buf, item)
<1>1. buf \in Seq(S) /\ item \in S
  BY JunkBound DEF Recorded
<1>2. \A k \in DOMAIN buf : k > 1 => buf[k] \in 1..Junk
  BY DEF Recorded
<1> HIDE DEF S
<1>3. new \in Seq(S) /\ Len(new) = Len(buf) + 1 /\ new[Len(buf) + 1] = item
      /\ \A k \in 1..Len(buf) : new[k] = buf[k]
  BY <1>1, AppendProperties
<1>4. DOMAIN new = 1..Len(buf) + 1 /\ DOMAIN buf = 1..Len(buf) /\ Len(buf) \in Nat
  BY <1>1, <1>3
<1> HIDE DEF new
<1>5. ASSUME NEW k \in DOMAIN new, k > 1 PROVE new[k] \in 1..Junk
  <2>1. CASE k = Len(buf) + 1
    BY <1>3, <2>1
  <2>2. CASE k # Len(buf) + 1
    <3>1. k \in 1..Len(buf)
      BY <1>4, <2>2
    <3> QED BY <1>2, <1>3, <1>4, <1>5, <3>1
  <2> QED BY <2>1, <2>2
<1> QED BY <1>3, <1>5 DEF Recorded, S, new

\* An empty buffer, and one in which a page has begun.
LEMMA RecordedBegin == Recorded(<< >>) /\ Recorded(<< Bop >>) /\ Append(<< >>, Bop) = << Bop >> /\ NoCopy = << Bop >> \o << >>
<1>1. Recorded(<< >>)
  BY DEF Recorded
<1>2. << Bop >> \in Seq(0..Junk) /\ DOMAIN << Bop >> = 1..1
  BY JunkBound DEF Bop
<1>3. Recorded(<< Bop >>)
  BY <1>2 DEF Recorded
<1> QED BY <1>1, <1>3 DEF NoCopy

\* A stream whose buffer has one record more.
LEMMA Longer ==
  ASSUME NEW st \in Stream
  PROVE  LET at == [st EXCEPT !.top = @ + 1]
         IN  at \in Stream /\ at.status = st.status /\ at.page = st.page /\ at.copy = st.copy
<1> DEFINE n  == st.top + 1
           at == [st EXCEPT !.top = n]
<1>1. n \in Nat
  BY StreamProper
<1> HIDE DEF n
<1>2. at \in Stream /\ at.status = st.status /\ at.page = st.page /\ at.copy = st.copy
  BY <1>1 DEF Stream
<1> QED BY <1>2 DEF n

\* plP_bop: the page is blank, and so is what is recorded of it.
LEMMA PlPBopCur ==
  ASSUME NEW s, Sound(s), Records(s), HeapOK(s), plsc(s) \in Stream,
         (plsc(s).write /\ plsc(s).status # "bop") \/ Shows(plsc(s), Contents(s, s.ipls))
  PROVE  Cur(PlPBop(s)) /\ AsWas(s, PlPBop(s))
<1> DEFINE st  == plsc(s)
           at  == [st EXCEPT !.status = "bop", !.page = << >>]
           at1 == [at EXCEPT !.top = 0, !.copy = NoCopy]
           u   == With(s, at1)
<1>1. Proper(st) /\ st.top \in Nat
  BY CurKnown
<1>2. PlPBop(s) = IF st.status = "bop" THEN s ELSE IF st.write THEN Wr(u, Bop) ELSE With(s, at)
  BY DEF PlPBop
<1>3. CASE st.status = "bop"
  BY <1>2, <1>3 DEF Cur, AsWas
<1>4. CASE st.status # "bop" /\ st.write
  <2>1. /\ at1 \in Stream /\ at1.block = st.block /\ at1.top = 0 /\ at1.status = "bop"
        /\ at1.page = << >> /\ at1.copy = NoCopy
    <3>1. << >> \in Seq(1..Junk) /\ NoCopy \in Seq(0..Junk)
      BY RecordedBegin DEF Recorded, NoCopy
    <3>2. st \in Stream
      OBVIOUS
    <3> HIDE DEF st
    <3> QED BY <3>1, <3>2 DEF Stream
  <2> HIDE DEF at1
  <2>2. Proper(at1)
    BY <2>1, StreamProper
  <2>3. Only(s, u) /\ plsc(u) = at1
    BY <1>1, <2>1, <2>2, WithOnly
  <2>4. HeapOK(u) /\ AsWas(s, u)
    BY DEF With, HeapOK, AsWas, Sound, Shaped, Parts
  <2> HIDE DEF u
  <2>5. Contents(u, u.ipls) = << >> /\ Sound(u) /\ st.block # Null
    <3>1. Sound(u) /\ plsc(u).block # Null
      BY <1>4, <2>1, <2>3 DEF Only, Records
    <3>2. Contents(u, u.ipls) \in Seq(0..Junk) /\ Len(Contents(u, u.ipls)) = 0
      BY <2>1, <2>3, <2>4, <3>1, CurKnown
    <3> QED BY <2>1, <2>3, <3>1, <3>2, EmptySeq
  <2> DEFINE at2 == [at1 EXCEPT !.top = @ + 1]
  <2>6. /\ at2 \in Stream /\ at2.status = "bop" /\ at2.page = << >> /\ at2.copy = NoCopy
    BY <2>1, Longer
  <2> HIDE DEF at2
  <2>7. Shows(at2, << Bop >>)
    BY <2>6, RecordedBegin DEF Shows, Copying, NoCopy
  <2>8. Bop \in 0..Junk
    BY JunkBound DEF Bop
  <2>9. Shows([plsc(u) EXCEPT !.top = @ + 1], Append(Contents(u, u.ipls), Bop))
    BY <2>3, <2>5, <2>7, RecordedBegin DEF at2
  <2>10. Cur(Wr(u, Bop)) /\ AsWas(u, Wr(u, Bop))
    BY <2>1, <2>3, <2>4, <2>5, <2>8, <2>9, WrCur
  <2> QED BY <1>2, <1>4, <2>4, <2>10 DEF AsWas
<1>5. CASE st.status # "bop" /\ ~ st.write
  <2>1. Shows(st, Contents(s, s.ipls))
    BY <1>5
  <2>2. /\ at \in Stream /\ at.block = st.block /\ at.top = st.top /\ at.status = "bop"
        /\ at.page = << >> /\ at.copy = st.copy /\ at.write = st.write
    <3>1. << >> \in Seq(1..Junk)
      OBVIOUS
    <3>2. st \in Stream
      OBVIOUS
    <3> HIDE DEF st
    <3> QED BY <3>1, <3>2 DEF Stream
  <2> HIDE DEF at
  <2>3. Shows(at, Contents(s, s.ipls))
    BY <1>5, <2>1, <2>2 DEF Shows, Copying
  <2> QED BY <1>2, <1>5, <2>2, <2>3, WithCur
<1> QED BY <1>3, <1>4, <1>5

\* plP_line: a drawing comes behind the others, on the page and in the buffer.
LEMMA PlPLineCur ==
  ASSUME NEW s, Sound(s), Records(s), Cur(s), NEW item \in 1..Junk
  PROVE  Cur(PlPLine(s, item)) /\ AsWas(s, PlPLine(s, item))
<1> DEFINE st == plsc(s)
           at == [st EXCEPT !.status = "drawing", !.page = Append(@, item),
                            !.copy = IF st.write /\ @ # NoCopy THEN Unknown ELSE @]
           u  == With(s, at)
           old == Contents(s, s.ipls)
<1>0. HeapOK(s) /\ st \in Stream /\ Shows(st, old)
  BY DEF Cur, Shows
<1>1. Proper(st) /\ st.top \in Nat
  BY <1>0, CurKnown
<1>2. PlPLine(s, item) = IF st.write THEN Wr(u, item) ELSE u
  BY DEF PlPLine
<1>3. st.page \in Seq(1..Junk) /\ Append(st.page, item) \in Seq(1..Junk) /\ Unknown \in Seq(0..Junk)
  <2>1. st.page \in Seq(1..Junk)
    BY <1>0 DEF Stream
  <2>2. Unknown \in Seq(0..Junk)
    BY JunkBound DEF Unknown, Bop
  <2> DEFINE S == 1..Junk
  <2>3. st.page \in Seq(S) /\ item \in S
    BY <2>1
  <2> HIDE DEF S
  <2>4. Append(st.page, item) \in Seq(S)
    BY <2>3, AppendProperties
  <2> QED BY <2>1, <2>2, <2>4 DEF S
<1>4. /\ at \in Stream /\ at.block = st.block /\ at.top = st.top /\ at.status = "drawing"
      /\ at.page = Append(st.page, item) /\ at.write = st.write
      /\ at.copy = IF st.write /\ st.copy # NoCopy THEN Unknown ELSE st.copy
  <2> HIDE DEF st
  <2> QED BY <1>0, <1>3 DEF Stream
<1> HIDE DEF at, old
<1>5. Only(s, u) /\ plsc(u) = at /\ Sound(u)
  <2>1. Proper(at) /\ at.top <= plsc(s).top
    BY <1>1, <1>4, StreamProper
  <2> QED BY <1>4, <2>1, WithOnly DEF Only
<1>6. CASE ~ st.write
  <2>1. Shows(at, old)
    BY <1>0, <1>4, <1>6 DEF Shows, Copying
  <2> QED BY <1>0, <1>2, <1>4, <1>6, <2>1, WithCur DEF old
<1>7. CASE st.write
  <2>1. HeapOK(u) /\ AsWas(s, u) /\ u.heap = s.heap /\ u.ipls = s.ipls
    BY <1>0 DEF With, HeapOK, AsWas, Sound, Shaped, Parts
  <2> HIDE DEF u
  <2>2. plsc(u).block # Null
    BY <1>4, <1>5, <1>7 DEF Records
  <2>3. Contents(u, u.ipls) = old
    <3>1. Contents(u, u.ipls) = SubSeq(u.heap[plsc(u).block], 1, plsc(u).top)
      BY <1>4, <1>5, <2>1, <2>2, CurKnown
    <3>2. old = SubSeq(s.heap[plsc(s).block], 1, plsc(s).top)
      BY <1>0, <1>4, <1>5, <2>2, CurKnown DEF old
    <3> QED BY <1>4, <1>5, <2>1, <3>1, <3>2
  <2> DEFINE at2 == [at EXCEPT !.top = @ + 1]
  <2>4. /\ at2 \in Stream /\ at2.status = "drawing" /\ at2.page = at.page /\ at2.copy = at.copy
    BY <1>4, Longer
  <2> HIDE DEF at2
  <2>5. Recorded(Append(old, item))
    BY <1>0, RecordedAppend DEF Shows
  <2>6. at2.copy = NoCopy => Append(old, item) = << Bop >> \o at2.page
    <3> SUFFICES ASSUME at2.copy = NoCopy PROVE Append(old, item) = << Bop >> \o at2.page
      OBVIOUS
    <3>1. st.copy = NoCopy
      BY <1>4, <1>7, <2>4 DEF NoCopy, Unknown
    <3>2. old = << Bop >> \o st.page
      BY <1>0, <1>7, <3>1 DEF Shows
    <3>3. st.page \in Seq(Nat) /\ << Bop >> \in Seq(Nat) /\ item \in Nat
      BY <1>3, JunkBound DEF Bop
    <3> HIDE DEF st
    <3>4. Append(<< Bop >> \o st.page, item) = << Bop >> \o Append(st.page, item)
      BY <3>3
    <3> QED BY <1>4, <2>4, <3>2, <3>4
  <2>7. ~ Copying(at2)
    BY <1>4, <1>7, <2>4 DEF Copying
  <2>8. Shows(at2, Append(old, item)) /\ item \in 0..Junk
    BY <2>4, <2>5, <2>6, <2>7, JunkBound DEF Shows
  <2>9. Cur(Wr(u, item)) /\ AsWas(u, Wr(u, item))
    <3>1. Shows([plsc(u) EXCEPT !.top = @ + 1], Append(Contents(u, u.ipls), item))
      BY <1>5, <2>3, <2>8 DEF at2
    <3> QED BY <1>4, <1>5, <2>1, <2>2, <2>8, <3>1, WrCur
  <2> QED BY <1>2, <1>7, <2>1, <2>9 DEF AsWas
<1> QED BY <1>6, <1>7

\* A sequence whose elements are all in a set is one over that set.
LEMMA Narrowed ==
  ASSUME NEW S, NEW T, NEW q \in Seq(S), \A k \in 1..Len(q) : q[k] \in T
  PROVE  q \in Seq(T)
<1>1. Len(q) \in Nat /\ q \in [1..Len(q) -> S]
  BY LenProperties
<1>2. q \in [1..Len(q) -> T]
  BY <1>1
<1>3. \E n \in Nat : q \in [1..n -> T]
  BY <1>1, <1>2, Zenon
<1> QED BY <1>3, SeqDef, Zenon

\* plRemakePlot: the device shows what the buffer holds of a page.
LEMMA PlRemakePlotCur ==
  ASSUME NEW s, Sound(s), Cur(s)
  PROVE  Cur(PlRemakePlot(s)) /\ AsWas(s, PlRemakePlot(s))
<1> DEFINE st     == plsc(s)
           items  == Contents(s, s.ipls)
           begins == items # << >> /\ items[1] = Bop
           lines  == IF begins THEN Tail(items) ELSE items
           clears == begins /\ st.status # "bop"
           page   == IF clears THEN lines ELSE st.page \o lines
           status == IF lines # << >> THEN "drawing" ELSE IF clears THEN "bop" ELSE st.status
           at     == [st EXCEPT !.page = page, !.status = status]
<1>0. HeapOK(s) /\ st \in Stream /\ Shows(st, items) /\ Recorded(items)
  BY DEF Cur, Shows
<1>1. Proper(st) /\ st.top \in Nat
  BY <1>0, CurKnown
<1>2. PlRemakePlot(s) = With(s, at)
  <2>1. CASE Holds(s, s.ipls)
    BY <2>1 DEF PlRemakePlot, Contents
  <2>2. CASE ~ Holds(s, s.ipls)
    <3>1. st.top = 0
      BY <1>0, <2>2, CurKnown DEF Holds, plsc
    <3>2. Buffer(s, s.ipls) = << >>
      BY <3>1 DEF Buffer, plsc
    <3> QED BY <2>2, <3>2 DEF PlRemakePlot, Contents
  <2> QED BY <2>1, <2>2
<1>3. lines \in Seq(1..Junk)
  <2>1. items \in Seq(0..Junk) /\ Len(items) \in Nat /\ DOMAIN items = 1..Len(items)
        /\ \A k \in 1..Len(items) : items[k] \in 0..Junk /\ (k > 1 => items[k] \in 1..Junk)
    <3>1. items \in Seq(0..Junk) /\ \A k \in DOMAIN items : k > 1 => items[k] \in 1..Junk
      BY <1>0 DEF Recorded
    <3> DEFINE S == 0..Junk
    <3>2. items \in Seq(S)
      BY <3>1
    <3> HIDE DEF items, S
    <3>3. Len(items) \in Nat /\ DOMAIN items = 1..Len(items) /\ \A k \in 1..Len(items) : items[k] \in S
      BY <3>2, LenProperties, ElementOfSeq
    <3> QED BY <3>1, <3>3 DEF S
  <2> HIDE DEF items
  <2>2. CASE begins
    <3>1. Len(items) > 0 /\ Tail(items) \in Seq(0..Junk) /\ Len(Tail(items)) = Len(items) - 1
          /\ \A k \in 1..Len(Tail(items)) : Tail(items)[k] = items[k + 1]
      BY <2>1, <2>2, EmptySeq
    <3>2. \A k \in 1..Len(Tail(items)) : Tail(items)[k] \in 1..Junk
      BY <2>1, <3>1
    <3>3. Tail(items) \in Seq(1..Junk)
      BY <3>1, <3>2, Narrowed
    <3> QED BY <2>2, <3>3
  <2>3. CASE ~ begins
    <3>1. CASE items = << >>
      BY <3>1, <2>3
    <3>2. CASE items # << >>
      <4>1. Len(items) > 0 /\ items[1] # 0
        BY <2>1, <2>3, <3>2, EmptySeq DEF Bop
      <4>2. \A k \in 1..Len(items) : items[k] \in 1..Junk
        BY <2>1, <4>1, JunkBound
      <4>3. items \in Seq(1..Junk)
        BY <2>1, <4>2, Narrowed
      <4> QED BY <2>3, <4>3
    <3> QED BY <3>1, <3>2
  <2> QED BY <2>2, <2>3
<1> HIDE DEF lines
<1>4. page \in Seq(1..Junk) /\ status \in {"bop", "drawing", "eop"} /\ (st.status = "bop" => page = lines)
  <2>1. st.page \in Seq(1..Junk) /\ st.status \in {"bop", "drawing", "eop"}
    BY <1>0 DEF Stream
  <2>2. st.page \o lines \in Seq(1..Junk)
    <3> DEFINE S == 1..Junk
    <3>1. st.page \in Seq(S) /\ lines \in Seq(S)
      BY <1>3, <2>1
    <3> HIDE DEF S, st
    <3>2. st.page \o lines \in Seq(S)
      BY <3>1, ConcatProperties
    <3> QED BY <3>2 DEF S
  <2>3. st.status = "bop" => st.page \o lines = lines
    <3>1. st.status = "bop" => st.page = << >>
      BY <1>0 DEF Shows
    <3>2. << >> \o lines = lines
      BY <1>3, ConcatEmptySeq
    <3> QED BY <3>1, <3>2
  <2> QED BY <1>3, <2>1, <2>2, <2>3
<1>5. /\ at \in Stream /\ at.block = st.block /\ at.top = st.top /\ at.status = status
      /\ at.page = page /\ at.copy = st.copy /\ at.write = st.write
  <2> HIDE DEF st, page, status
  <2> QED BY <1>0, <1>4 DEF Stream
<1>6. at.status = "bop" => at.page = << >>
  <2>1. lines = << >> /\ (clears => page = << >>) /\ (~ clears => st.status = "bop") => page = << >>
    BY <1>4
  <2> QED BY <1>5, <2>1
<1>7. ASSUME NEW p \in Seq(1..Junk), items = << Bop >> \o p
      PROVE  lines = p /\ begins
  <2>1. p \in Seq(Nat) /\ << Bop >> \in Seq(Nat) /\ Len(<< Bop >>) = 1
    BY JunkBound DEF Bop
  <2>2. items # << >> /\ items[1] = Bop /\ Tail(items) = p
    <3> HIDE DEF items
    <3> QED BY <1>7, <2>1
  <2> QED BY <2>2 DEF lines
<1>8. at.write /\ at.copy = NoCopy => items = << Bop >> \o at.page
  <2> SUFFICES ASSUME at.write, at.copy = NoCopy PROVE items = << Bop >> \o at.page
    OBVIOUS
  <2>1. items = << Bop >> \o st.page /\ st.page \in Seq(1..Junk)
    BY <1>0, <1>5 DEF Shows, Stream
  <2>2. lines = st.page /\ begins
    BY <1>7, <2>1
  <2>3. page = st.page
    BY <1>4, <2>2
  <2> QED BY <1>5, <2>1, <2>3
<1>9. Shows(at, items)
  BY <1>0, <1>5, <1>6, <1>8 DEF Shows, Copying
<1> HIDE DEF at, items
<1> QED BY <1>0, <1>2, <1>5, <1>9, WithCur DEF items

\* plstrm_init, pleop and what plinit sets at its end change no page.
LEMMA FlagsCur ==
  ASSUME NEW s, Sound(s), Cur(s), NEW at \in Stream, at.status # "bop" \/ at.status = plsc(s).status,
         \A f \in {"block", "top", "page", "write", "copy"} : at[f] = plsc(s)[f]
  PROVE  Cur(With(s, at)) /\ AsWas(s, With(s, at))
<1>1. Shows(at, Contents(s, s.ipls)) /\ at.block = plsc(s).block /\ at.top = plsc(s).top
  BY DEF Cur, Shows, Copying
<1> QED BY <1>1, WithCur DEF Cur

\* plP_init: one more output, and a buffer that is empty if the stream records.
LEMMA PlPInitCur ==
  ASSUME NEW s, Sound(s), Cur(s), s.open \in [Number -> Nat], NEW device \in Devices,
         Room(s) \/ plsc(s).block # Null
  PROVE  LET p == PlPInit(s, device)
         IN  /\ HeapOK(p) /\ plsc(p) \in Stream
             /\ (plsc(p).write /\ plsc(p).status # "bop") \/ Shows(plsc(p), Contents(p, p.ipls))
             /\ p.initialized = s.initialized /\ p.open = [s.open EXCEPT ![s.ipls] = @ + 1]
<1> DEFINE st  == plsc(s)
           d   == IF st.device = "none" THEN device ELSE st.device
           at  == [st EXCEPT !.device = d, !.status = "eop", !.psdoc = (d = "psttf"), !.write = (d = "screen")]
           at0 == [at EXCEPT !.top = 0]
           at1 == [at EXCEPT !.block = Fresh(s), !.top = 0]
           s1  == [s EXCEPT !.open[s.ipls] = @ + 1]
           p   == PlPInit(s, device)
<1>0. HeapOK(s) /\ st \in Stream /\ Shows(st, Contents(s, s.ipls)) /\ s.ipls \in Number
  BY DEF Cur, Shows, Sound, Shaped
<1>1. p = IF ~ at.write THEN With(s1, at)
          ELSE IF at.block # Null THEN With(s1, at0)
          ELSE Store(With(s1, at1), Fresh(s), << >>)
  BY DEF PlPInit
<1>2. /\ Only(s, s1) /\ Sound(s1) /\ plsc(s1) = st /\ s1.heap = s.heap /\ HeapOK(s1)
      /\ s1.ipls = s.ipls /\ Contents(s1, s1.ipls) = Contents(s, s.ipls)
      /\ s1.initialized = s.initialized /\ s1.open = [s.open EXCEPT ![s.ipls] = @ + 1]
  <2>1. Only(s, s1) /\ plsc(s1) = st /\ s1.heap = s.heap /\ s1.pls = s.pls /\ s1.ipls = s.ipls
    BY FlagSame, SameOnly DEF Same
  <2>2. s1.initialized = s.initialized /\ s1.open = [s.open EXCEPT ![s.ipls] = @ + 1]
    BY DEF Sound, Shaped, Parts
  <2> HIDE DEF s1
  <2> QED BY <1>0, <2>1, <2>2 DEF Only, HeapOK, Contents, Holds, Buffer
<1>3. d \in Devices \cup {"none"}
  BY <1>0 DEF Stream
<1>4. /\ at \in Stream /\ at.block = st.block /\ at.top = st.top /\ at.status = "eop"
      /\ at.copy = st.copy /\ at.page = st.page
  <2> HIDE DEF st, d
  <2> QED BY <1>0, <1>3 DEF Stream
<1> HIDE DEF at
<1>5. /\ at0 \in Stream /\ at0.block = at.block /\ at0.top = 0 /\ at0.status = "eop" /\ at0.write = at.write
  BY <1>4 DEF Stream
<1> HIDE DEF s1, d
<1>6. CASE ~ at.write
  <2>1. Shows(at, Contents(s1, s1.ipls))
    BY <1>0, <1>2, <1>4, <1>6 DEF Shows, Copying
  <2>2. Cur(With(s1, at)) /\ AsWas(s1, With(s1, at))
    BY <1>2, <1>4, <2>1, WithCur
  <2> HIDE DEF p
  <2>3. p = With(s1, at)
    BY <1>1, <1>6
  <2> QED BY <1>2, <2>2, <2>3 DEF Cur, AsWas, Shows, p
<1>7. CASE at.write /\ at.block # Null
  <2>1. p = With(s1, at0)
    BY <1>1, <1>7
  <2> HIDE DEF p, at0
  <2>2. HeapOK(p) /\ plsc(p) = at0 /\ AsWas(s1, p)
    BY <1>0, <1>2, <2>1 DEF With, HeapOK, AsWas, plsc, Sound, Shaped, Parts
  <2> QED BY <1>2, <1>5, <1>7, <2>2 DEF AsWas, p
<1>8. CASE at.write /\ at.block = Null
  <2>1. p = Store(With(s1, at1), Fresh(s), << >>)
    BY <1>1, <1>8
  <2>2. Fresh(s) \in Blocks /\ Fresh(s) \notin DOMAIN s.heap
    BY <1>4, <1>8, FreshBlock
  <2>3. at1 \in Stream /\ at1.status = "eop" /\ at1.write = at.write
    BY <1>4, <2>2 DEF Stream
  <2> HIDE DEF p, at1
  <2>4. << >> \in Seq(0..Junk)
    BY RecordedBegin DEF Recorded
  <2>5. HeapOK(p) /\ plsc(p) = at1 /\ AsWas(s1, p)
    <3>1. /\ p.ipls = s1.ipls /\ p.pls[s1.ipls] = at1 /\ AsWas(s1, p)
          /\ DOMAIN p.heap = DOMAIN s1.heap \cup {Fresh(s)} /\ p.heap[Fresh(s)] = << >>
          /\ \A x \in DOMAIN s1.heap : x # Fresh(s) => p.heap[x] = s1.heap[x]
      BY <1>2, <2>1 DEF Sound, Shaped, With, Store, Parts, AsWas
    <3> QED BY <1>2, <2>2, <2>4, <3>1 DEF HeapOK, plsc
  <2> QED BY <1>2, <1>8, <2>3, <2>5 DEF AsWas, p
<1> QED BY <1>6, <1>7, <1>8

\* plinit of a stream without a driver: its output is open.
LEMMA PlinitTailCur ==
  ASSUME NEW s, Sound(s), Cur(s), s.open \in [Number -> Nat], NEW device \in Devices,
         Room(s) \/ plsc(s).block # Null
  PROVE  LET s2 == PlPBop(PlPInit(PlstrmInit([s EXCEPT !.initialized = TRUE]), device))
             t  == With(s2, [plsc(s2) EXCEPT !.level = 1])
         IN  /\ Only(s, t) /\ Cur(t) /\ t.initialized = TRUE
             /\ t.open = [s.open EXCEPT ![s.ipls] = @ + 1]
<1> DEFINE s0 == [s EXCEPT !.initialized = TRUE]
           s1 == PlstrmInit(s0)
           p  == PlPInit(s1, device)
           s2 == PlPBop(p)
           at == [plsc(s2) EXCEPT !.level = 1]
           t  == With(s2, at)
<1>0. Only(s, t)
  BY PlinitTail
<1>1. /\ Sound(s0) /\ Cur(s0) /\ s0.heap = s.heap /\ plsc(s0) = plsc(s) /\ s0.initialized = TRUE
      /\ s0.open = s.open /\ s0.ipls = s.ipls
  <2>1. Only(s, s0) /\ Same(s, s0) /\ plsc(s0) = plsc(s)
    BY FlagSame, SameOnly
  <2>2. s0.initialized = TRUE /\ s0.open = s.open
    BY DEF Sound, Shaped, Parts
  <2> HIDE DEF s0
  <2> QED BY <2>1, <2>2 DEF Only, Same, Cur, HeapOK, Contents, Holds, Buffer
<1> HIDE DEF s0
<1>2. /\ Sound(s1) /\ Cur(s1) /\ s1.heap = s.heap /\ plsc(s1).block = plsc(s).block
      /\ s1.initialized = TRUE /\ s1.open = s.open /\ s1.ipls = s.ipls
  <2> DEFINE a == [plsc(s0) EXCEPT !.initialized = TRUE, !.psdoc = FALSE]
  <2>1. a \in Stream /\ a.status = plsc(s0).status
        /\ \A f \in {"block", "top", "page", "write", "copy"} : a[f] = plsc(s0)[f]
    BY <1>1 DEF Cur, Shows, Stream
  <2>2. s1 = With(s0, a)
    BY DEF PlstrmInit
  <2> HIDE DEF a
  <2>3. Cur(s1) /\ AsWas(s0, s1)
    BY <1>1, <2>1, <2>2, FlagsCur
  <2>4. Within(s0, s1)
    BY <1>1, PlstrmInitWithin
  <2>5. s1.heap = s0.heap
    BY <1>1, <2>2 DEF With, Sound, Shaped, Parts
  <2> HIDE DEF s1
  <2> QED BY <1>1, <2>3, <2>4, <2>5 DEF Within, Only, Keeps, AsWas
<1> HIDE DEF s1
<1>3. Room(s1) \/ plsc(s1).block # Null
  BY <1>2 DEF Room
<1>4. /\ HeapOK(p) /\ plsc(p) \in Stream
      /\ (plsc(p).write /\ plsc(p).status # "bop") \/ Shows(plsc(p), Contents(p, p.ipls))
      /\ p.initialized = TRUE /\ p.open = [s.open EXCEPT ![s.ipls] = @ + 1]
  BY <1>2, <1>3, PlPInitCur
<1>5. Sound(p) /\ Records(p)
  BY <1>2, <1>3, PlPInitOnly DEF Only
<1> HIDE DEF p
<1>6. Cur(s2) /\ AsWas(p, s2) /\ Sound(s2)
  BY <1>4, <1>5, PlPBopCur, PlPBopWithin DEF Within, Only
<1> HIDE DEF s2
<1>7. at \in Stream /\ at.status = plsc(s2).status
      /\ \A f \in {"block", "top", "page", "write", "copy"} : at[f] = plsc(s2)[f]
  BY <1>6 DEF Cur, Shows, Stream
<1> HIDE DEF at
<1>8. Cur(t) /\ AsWas(s2, t)
  BY <1>6, <1>7, FlagsCur
<1> QED BY <1>0, <1>4, <1>6, <1>8 DEF AsWas, t, at, s2, p, s1, s0
-----------------------------------------------------------------------------
(* All streams, between two calls.                                          *)

\* A stream with a driver has an output.
OpenOK(s) ==
  /\ s.open \in [Number -> Nat]
  /\ \A i \in Number : s.pls[i].exists = TRUE /\ s.pls[i].level > 0 => s.open[i] > 0

Good(s) == Fine(s) /\ OpenOK(s) /\ s.initialized \in BOOLEAN

\* The current stream is one of them.
LEMMA GoodCur == ASSUME NEW s, Sound(s), Good(s) PROVE Cur(s) /\ s.open \in [Number -> Nat]
BY DEF Sound, Shaped, Good, Fine, OpenOK, ShowsAt, Cur, Alive, plsc

\* A stream that is left alone shows what it did.
LEMMA LeftShows ==
  ASSUME NEW s, NEW t, NEW i \in Number, Left(s, t, i), ShowsAt(s, i)
  PROVE  ShowsAt(t, i)
BY DEF Left, ShowsAt, Contents, Holds, Buffer, Alive

\* A step that works on the current stream only leaves the others in order.
LEMMA OnlyGood ==
  ASSUME NEW s, NEW t, Sound(s), Good(s), Only(s, t), Cur(t), t.initialized \in BOOLEAN,
         NEW n \in Nat, t.open = [s.open EXCEPT ![s.ipls] = n], plsc(t).level > 0 => n > 0
  PROVE  Good(t)
<1>1. s.ipls \in Number /\ t.ipls = s.ipls /\ t.open \in [Number -> Nat]
  BY DEF Sound, Shaped, Only, Good, OpenOK
<1>2. ShowsAt(t, s.ipls)
  BY <1>1 DEF Cur, ShowsAt, plsc
<1>3. \A i \in Number : ShowsAt(t, i)
  BY <1>2, LeftShows DEF Only, Good, Fine
<1>4. \A i \in Number : t.pls[i].exists = TRUE /\ t.pls[i].level > 0 => t.open[i] > 0
  BY <1>1 DEF Only, Left, Good, OpenOK, plsc
<1> QED BY <1>1, <1>3, <1>4 DEF Good, Fine, OpenOK, Cur

\* The same of one that touches no output.
LEMMA WithinGood ==
  ASSUME NEW s, NEW t, Sound(s), Good(s), Within(s, t), Cur(t), AsWas(s, t)
  PROVE  Good(t)
<1> DEFINE n == s.open[s.ipls]
<1>1. s.ipls \in Number /\ n \in Nat /\ t.open = [s.open EXCEPT ![s.ipls] = n]
  BY DEF Sound, Shaped, Good, OpenOK, AsWas
<1>2. plsc(t).level > 0 => n > 0
  BY <1>1 DEF Within, Keeps, Sound, Alive, Good, OpenOK, plsc
<1>3. t.initialized \in BOOLEAN
  BY DEF AsWas, Good
<1> HIDE DEF n
<1> QED BY <1>1, <1>2, <1>3, OnlyGood DEF Within

\* A stream that has just been created.
LEMMA BlankShows == Shows(Blank, << >>)
<1>1. << >> \in Seq(1..Junk) /\ NoCopy \in Seq(0..Junk)
  BY RecordedBegin DEF Recorded, NoCopy
<1>2. Blank \in Stream
  BY <1>1 DEF Blank, Stream
<1> QED BY <1>2, RecordedBegin DEF Shows, Blank, Copying

\* plsstrm.
LEMMA PlsstrmToGood ==
  ASSUME NEW s, Sound(s), Good(s), NEW i \in Number
  PROVE  Good(PlsstrmTo(s, i)) /\ AsWas(s, PlsstrmTo(s, i))
<1> DEFINE t == PlsstrmTo(s, i)
<1>1. /\ t.heap = s.heap
      /\ \A j \in Number : t.pls[j] = s.pls[j] \/ (j = i /\ s.pls[j] = None /\ t.pls[j] = Blank)
  BY PlsstrmToSound
<1>2. AsWas(s, t)
  BY DEF PlsstrmTo, AsWas, Sound, Shaped, Parts
<1> HIDE DEF t
<1>3. ASSUME NEW j \in Number PROVE ShowsAt(t, j)
  <2>1. CASE t.pls[j] = s.pls[j]
    BY <1>1, <2>1 DEF Good, Fine, ShowsAt, Contents, Holds, Buffer
  <2>2. CASE t.pls[j] = Blank
    BY <2>2, BlankShows, BlankProper DEF ShowsAt, Contents, Holds
  <2> QED BY <1>1, <2>1, <2>2
<1>4. HeapOK(t)
  BY <1>1 DEF Good, Fine, HeapOK
<1>5. OpenOK(t)
  BY <1>1, <1>2, BlankProper DEF Good, OpenOK, AsWas
<1> QED BY <1>2, <1>3, <1>4, <1>5 DEF Good, Fine, AsWas, t

\* plend1: the output of the stream is closed, and its buffer is freed.
LEMMA Plend1OfGood ==
  ASSUME NEW s, Sound(s), Good(s)
  PROVE  Good(Plend1Of(s))
<1> DEFINE st == plsc(s)
           s1 == IF st.level > 0 THEN [s EXCEPT !.open[s.ipls] = @ - 1] ELSE s
           s2 == Release(s1, st.block)
           n  == IF s.ipls > 0 THEN None ELSE Blank
           u  == With(s2, n)
           t  == Plend1Of(s)
<1>0. /\ s.ipls \in Number /\ s.pls[s.ipls].exists = TRUE /\ s.pls[0].exists = TRUE
      /\ s.open \in [Number -> Nat] /\ s.initialized \in BOOLEAN
  BY DEF Sound, Shaped, Alive, Good, OpenOK
<1>1. /\ t.pls[s.ipls] = (IF s.ipls = 0 THEN Blank ELSE None)
      /\ \A i \in Number \ {s.ipls} : Left(s, t, i)
  BY Plend1OfSound
<1>2. t = IF s.ipls > 0 THEN PlsstrmTo(u, 0) ELSE u
  BY DEF Plend1Of
<1>3. /\ s1.heap = s.heap /\ s1.ipls = s.ipls /\ s1.initialized = s.initialized /\ DOMAIN s1 = Parts
      /\ s1.open \in [Number -> Nat] /\ \A i \in Number \ {s.ipls} : s1.open[i] = s.open[i]
  <2>1. st.level > 0 => s.open[s.ipls] > 0 /\ s.open[s.ipls] \in Nat
    BY <1>0 DEF Good, OpenOK, plsc
  <2>2. CASE st.level > 0
    <3>1. s.open[s.ipls] - 1 \in Nat
      BY <2>1, <2>2
    <3> HIDE DEF st
    <3> QED BY <1>0, <2>2, <3>1 DEF Sound, Shaped, Parts
  <2>3. CASE ~ (st.level > 0)
    BY <1>0, <2>3 DEF Sound, Shaped
  <2> QED BY <2>2, <2>3
<1> HIDE DEF s1
<1>4. /\ u.open = s1.open /\ u.initialized = s.initialized /\ DOMAIN u = Parts
      /\ DOMAIN u.heap = DOMAIN s.heap \ {st.block} /\ \A b \in DOMAIN u.heap : u.heap[b] = s.heap[b]
  <2>1. /\ s2.open = s1.open /\ s2.initialized = s.initialized /\ DOMAIN s2 = Parts
        /\ DOMAIN s2.heap = DOMAIN s.heap \ {st.block} /\ \A b \in DOMAIN s2.heap : s2.heap[b] = s.heap[b]
    BY <1>3 DEF Release, Parts
  <2> HIDE DEF s2
  <2> QED BY <2>1 DEF With, Parts
<1> HIDE DEF u
<1>5. t.open = u.open /\ t.initialized = u.initialized /\ t.heap = u.heap
  <2>1. CASE s.ipls > 0
    BY <1>2, <1>4, <2>1 DEF PlsstrmTo, Parts
  <2>2. CASE ~ (s.ipls > 0)
    BY <1>2, <2>2
  <2> QED BY <2>1, <2>2
<1> HIDE DEF t
<1>6. HeapOK(t)
  BY <1>4, <1>5 DEF HeapOK, Good, Fine
<1>7. \A i \in Number : ShowsAt(t, i)
  <2>1. ShowsAt(t, s.ipls)
    BY <1>1, BlankShows, BlankProper DEF ShowsAt, Contents, Holds, None
  <2> QED BY <1>1, <2>1, LeftShows DEF Good, Fine
<1>8. OpenOK(t)
  <2>1. ~ (t.pls[s.ipls].exists = TRUE /\ t.pls[s.ipls].level > 0)
    BY <1>1, BlankProper DEF None
  <2>2. \A i \in Number \ {s.ipls} : t.pls[i] = s.pls[i]
    BY <1>1 DEF Left
  <2> QED BY <1>0, <1>3, <1>4, <1>5, <2>1, <2>2 DEF Good, OpenOK
<1> QED BY <1>0, <1>4, <1>5, <1>6, <1>7, <1>8 DEF Good, Fine, t

\* plinit.
LEMMA PlinitGood ==
  ASSUME NEW s, Library(s), Good(s), Room(s), NEW device \in Devices
  PROVE  Good(PlinitOf(s, device))
<1> DEFINE e == IF plsc(s).level # 0 THEN Plend1Of(s) ELSE s
           t == PlinitOf(s, device)
<1>1. Sound(e) /\ Room(e) /\ Good(e)
  BY Plend1OfSound, Plend1OfGood DEF Library, Room
<1>2. Cur(e) /\ e.open \in [Number -> Nat] /\ e.ipls \in Number
  BY <1>1, GoodCur DEF Sound, Shaped
<1>3. /\ Only(e, t) /\ Cur(t) /\ t.initialized = TRUE
      /\ t.open = [e.open EXCEPT ![e.ipls] = @ + 1]
  BY <1>1, <1>2, PlinitTailCur DEF PlinitOf
<1> HIDE DEF e, t
<1>4. t.open = [e.open EXCEPT ![e.ipls] = e.open[e.ipls] + 1] /\ e.open[e.ipls] + 1 \in Nat
      /\ e.open[e.ipls] + 1 > 0
  BY <1>2, <1>3
<1>5. Good(t)
  BY <1>1, <1>3, <1>4, OnlyGood
<1> QED BY <1>5 DEF t

\* The copy of another stream's buffer, and that of what has not been written.
LEMMA CopiedGood ==
  ASSUME NEW s, Library(s), Good(s), Room(s), NEW r \in Number, s.pls[r].exists
  PROVE  LET c == Copied(s, r)
         IN  Good(c) /\ Only(s, c) /\ plsc(c).block # Null /\ plsc(c).level = plsc(s).level
             /\ c.open = s.open
<1> DEFINE from == s.pls[r]
           data == IF r = s.ipls THEN [k \in 1..from.top |-> Junk]
                   ELSE IF from.block = Null THEN << >> ELSE Buffer(s, r)
           own  == r # s.ipls /\ from.write /\ from.copy = NoCopy
           copy == IF own THEN from.page ELSE Unknown
           b    == Fresh(s)
           st   == plsc(s)
           at   == [st EXCEPT !.block = b, !.top = from.top, !.copy = copy]
           c    == Copied(s, r)
<1>0. Only(s, c) /\ plsc(c).block # Null /\ plsc(c).level = plsc(s).level
  BY CopiedOnly
<1>1. c = Store(With(s, at), b, data)
  BY DEF Copied
<1> HIDE DEF c
<1>2. /\ Sound(s) /\ Cur(s) /\ HeapOK(s) /\ st \in Stream /\ Shows(st, Contents(s, s.ipls)) /\ s.ipls \in Number
  BY GoodCur DEF Library, Cur, Shows, Sound, Shaped
<1>3. r \in Alive(s) /\ Shows(from, Contents(s, r)) /\ from \in Stream /\ from.top \in Nat
  <2>1. r \in Alive(s)
    BY <1>2 DEF Sound, Shaped, Alive, Proper, None
  <2>2. Shows(from, Contents(s, r)) /\ from \in Stream
    BY <2>1 DEF Good, Fine, ShowsAt, Shows, Alive
  <2> QED BY <2>1, <2>2, StreamProper
<1>4. Recorded(data) /\ Len(data) = from.top /\ (r # s.ipls => data = Contents(s, r))
  <2>1. CASE r = s.ipls
    <3>1. data \in Seq(0..Junk) /\ Len(data) = from.top /\ \A k \in DOMAIN data : data[k] = Junk
      BY <1>3, <2>1, JunkBound
    <3>2. Junk \in 1..Junk
      BY StreamsAssumption DEF Junk
    <3> QED BY <2>1, <3>1, <3>2 DEF Recorded
  <2>2. CASE r # s.ipls /\ from.block = Null
    <3>1. data = << >> /\ Contents(s, r) = << >> /\ from.top = 0
      BY <1>2, <1>3, <2>2 DEF Contents, Holds, Sound, Owning
    <3> QED BY <3>1, RecordedBegin
  <2>3. CASE r # s.ipls /\ from.block # Null
    <3>1. /\ data = Contents(s, r) /\ from.block \in DOMAIN s.heap /\ from.top <= Len(s.heap[from.block])
          /\ data = SubSeq(s.heap[from.block], 1, from.top)
      BY <1>2, <1>3, <2>3 DEF Contents, Buffer, Holds, Sound, Owning
    <3>2. s.heap[from.block] \in Seq(0..Junk)
      BY <1>2, <3>1 DEF HeapOK
    <3> HIDE DEF from, data
    <3>3. Len(data) = from.top
      BY <1>3, <3>1, <3>2, Used
    <3>4. Recorded(data)
      BY <1>3, <3>1 DEF Shows
    <3> QED BY <3>1, <3>3, <3>4
  <2> QED BY <2>1, <2>2, <2>3
<1>5. b \in Blocks /\ b # Null
  BY FreshBlock
<1>6. copy \in Seq(0..Junk) /\ (own => copy = from.page /\ copy \in Seq(1..Junk) /\ data = << Bop >> \o copy)
      /\ (~ own => copy = Unknown) /\ copy # NoCopy
  <2>1. Unknown \in Seq(0..Junk) /\ Unknown # NoCopy
    BY JunkBound DEF Unknown, NoCopy, Bop
  <2>2. ASSUME own PROVE from.page \in Seq(1..Junk) /\ data = << Bop >> \o from.page
    BY <1>3, <1>4, <2>2 DEF Shows, Stream
  <2>3. \A p \in Seq(1..Junk) : p \in Seq(0..Junk) /\ p # NoCopy
    <3> SUFFICES ASSUME NEW p \in Seq(1..Junk) PROVE p \in Seq(0..Junk) /\ p # NoCopy
      OBVIOUS
    <3>1. p \in Seq(0..Junk)
      BY JunkBound, SeqMonotonic
    <3> DEFINE S == 1..Junk
    <3>4. p \in Seq(S)
      OBVIOUS
    <3> HIDE DEF S
    <3>5. Len(p) = 1 => p[1] \in S
      BY <3>4, ElementOfSeq
    <3>2. Len(p) = 1 => p[1] # 0
      BY <3>5 DEF S
    <3>3. Len(NoCopy) = 1 /\ NoCopy[1] = 0
      BY DEF NoCopy, Bop
    <3> QED BY <3>1, <3>2, <3>3
  <2> HIDE DEF own, from, data
  <2> QED BY <2>1, <2>2, <2>3
<1> HIDE DEF from, data, copy, b
<1>7. /\ at \in Stream /\ at.block = b /\ at.top = from.top /\ at.copy = copy /\ at.page = st.page
      /\ at.status = st.status /\ at.write = st.write
  <2> HIDE DEF st
  <2> QED BY <1>2, <1>3, <1>5, <1>6 DEF Stream
<1> HIDE DEF at
<1>8. SubSeq(data, 1, at.top) = data
  BY <1>4, <1>7, SubSeqFull DEF Recorded
<1>9. Shows(at, data)
  <2>1. at.status = "bop" => at.page = << >>
    BY <1>2, <1>7 DEF Shows
  <2>2. Copying(at) => own
    BY <1>6, <1>7 DEF Copying
  <2> QED BY <1>4, <1>6, <1>7, <2>1, <2>2 DEF Shows
<1>10. Cur(c) /\ AsWas(s, c)
  <2>1. data \in Seq(0..Junk)
    BY <1>4 DEF Recorded
  <2> QED BY <1>1, <1>2, <1>5, <1>7, <1>8, <1>9, <2>1, StoreCur
<1>11. Good(c)
  <2> DEFINE n == s.open[s.ipls]
  <2>1. n \in Nat /\ c.open = [s.open EXCEPT ![s.ipls] = n] /\ c.initialized \in BOOLEAN
    BY <1>2, <1>10 DEF AsWas, Good, OpenOK
  <2>2. plsc(c).level > 0 => n > 0
    BY <1>0, <1>2 DEF Sound, Alive, Good, OpenOK, plsc
  <2> HIDE DEF n
  <2> QED BY <1>0, <1>2, <1>10, <2>1, <2>2, OnlyGood
<1> QED BY <1>0, <1>10, <1>11 DEF c, AsWas

\* plcpstrm, and the plinit in it.
LEMMA PlcpstrmGood ==
  ASSUME NEW s, Library(s), Good(s), Room(s), NEW r \in Number, s.pls[r].exists, NEW device \in Devices
  PROVE  Good(PlcpstrmOf(s, r, device))
<1> DEFINE c == Copied(s, r)
           t == PlinitOf(c, device)
<1>1. /\ Good(c) /\ Only(s, c) /\ plsc(c).block # Null /\ plsc(c).level = plsc(s).level
  BY CopiedGood
<1>2. PlcpstrmOf(s, r, device) = IF plsc(s).level = 0 THEN t ELSE c
  BY DEF PlcpstrmOf
<1> HIDE DEF c
<1>3. CASE plsc(s).level = 0
  <2>1. Sound(c) /\ Cur(c) /\ c.open \in [Number -> Nat] /\ c.ipls \in Number
    BY <1>1, GoodCur DEF Only, Sound, Shaped
  <2>2. /\ Only(c, t) /\ Cur(t) /\ t.initialized = TRUE
        /\ t.open = [c.open EXCEPT ![c.ipls] = @ + 1]
    BY <1>1, <1>3, <2>1, PlinitTailCur DEF PlinitOf
  <2> HIDE DEF t
  <2>3. t.open = [c.open EXCEPT ![c.ipls] = c.open[c.ipls] + 1] /\ c.open[c.ipls] + 1 \in Nat
        /\ c.open[c.ipls] + 1 > 0
    BY <2>1, <2>2
  <2>4. Good(t)
    BY <1>1, <2>1, <2>2, <2>3, OnlyGood
  <2> QED BY <1>2, <1>3, <2>4
<1> QED BY <1>1, <1>2, <1>3

\* plstrm_init.
LEMMA PlstrmInitGood ==
  ASSUME NEW s, Sound(s), Good(s)
  PROVE  Good(PlstrmInit(s))
<1> DEFINE st == plsc(s)
           a  == [st EXCEPT !.initialized = TRUE, !.psdoc = FALSE]
<1>1. st \in Stream /\ Cur(s)
  BY GoodCur DEF Cur, Shows
<1>2. a \in Stream /\ a.status = st.status /\ \A f \in {"block", "top", "page", "write", "copy"} : a[f] = st[f]
  <2> HIDE DEF st
  <2> QED BY <1>1 DEF Stream
<1>3. PlstrmInit(s) = With(s, a)
  BY DEF PlstrmInit
<1> HIDE DEF a
<1> QED BY <1>1, <1>2, <1>3, FlagsCur, PlstrmInitWithin, WithinGood

\* Every call of a program.
LEMMA CallGood ==
  ASSUME Library(lib), Good(lib), drawn \in 0..MaxItems, Call
  PROVE  Good(lib') /\ drawn' \in 0..MaxItems
<1>0. Sound(lib) /\ Cur(lib) /\ Records(lib) /\ plsc(lib) \in Stream
  BY GoodCur, SettledRecords DEF Library, Cur, Shows
<1>1. CASE Plsstrm
  BY <1>0, <1>1, PlsstrmToGood DEF Plsstrm, Other
<1>2. CASE Plmkstrm
  <2>1. drawn' = drawn
    BY <1>2 DEF Plmkstrm, Other
  <2>2. CASE lib' = PlstrmInit(lib)
    BY <1>0, <2>1, <2>2, PlstrmInitGood
  <2>3. ASSUME NEW n \in Number, lib' = PlstrmInit(PlsstrmTo(lib, n))
        PROVE  Good(lib')
    <3>1. Good(PlsstrmTo(lib, n)) /\ Sound(PlsstrmTo(lib, n))
      BY <1>0, PlsstrmToGood, PlsstrmToSound
    <3> QED BY <2>3, <3>1, PlstrmInitGood
  <2> QED BY <1>2, <2>1, <2>2, <2>3 DEF Plmkstrm
<1>3. CASE Plinit
  BY <1>3, PlinitGood DEF Plinit, Other
<1>4. CASE Plcpstrm
  BY <1>4, PlcpstrmGood DEF Plcpstrm, Other
<1>5. CASE Draw
  <2>1. drawn' \in 1..MaxItems /\ lib' = PlPLine(lib, drawn')
    BY <1>5, JunkBound DEF Draw
  <2>2. drawn' \in 1..Junk /\ drawn' \in Nat
    BY <2>1, JunkBound
  <2>3. Cur(lib') /\ AsWas(lib, lib') /\ Within(lib, lib')
    BY <1>0, <2>1, <2>2, PlPLineCur, PlPLineWithin
  <2> QED BY <1>0, <2>1, <2>3, WithinGood
<1>6. CASE Plbop
  <2>1. lib' = PlPBop(lib) /\ drawn' = drawn
    BY <1>6 DEF Plbop, Other
  <2>2. Shows(plsc(lib), Contents(lib, lib.ipls)) /\ HeapOK(lib)
    BY <1>0 DEF Cur
  <2>3. Cur(lib') /\ AsWas(lib, lib') /\ Within(lib, lib')
    BY <1>0, <2>1, <2>2, PlPBopCur, PlPBopWithin
  <2> QED BY <1>0, <2>1, <2>3, WithinGood
<1>7. CASE Pleop
  <2> DEFINE st == plsc(lib)
             a  == [st EXCEPT !.status = "eop"]
  <2>1. a \in Stream /\ a.status = "eop" /\ \A f \in {"block", "top", "page", "write", "copy"} : a[f] = st[f]
        /\ a.level = st.level
    <3> HIDE DEF st
    <3> QED BY <1>0 DEF Stream, st
  <2>2. lib' = With(lib, a) /\ drawn' = drawn
    BY <1>7 DEF Pleop, Other
  <2> HIDE DEF a
  <2>3. Cur(lib') /\ AsWas(lib, lib')
    BY <1>0, <2>1, <2>2, FlagsCur
  <2>4. Within(lib, lib')
    <3>1. Proper(a) /\ a.top \in Nat /\ Keeps(plsc(lib), a) /\ a.top <= plsc(lib).top
      BY <2>1, StreamProper DEF Keeps
    <3> QED BY <1>0, <2>2, <3>1, ChangeWithin
  <2> QED BY <1>0, <2>2, <2>3, <2>4, WithinGood
<1>8. CASE Plreplot
  BY <1>0, <1>8, PlRemakePlotCur, PlRemakePlotWithin, WithinGood DEF Plreplot, Other
<1>9. CASE Plend1
  BY <1>0, <1>9, Plend1OfGood DEF Plend1, Other
<1> QED BY <1>1, <1>2, <1>3, <1>4, <1>5, <1>6, <1>7, <1>8, <1>9 DEF Call

\* A round of plend's loop.
LEMMA PlendStepGood ==
  ASSUME IInv, Good(lib), PlendStep
  PROVE  Good(lib')
<1> DEFINE n == ending - 1
           s == IF lib.pls[n].exists THEN Plend1Of(PlsstrmTo(lib, n)) ELSE lib
<1>1. n \in Number /\ Sound(lib)
  BY StreamsAssumption DEF PlendStep, Number, IInv, Library
<1>2. lib' = [s EXCEPT !.initialized = (ending > 1)]
  BY DEF PlendStep
<1>3. Good(s) /\ Sound(s)
  <2>1. Good(PlsstrmTo(lib, n)) /\ Sound(PlsstrmTo(lib, n))
    BY <1>1, PlsstrmToGood, PlsstrmToSound
  <2>2. Good(Plend1Of(PlsstrmTo(lib, n))) /\ Sound(Plend1Of(PlsstrmTo(lib, n)))
    BY <2>1, Plend1OfGood, Plend1OfSound
  <2> QED BY <1>1, <2>2
<1> HIDE DEF s
<1>4. Same(s, lib') /\ lib'.open = s.open /\ lib'.initialized \in BOOLEAN
  BY <1>2, <1>3 DEF Sound, Shaped, Same, Parts
<1> QED BY <1>3, <1>4 DEF Good, Fine, HeapOK, OpenOK, ShowsAt, Contents, Holds, Buffer, Same

\* The inductive invariant of what the streams show.
ShowsInv == IInv /\ Good(lib) /\ drawn \in 0..MaxItems

\* It holds at first.
LEMMA ShowsInvInit == Init => ShowsInv
<1> SUFFICES ASSUME Init PROVE ShowsInv
  OBVIOUS
<1>1. /\ lib.pls[0] = Blank /\ \A i \in Number \ {0} : lib.pls[i] = None
      /\ DOMAIN lib.heap = {} /\ lib.open \in [Number -> Nat] /\ lib.initialized = FALSE
  BY NumberZero DEF Init
<1>2. \A i \in Number : ShowsAt(lib, i)
  BY <1>1, BlankShows, BlankProper DEF ShowsAt, Contents, Holds, None
<1>3. HeapOK(lib)
  BY <1>1 DEF HeapOK
<1>4. OpenOK(lib)
  BY <1>1, BlankProper DEF OpenOK, None
<1>5. drawn \in 0..MaxItems
  BY JunkBound DEF Init
<1> QED BY <1>1, <1>2, <1>3, <1>4, <1>5, IInvInit DEF ShowsInv, Good, Fine

\* Every call and every round of plend keep it.
LEMMA ShowsInvStep == ShowsInv /\ [Next]_vars => ShowsInv'
<1> SUFFICES ASSUME ShowsInv, [Next]_vars PROVE ShowsInv'
  OBVIOUS
<1>0. IInv /\ IInv' /\ Library(lib) /\ Good(lib) /\ drawn \in 0..MaxItems
  BY IInvStep DEF ShowsInv, IInv
<1>1. CASE Call
  BY <1>0, <1>1, CallGood DEF ShowsInv
<1>2. CASE Plend
  BY <1>0, <1>2 DEF Plend, ShowsInv
<1>3. CASE PlendStep
  BY <1>0, <1>3, PlendStepGood DEF PlendStep, ShowsInv
<1>4. CASE UNCHANGED vars
  BY <1>0, <1>4 DEF vars, ShowsInv
<1> QED BY <1>1, <1>2, <1>3, <1>4 DEF Next, Call

\* What every stream shows and what its buffer holds, whatever the program calls.
THEOREM ShowsInvariant == Spec => []ShowsInv
BY ShowsInvInit, ShowsInvStep, PTL DEF Spec

\* Every variable keeps its type.
THEOREM TypeHolds == Spec => []TypeOK
<1>1. ShowsInv => TypeOK
  <2> SUFFICES ASSUME ShowsInv PROVE TypeOK
    OBVIOUS
  <2>1. \A i \in Number : lib.pls[i] = None \/ Shows(lib.pls[i], Contents(lib, i))
    BY DEF ShowsInv, IInv, Library, Sound, Shaped, Proper, Good, Fine, ShowsAt
  <2>2. \A i \in Number : lib.pls[i] \in Stream \cup {None}
    BY <2>1 DEF Shows
  <2>3. lib.ipls \in Number /\ lib.initialized \in BOOLEAN /\ lib.open \in [Number -> Nat]
    BY DEF ShowsInv, IInv, Library, Sound, Shaped, Good, OpenOK
  <2>4. DOMAIN lib.heap \subseteq Blocks /\ \A b \in DOMAIN lib.heap : lib.heap[b] \in Seq(0..Junk)
    BY DEF ShowsInv, Good, Fine, HeapOK
  <2> QED BY <2>2, <2>3, <2>4 DEF ShowsInv, IInv, TypeOK
<1> QED BY <1>1, ShowsInvariant, PTL

\* What plreplot would draw is the page that the stream's device shows, or, in a
\* stream that was copied to, the page that was copied, whatever became of the
\* stream it was copied from: for every number of streams and every program.
THEOREM ReplotShowsHolds == Spec => []ReplotShows
<1>1. ShowsInv => ReplotShows
  <2> SUFFICES ASSUME ShowsInv, NEW i \in Live
               PROVE  LET st == lib.pls[i]
                      IN  /\ st.write /\ st.copy = NoCopy => Buffer(lib, i) = << Bop >> \o st.page
                          /\ st.copy \notin {NoCopy, Unknown} =>
                               PlRemakePlot([lib EXCEPT !.ipls = i]).pls[i].page = st.copy
    BY DEF ReplotShows
  <2> DEFINE st    == lib.pls[i]
             items == Buffer(lib, i)
             t     == [lib EXCEPT !.ipls = i]
  <2>1. i \in Number /\ i \in Alive(lib) /\ Sound(lib) /\ Shaped(lib) /\ Owning(lib)
    BY DEF ShowsInv, IInv, Library, Sound, Shaped, Live, Alive, None, Proper
  <2>2. Shows(st, Contents(lib, i)) /\ st \in Stream /\ Settled(lib, i)
    BY <2>1 DEF ShowsInv, IInv, Library, Good, Fine, ShowsAt, Alive, Shows
  <2>3. Contents(lib, i) # << >> => Contents(lib, i) = items
    BY DEF Contents
  <2>4. \A p \in Seq(1..Junk) : << Bop >> \o p # << >> /\ (<< Bop >> \o p)[1] = Bop /\ Tail(<< Bop >> \o p) = p
    <3> SUFFICES ASSUME NEW p \in Seq(1..Junk)
                 PROVE  << Bop >> \o p # << >> /\ (<< Bop >> \o p)[1] = Bop /\ Tail(<< Bop >> \o p) = p
      OBVIOUS
    <3>1. p \in Seq(Nat) /\ << Bop >> \in Seq(Nat) /\ Len(<< Bop >>) = 1
      BY JunkBound DEF Bop
    <3> QED BY <3>1
  <2>5. st.write /\ st.copy = NoCopy => items = << Bop >> \o st.page
    <3>1. st.page \in Seq(1..Junk)
      BY <2>2 DEF Stream
    <3> HIDE DEF st, items
    <3> QED BY <2>2, <2>3, <2>4, <3>1 DEF Shows
  <2>6. ASSUME Copying(st) PROVE PlRemakePlot(t).pls[i].page = st.copy
    <3>1. st.copy \in Seq(1..Junk) /\ items = << Bop >> \o st.copy
      <4> HIDE DEF st, items
      <4> QED BY <2>2, <2>3, <2>4, <2>6 DEF Shows
    <3>2. t.ipls = i /\ t.pls = lib.pls /\ t.heap = lib.heap /\ DOMAIN t = Parts
      BY <2>1 DEF Shaped, Parts
    <3> HIDE DEF t
    <3>3. plsc(t) = st /\ Buffer(t, t.ipls) = items
      BY <3>2 DEF plsc, Buffer
    <3> DEFINE lines  == Tail(items)
               clears == st.status # "bop"
               page   == IF clears THEN lines ELSE st.page \o lines
               status == IF lines # << >> THEN "drawing" ELSE IF clears THEN "bop" ELSE st.status
    <3>4. items # << >> /\ items[1] = Bop /\ lines = st.copy
      <4> HIDE DEF items, st
      <4> QED BY <2>4, <3>1
    <3>5. PlRemakePlot(t) = With(t, [st EXCEPT !.page = page, !.status = status])
      <4> HIDE DEF items, st
      <4> QED BY <3>3, <3>4 DEF PlRemakePlot
    <3>6. page = st.copy
      <4>1. st.status = "bop" => st.page = << >>
        BY <2>2 DEF Shows
      <4>2. << >> \o st.copy = st.copy
        BY <3>1, ConcatEmptySeq
      <4> HIDE DEF st, lines
      <4> QED BY <3>4, <4>1, <4>2
    <3> HIDE DEF page, status
    <3>7. [st EXCEPT !.page = page, !.status = status].page = page
      <4> HIDE DEF st
      <4> QED BY <2>2 DEF Stream
    <3> QED BY <2>1, <3>2, <3>5, <3>6, <3>7 DEF With, Parts, Shaped
  <2> QED BY <2>5, <2>6 DEF Copying
<1> QED BY <1>1, ShowsInvariant, PTL
=============================================================================
