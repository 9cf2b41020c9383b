-------------------------- MODULE PlotReplay_proof --------------------------
(***************************************************************************)
(* Proofs about replays, for every number of streams, every length of a    *)
(* plot buffer and every mixture of calls: a replay is local to its        *)
(* stream, writes nothing to the buffer it reads, gives the stream values  *)
(* of their types, shows the page as it was drawn and leaves the stream as *)
(* it was.                                                                 *)
(***************************************************************************)
EXTENDS PlotReplay, SequenceTheorems, TLAPS

\* While a replay runs, the stream that is replayed is the current one, and
\* the others are as they were.
Local == replay.on =>
  /\ replay.pls \in program.streams /\ plsc = replay.pls
  /\ replay.plsc \in program.streams
  /\ DOMAIN replay = {"on", "pls", "plsc", "write", "cursub", "readpos", "before"}
  /\ \A p \in program.streams \ {replay.pls} : stream[p] = replay.before[p]

-----------------------------------------------------------------------------
(* Locality.                                                               *)

Located == plsc \in program.streams /\ DOMAIN stream = program.streams /\ replay.on \in BOOLEAN /\ Local

\* A call of the program changes one stream, and no replay runs.
LEMMA CallLocated ==
  ASSUME NEW after, Located, Call(after)
  PROVE  Located' /\ ~ replay.on
BY DEF Located, Local, Call

\* The invariant holds at first.
LEMMA LocatedInit == Init => Located
BY DEF Init, Located, Local, Idle

\* The program's actions are calls.
LEMMA Program ==
  ASSUME ChangeState \/ Draw \/ Page
  PROVE  \E after : Call(after)
<1>1. CASE ChangeState
  BY <1>1 DEF ChangeState, Makes
<1>2. CASE Draw
  BY <1>2 DEF Draw, Makes
<1>3. CASE Page
  BY <1>3 DEF Page, Makes
<1> QED BY <1>1, <1>2, <1>3

\* Every step preserves it, one case for each action.
LEMMA LocatedStep == Located /\ [Next]_vars => Located'
<1> SUFFICES ASSUME Located, [Next]_vars PROVE Located'
  OBVIOUS
<1>1. CASE ChangeState \/ Draw \/ Page
  BY <1>1, Program, CallLocated
<1>2. CASE Plsstrm
  BY <1>2 DEF Plsstrm, Located, Local
<1>3. CASE PlRemakePlot
  BY <1>3 DEF PlRemakePlot, Located, Local
<1>4. CASE ReplayItem
  BY <1>4 DEF ReplayItem, Located, Local
<1>5. CASE ReplayEnd
  BY <1>5 DEF ReplayEnd, Located, Local, Idle
<1>6. CASE UNCHANGED vars
  BY <1>6 DEF vars, Located, Local
<1> QED BY <1>1, <1>2, <1>3, <1>4, <1>5, <1>6 DEF Next

\* While a replay runs, the replayed stream is the current one and all others
\* are as they were when it was asked for.
THEOREM LocatedInvariant == Spec => []Located
BY LocatedInit, LocatedStep, PTL DEF Spec

\* A replay ends with ReplayEnd.
LEMMA EndIsEnd ==
  ASSUME Located, [Next]_vars, Ends
  PROVE  ReplayEnd
<1>1. ~ (ChangeState \/ Draw \/ Page)
  BY Program, CallLocated DEF Ends
<1>2. ~ Plsstrm /\ ~ PlRemakePlot
  BY DEF Ends, Plsstrm, PlRemakePlot
<1>3. ~ ReplayItem
  BY DEF Ends, ReplayItem, Located, Local
<1> QED BY <1>1, <1>2, <1>3 DEF Next, Ends, vars

\* A replay that a driver asks for, of whatever stream and whenever, leaves
\* every other stream alone and gives the program its current stream back.
THEOREM ReplayIsLocalHolds == Spec => ReplayIsLocal
<1>1. Located /\ [Next]_vars =>
        [Ends => /\ plsc' = replay.plsc
                 /\ \A p \in program.streams \ {replay.pls} : stream'[p] = replay.before[p]]_vars
  BY EndIsEnd DEF ReplayEnd, Located, Local, Ends
<1> QED BY <1>1, LocatedInvariant, PTL DEF Spec, ReplayIsLocal

-----------------------------------------------------------------------------
(* Reading only: an operation on a stream that does not write to its       *)
(* buffer leaves the buffer as it is, and does not begin to write.         *)

Buffered(s) == {"write", "buffer"} \subseteq DOMAIN s
Kept(s, t)  == Buffered(t) /\ (~ s.write => ~ t.write /\ t.buffer = s.buffer)

\* What keeps the buffer twice keeps it.
LEMMA KeptTwice ==
  ASSUME NEW s, NEW t, NEW u, Kept(s, t), Kept(t, u)
  PROVE  Kept(s, u)
BY DEF Kept

\* The writers of src/plbuf.c write for a stream with plbuf_write only.
LEMMA WrKeeps ==
  ASSUME NEW s, Buffered(s), NEW item
  PROVE  Kept(s, Wr(s, item))
BY DEF Kept, Buffered, Wr

\* Nor does the driver write, which only shows.
LEMMA ShowKeeps ==
  ASSUME NEW s, Buffered(s), NEW mark
  PROVE  Kept(s, Show(s, mark))
BY DEF Kept, Buffered, Show

\* The setters of attributes.
LEMMA PlcolKeeps ==
  ASSUME NEW s, Buffered(s), NEW map, NEW i
  PROVE  Kept(s, Plcol(s, map, i))
BY DEF Kept, Buffered, Plcol, Wr

\* The setters and drawings of a replay keep a stream that does not record as
\* it is, one after the other: a colour of a map.
LEMMA PlscolKeeps ==
  ASSUME NEW s, Buffered(s), NEW map, NEW i, NEW colour
  PROVE  Kept(s, Plscol(s, map, i, colour))
BY DEF Kept, Buffered, Plscol, Wr

\* A colour map, set in part.
LEMMA Plscmap0Keeps ==
  ASSUME NEW s, Buffered(s), NEW colour
  PROVE  Kept(s, Plscmap0Aborted(s, colour))
BY DEF Kept, Buffered, Plscmap0Aborted

\* The width and the attributes of text.
LEMMA SizesKeep ==
  ASSUME NEW s, Buffered(s), NEW x
  PROVE  (\A lock : Kept(s, Plwidth(s, x, lock))) /\ Kept(s, Plschr(s, x)) /\ Kept(s, Plssym(s, x))
         /\ Kept(s, Plsfci(s, x))
BY DEF Kept, Buffered, Plwidth, Plschr, Plssym, Plsfci, Wr

\* The orientation.
LEMMA PlsdioriKeeps ==
  ASSUME NEW s, Buffered(s), NEW rot
  PROVE  Kept(s, Plsdiori(s, rot))
BY DEF Kept, Buffered, Plsdiori, Wr

\* The limits of the subpage.
LEMMA SetsubKeeps ==
  ASSUME NEW s, Buffered(s)
  PROVE  Kept(s, Setsub(s))
BY DEF Kept, Buffered, Setsub, Wr

\* Setting up the subpages sets two sizes.
LEMMA SubpInitKeeps ==
  ASSUME NEW s, Buffered(s)
  PROVE  Kept(s, SubpInit(s))
<1> DEFINE a == [s EXCEPT !.cursub = 0]
           b == Plschr(a, 1)
<1>1. Kept(s, a)
  BY DEF Kept, Buffered
<1>2. Kept(a, b)
  BY <1>1, SizesKeep DEF Kept
<1>3. Kept(b, Plssym(b, 1))
  BY <1>2, SizesKeep DEF Kept
<1> HIDE DEF a, b
<1>4. Kept(s, Plssym(b, 1))
  BY <1>1, <1>2, <1>3, KeptTwice
<1> QED BY <1>4 DEF SubpInit, a, b

\* A page that begins starts a new buffer, when the stream writes to it.
LEMMA BopKeeps ==
  ASSUME NEW s, Buffered(s)
  PROVE  Kept(s, Bop(s))
<1> DEFINE t == SubpInit(s)
           u == [t EXCEPT !.status = "at_bop",
                          !.canvas = << Mark("page", t.cmap[0][0], 0, 0, 0) >>]
           v == [u EXCEPT !.buffer = << BopItem(u) >>, !.drawn = u.canvas]
<1>1. Kept(s, t)
  BY SubpInitKeeps
<1>2. Bop(s) = IF t.status = "at_bop" THEN t ELSE IF u.write THEN v ELSE u
  BY DEF Bop
<1> HIDE DEF t
<1>3. Kept(t, u) /\ (u.write => Kept(t, v))
  BY <1>1 DEF Kept, Buffered
<1> HIDE DEF u, v
<1>4. Kept(s, u) /\ (u.write => Kept(s, v))
  BY <1>1, <1>3, KeptTwice
<1> QED BY <1>1, <1>2, <1>4

\* The end of a page.
LEMMA EopKeeps ==
  ASSUME NEW s, Buffered(s)
  PROVE  Kept(s, Eop(s))
BY DEF Kept, Buffered, Eop, Wr

\* Drawing.
LEMMA LineKeeps ==
  ASSUME NEW s, Buffered(s)
  PROVE  Kept(s, Line(s)) /\ Kept(s, HasText(s)) /\ Kept(s, Clear(s))
<1>1. Kept(s, Line(s))
  <2> DEFINE a == [s EXCEPT !.status = "drawing"]
             b == Wr(a, [op |-> "line"])
  <2>1. Kept(s, a) /\ Kept(a, b)
    BY WrKeeps DEF Kept, Buffered
  <2>2. Line(s) = Show(b, Mark("line", s.curcolor, s.width, 0, Turn(s)))
    BY DEF Line
  <2> HIDE DEF a, b
  <2> QED BY <2>1, <2>2, KeptTwice, ShowKeeps DEF Kept
<1>2. Kept(s, HasText(s))
  BY WrKeeps, ShowKeeps, KeptTwice DEF Kept, HasText
<1>3. Kept(s, Clear(s))
  BY WrKeeps, ShowKeeps, KeptTwice DEF Kept, Clear
<1> QED BY <1>1, <1>2, <1>3

\* A symbol, drawn with the height of symbols in the place of that of text.
LEMMA SymbolKeeps ==
  ASSUME NEW s, Buffered(s)
  PROVE  Kept(s, Symbol(s))
<1> DEFINE a == [s EXCEPT !.chrht = s.symht]
           b == HasText(a)
           c == [b EXCEPT !.chrht = s.chrht]
<1>1. Kept(s, a)
  BY DEF Kept, Buffered
<1>2. Kept(a, b)
  BY <1>1, LineKeeps DEF Kept
<1> HIDE DEF a, b
<1>3. Kept(b, c)
  BY <1>2 DEF Kept, Buffered
<1> HIDE DEF c
<1>4. Kept(s, c)
  BY <1>1, <1>2, <1>3, KeptTwice
<1> QED BY <1>4 DEF Symbol, a, b, c

\* The calls on pages, which are made of the operations above.
LEMMA PagesKeep ==
  ASSUME NEW s, Buffered(s)
  PROVE  Kept(s, Plbop(s)) /\ Kept(s, Pleop(s)) /\ Kept(s, Pladv(s))
<1> DEFINE sub(t, n) == [t EXCEPT !.cursub = n]
<1>1. ASSUME NEW t, Buffered(t), NEW n
      PROVE  Kept(t, sub(t, n))
  BY <1>1 DEF Kept, Buffered
<1>2. ASSUME NEW t, Kept(s, t), NEW n
      PROVE  Kept(s, Setsub(sub(t, n)))
  <2>1. Kept(s, sub(t, n))
    BY <1>1, <1>2, KeptTwice DEF Kept
  <2> HIDE DEF sub
  <2> QED BY <2>1, SetsubKeeps, KeptTwice DEF Kept
<1>3. Kept(s, Plbop(s))
  <2>1. Plbop(s) = Setsub(sub(Bop(s), 1))
    BY DEF Plbop
  <2> HIDE DEF sub
  <2> QED BY <1>2, <2>1, BopKeeps
<1>4. Kept(s, Pleop(s))
  <2>1. Pleop(s) = Eop(sub(s, SubPages)) /\ Kept(s, sub(s, SubPages))
    BY <1>1 DEF Pleop
  <2> HIDE DEF sub
  <2> QED BY <2>1, EopKeeps, KeptTwice DEF Kept
<1>5. Kept(s, Pladv(s))
  <2>1. Pladv(s) = Setsub(sub(Bop(Eop(s)), 1)) \/ Pladv(s) = Setsub(sub(s, s.cursub + 1))
    BY DEF Pladv
  <2>2. Kept(s, Bop(Eop(s))) /\ Kept(s, s)
    BY EopKeeps, BopKeeps, KeptTwice DEF Kept
  <2> HIDE DEF sub
  <2> QED BY <1>2, <2>1, <2>2
<1> QED BY <1>3, <1>4, <1>5

\* The reader of a page's beginning takes neither field from the record.
LEMMA RdBopKeeps ==
  ASSUME NEW s, Buffered(s), NEW item
  PROVE  Kept(s, RdBop(s, item))
<1> DEFINE t == [f \in DOMAIN s |-> IF f \in Saved THEN item.saved[f] ELSE s[f]]
<1>1. Kept(s, t)
  BY DEF Kept, Buffered, Saved
<1>2. RdBop(s, item) = Bop(t)
  BY DEF RdBop
<1> HIDE DEF t
<1> QED BY <1>1, <1>2, BopKeeps, KeptTwice DEF Kept

\* The readers of attributes, of text, of the filter and of the subpage.
LEMMA ReadersKeep ==
  ASSUME NEW s, Buffered(s), NEW item
  PROVE  /\ item.op \in {"color", "cmap", "width", "chr", "sym"} => Kept(s, RdState(s, item))
         /\ Kept(s, RdText(s, item)) /\ Kept(s, RdDi(s, item)) /\ Kept(s, RdSetsub(s, item))
<1>1. ASSUME item.op \in {"color", "cmap", "width", "chr", "sym"}
      PROVE  Kept(s, RdState(s, item))
  <2>1. CASE item.op = "color"
    BY <2>1, PlcolKeeps DEF RdState
  <2>2. CASE item.op = "cmap"
    BY <2>2 DEF RdState, Kept, Buffered
  <2>3. CASE item.op = "width"
    BY <2>3 DEF RdState, Kept, Buffered
  <2>4. CASE item.op = "chr"
    BY <2>4 DEF RdState, Kept, Buffered
  <2>5. CASE item.op = "sym"
    BY <2>5 DEF RdState, Kept, Buffered
  <2> QED BY <1>1, <2>1, <2>2, <2>3, <2>4, <2>5
<1>2. Kept(s, RdText(s, item))
  <2> DEFINE t == [s EXCEPT !.chrht = item.chrht, !.rot = item.rot, !.fci = item.fci]
  <2>1. Kept(s, t) /\ RdText(s, item) = HasText(t)
    BY DEF Kept, Buffered, RdText
  <2> HIDE DEF t
  <2> QED BY <2>1, LineKeeps, KeptTwice DEF Kept
<1>3. Kept(s, RdDi(s, item))
  BY PlsdioriKeeps DEF RdDi, Kept
<1>4. Kept(s, RdSetsub(s, item))
  <2> DEFINE t == [s EXCEPT !.cursub = item.cursub]
  <2>1. Kept(s, t) /\ RdSetsub(s, item) = Setsub(t)
    BY DEF Kept, Buffered, RdSetsub
  <2> HIDE DEF t
  <2> QED BY <2>1, SetsubKeeps, KeptTwice DEF Kept
<1> QED BY <1>1, <1>2, <1>3, <1>4

\* plbuf_control, whatever the record.
LEMMA ControlKeeps ==
  ASSUME NEW s, Buffered(s), NEW item
  PROVE  Kept(s, Control(s, item))
<1>1. CASE item.op = "bop"
  BY <1>1, RdBopKeeps DEF Control
<1>2. CASE item.op = "line"
  BY <1>2, LineKeeps DEF Control
<1>3. CASE item.op = "text"
  BY <1>3, ReadersKeep DEF Control
<1>4. CASE item.op = "clear"
  BY <1>4, LineKeeps DEF Control
<1>5. CASE item.op = "di"
  BY <1>5, ReadersKeep DEF Control
<1>6. CASE item.op = "setsub"
  BY <1>6, ReadersKeep DEF Control
<1>7. CASE item.op \in {"color", "cmap", "width", "chr", "sym"}
  BY <1>7, ReadersKeep DEF Control
<1>8. CASE item.op \notin {"bop", "line", "text", "clear", "di", "setsub",
                          "color", "cmap", "width", "chr", "sym"}
  BY <1>8 DEF Control, Kept
<1> QED BY <1>1, <1>2, <1>3, <1>4, <1>5, <1>6, <1>7, <1>8

-----------------------------------------------------------------------------
(* The invariant of reading.                                               *)

AllBuffered == \A p \in program.streams : Buffered(stream[p])
Reading     == Located /\ AllBuffered /\ ReplayReadsOnly

\* The program's calls, none of which is made during a replay.
LEMMA ProgramKeeps ==
  ASSUME Reading, ChangeState \/ Draw \/ Page
  PROVE  \E after : Buffered(after) /\ Call(after)
<1>1. Buffered(current)
  BY DEF Reading, Located, AllBuffered, current
<1> HIDE DEF current
<1>2. CASE ChangeState
  BY <1>1, <1>2, PlcolKeeps, PlscolKeeps, Plscmap0Keeps, SizesKeep, PlsdioriKeeps
     DEF ChangeState, Makes, Kept
<1>3. CASE Draw
  BY <1>1, <1>3, LineKeeps, SymbolKeeps DEF Draw, Makes, Kept
<1>4. CASE Page
  BY <1>1, <1>4, PagesKeep DEF Page, Makes, Kept
<1> QED BY <1>2, <1>3, <1>4

\* A call of the program between two replays.
LEMMA CallReads ==
  ASSUME NEW after, Reading, Buffered(after), Call(after)
  PROVE  Reading'
<1>1. Located' /\ ~ replay.on
  BY CallLocated DEF Reading
<1>2. AllBuffered'
  BY DEF Reading, AllBuffered, Located, Call
<1>3. ReplayReadsOnly'
  BY <1>1 DEF ReplayReadsOnly, Call
<1> QED BY <1>1, <1>2, <1>3 DEF Reading

\* A stream has its buffer from the beginning.
LEMMA ReadingInit == Init => Reading
<1> SUFFICES ASSUME Init PROVE Reading
  OBVIOUS
<1> DEFINE n == NewStream(TRUE)
           b == SubpInit(Bop(n))
<1>1. Buffered(n)
  BY DEF Buffered, NewStream
<1> HIDE DEF n
<1>2. Buffered(b)
  BY <1>1, BopKeeps, SubpInitKeeps DEF Kept
<1>3. Plinit(TRUE) = Plsdiori(Plcol(b, 0, 1), 0)
  BY DEF Plinit, n
<1> HIDE DEF b
<1>4. Buffered(Plinit(TRUE))
  BY <1>2, <1>3, PlcolKeeps, PlsdioriKeeps DEF Kept
<1> QED BY <1>4, LocatedInit DEF Init, Reading, AllBuffered, ReplayReadsOnly, Idle

\* Every action keeps what the buffer has to do with the replay.
LEMMA ReadingStep == Reading /\ [Next]_vars => Reading'
<1> SUFFICES ASSUME Reading, [Next]_vars PROVE Reading'
  OBVIOUS
<1>1. Located'
  BY LocatedStep DEF Reading
<1>2. CASE ChangeState \/ Draw \/ Page
  BY <1>2, ProgramKeeps, CallReads
<1>3. CASE Plsstrm
  BY <1>1, <1>3 DEF Plsstrm, Reading, AllBuffered, ReplayReadsOnly
<1>4. CASE PlRemakePlot
  BY <1>1, <1>4 DEF PlRemakePlot, Reading, Located, AllBuffered, Buffered, ReplayReadsOnly
<1>5. CASE ReplayItem
  <2> DEFINE s    == stream[replay.pls]
             item == s.buffer[replay.readpos + 1]
  <2>1. replay.pls \in program.streams /\ plsc = replay.pls
    BY <1>5 DEF ReplayItem, Reading, Located, Local
  <2>2. Kept(s, Control(s, item))
    BY <2>1, ControlKeeps DEF Reading, AllBuffered
  <2>3. stream' = [stream EXCEPT ![replay.pls] = Control(s, item)]
    BY <1>5, <2>1 DEF ReplayItem
  <2>4. replay'.on = replay.on /\ replay'.pls = replay.pls /\ replay'.before = replay.before
    BY <1>5 DEF ReplayItem, Reading, Located, Local
  <2> HIDE DEF item
  <2>5. AllBuffered'
    BY <1>5, <2>2, <2>3 DEF ReplayItem, Reading, Located, AllBuffered, Kept
  <2>6. ReplayReadsOnly'
    BY <1>5, <2>1, <2>2, <2>3, <2>4
       DEF ReplayItem, Reading, Located, ReplayReadsOnly, Kept
  <2> QED BY <1>1, <2>5, <2>6 DEF Reading
<1>6. CASE ReplayEnd
  BY <1>1, <1>6 DEF ReplayEnd, Reading, Located, Local, AllBuffered, Buffered, ReplayReadsOnly, Idle
<1>7. CASE UNCHANGED vars
  BY <1>1, <1>7 DEF vars, Reading, AllBuffered, ReplayReadsOnly
<1> QED BY <1>2, <1>3, <1>4, <1>5, <1>6, <1>7 DEF Next

\* A replay reads the records of a page and writes none, whatever they are and
\* however many: the buffer is what it was when the driver asked for the replay.
THEOREM ReplayReadsOnlyHolds == Spec => []ReplayReadsOnly
<1>1. Reading => ReplayReadsOnly
  BY DEF Reading
<1> QED BY <1>1, ReadingInit, ReadingStep, PTL DEF Spec
-----------------------------------------------------------------------------
(* Types.  A record of the buffer has the values that an attribute may have.*)

Fields == DOMAIN NewStream(TRUE)

IsSeq(q) == \E S : q \in Seq(S)

ItemOK(x) ==
  /\ x.op = "bop" =>
       /\ x.saved.cmap \in [Map -> [Index -> Colour]] /\ x.saved.icol \in [Map -> Index]
       /\ x.saved.curcolor \in Colour /\ x.saved.curcmap \in Map
       /\ x.saved.width \in Width /\ x.saved.chrht \in Height /\ x.saved.symht \in Height
       /\ x.saved.ori \in BOOLEAN
  /\ x.op = "color"  => x.map \in Map /\ x.icol \in Index
  /\ x.op = "cmap"   => x.map \in Map /\ x.cmap \in [Index -> Colour]
  /\ x.op = "width"  => x.width \in Width
  /\ x.op = "chr"    => x.chrht \in Height
  /\ x.op = "sym"    => x.symht \in Height
  /\ x.op = "di"     => x.ori \in BOOLEAN /\ x.rot \in Rotation
  /\ x.op = "setsub" => x.cursub \in 0..SubPages
  /\ x.op = "text"   => x.chrht \in Height /\ x.rot \in Rotation /\ x.fci \in Font

\* The attributes of a stream.
AttributesOK(s) ==
  /\ s.cmap \in [Map -> [Index -> Colour]] /\ s.icol \in [Map -> Index]
  /\ s.curcolor \in Colour /\ s.curcmap \in Map
  /\ s.width \in Width /\ s.chrht \in Height /\ s.symht \in Height /\ s.fci \in Font
  /\ s.ori \in BOOLEAN /\ s.rot \in Rotation /\ s.coef \in Rotation
  /\ s.cursub \in 0..SubPages /\ s.limits \in 0..SubPages
  /\ s.status \in Status /\ s.write \in BOOLEAN

\* The buffer of a stream, and its pictures.
BufferOK(s) ==
  /\ IsSeq(s.buffer) /\ \A k \in 1..Len(s.buffer) : ItemOK(s.buffer[k])
  /\ IsSeq(s.canvas) /\ IsSeq(s.drawn)

Typed(s) == DOMAIN s = Fields /\ AttributesOK(s) /\ BufferOK(s)

\* A page has begun.
Paged(s) == Len(s.canvas) > 0 /\ s.canvas[1].kind = "page"

\* A sequence with an element more.
LEMMA Longer ==
  ASSUME NEW q, IsSeq(q), NEW x
  PROVE  /\ IsSeq(Append(q, x)) /\ Len(q) \in Nat /\ Len(Append(q, x)) = Len(q) + 1
         /\ Append(q, x)[Len(q) + 1] = x /\ \A k \in 1..Len(q) : Append(q, x)[k] = q[k]
         /\ DOMAIN q = 1..Len(q) /\ DOMAIN Append(q, x) = 1..Len(q) + 1
<1>1. PICK S : q \in Seq(S)
  BY DEF IsSeq
<1> DEFINE T == S \cup {x}
<1>2. q \in Seq(T) /\ x \in T
  BY <1>1, SeqMonotonic
<1> HIDE DEF T
<1>3. Append(q, x) \in Seq(T)
  BY <1>2, AppendProperties
<1>4. /\ Len(q) \in Nat /\ Len(Append(q, x)) = Len(q) + 1
      /\ Append(q, x)[Len(q) + 1] = x /\ \A k \in 1..Len(q) : Append(q, x)[k] = q[k]
      /\ DOMAIN q = 1..Len(q)
  BY <1>2, AppendProperties, LenProperties
<1>5. DOMAIN Append(q, x) = 1..Len(q) + 1
  BY <1>3, <1>4, LenProperties
<1> QED BY <1>3, <1>4, <1>5 DEF IsSeq

\* A sequence of one element.
LEMMA Single == ASSUME NEW x PROVE IsSeq(<< x >>) /\ Len(<< x >>) = 1 /\ << x >>[1] = x /\ DOMAIN << x >> = 1..1
<1>1. << x >> \in Seq({x})
  OBVIOUS
<1>2. \E S : << x >> \in Seq(S)
  BY ONLY <1>1, Zenon
<1>3. Len(<< x >>) = 1 /\ << x >>[1] = x
  OBVIOUS
<1>4. DOMAIN << x >> = 1..Len(<< x >>)
  BY <1>1, LenProperties
<1> QED BY <1>2, <1>3, <1>4 DEF IsSeq

\* A record is written behind the others, if the stream records.
LEMMA WrTyped ==
  ASSUME NEW s, Typed(s), NEW x, ItemOK(x)
  PROVE  /\ Typed(Wr(s, x)) /\ \A f \in Fields \ {"buffer"} : Wr(s, x)[f] = s[f]
         /\ s.write => Wr(s, x).buffer = Append(s.buffer, x)
         /\ ~ s.write => Wr(s, x) = s
<1>1. CASE s.write
  <2> DEFINE t == [s EXCEPT !.buffer = Append(@, x)]
  <2>1. Wr(s, x) = t
    BY <1>1 DEF Wr
  <2>2. DOMAIN t = Fields /\ t.buffer = Append(s.buffer, x) /\ \A f \in Fields \ {"buffer"} : t[f] = s[f]
    BY DEF Typed, Fields, NewStream
  <2> HIDE DEF t
  <2>3. AttributesOK(t)
    BY <2>2 DEF Typed, AttributesOK, Fields, NewStream
  <2>4. BufferOK(t)
    <3>1. IsSeq(s.buffer) /\ t.canvas = s.canvas /\ t.drawn = s.drawn
      BY <2>2 DEF Typed, BufferOK, Fields, NewStream
    <3>2. \A k \in 1..Len(t.buffer) : ItemOK(t.buffer[k])
      BY <2>2, <3>1, Longer DEF Typed, BufferOK
    <3> QED BY <2>2, <3>1, <3>2, Longer DEF Typed, BufferOK
  <2> QED BY <1>1, <2>1, <2>2, <2>3, <2>4 DEF Typed
<1>2. CASE ~ s.write
  BY <1>2 DEF Wr
<1> QED BY <1>1, <1>2

\* A change of attributes.
LEMMA PutTyped ==
  ASSUME NEW s, Typed(s), NEW t, DOMAIN t = Fields, AttributesOK(t),
         t.buffer = s.buffer, t.canvas = s.canvas, t.drawn = s.drawn
  PROVE  Typed(t)
BY DEF Typed, BufferOK

\* What the driver shows of a call.
LEMMA ShowTyped ==
  ASSUME NEW s, Typed(s), NEW mark
  PROVE  LET t == Show(s, mark)
         IN  /\ Typed(t) /\ t.canvas = Append(s.canvas, mark)
             /\ t.drawn = IF s.write THEN Append(s.drawn, mark) ELSE s.drawn
             /\ \A f \in Fields \ {"canvas", "drawn"} : t[f] = s[f]
<1> DEFINE t == Show(s, mark)
<1>1. /\ DOMAIN t = Fields /\ t.canvas = Append(s.canvas, mark)
      /\ t.drawn = IF s.write THEN Append(s.drawn, mark) ELSE s.drawn
      /\ \A f \in Fields \ {"canvas", "drawn"} : t[f] = s[f]
  BY DEF Typed, Fields, NewStream, Show
<1> HIDE DEF t
<1>2. AttributesOK(t)
  BY <1>1 DEF Typed, AttributesOK, Fields, NewStream
<1>3. BufferOK(t)
  <2>1. t.buffer = s.buffer /\ IsSeq(s.canvas) /\ IsSeq(s.drawn)
    BY <1>1 DEF Typed, BufferOK, Fields, NewStream
  <2>2. IsSeq(t.canvas) /\ IsSeq(t.drawn)
    BY <1>1, <2>1, Longer
  <2> QED BY <2>1, <2>2 DEF Typed, BufferOK
<1> QED BY <1>1, <1>2, <1>3 DEF Typed, t
\* What a setter of an attribute changes, whether it records or not: the fields
\* of its item and no other.
LEMMA SettersTyped ==
  ASSUME NEW s, Typed(s)
  PROVE  /\ \A map \in Map, i \in Index : Typed(Plcol(s, map, i))
         /\ \A map \in Map, i \in Index, c \in Colour : Typed(Plscol(s, map, i, c))
         /\ \A c \in Colour : Typed(Plscmap0Aborted(s, c))
         /\ \A w \in Width, lock \in BOOLEAN : Typed(Plwidth(s, w, lock))
         /\ \A h \in Height : Typed(Plschr(s, h)) /\ Typed(Plssym(s, h))
         /\ \A f \in Font : Typed(Plsfci(s, f))
<1> USE DEF Fields, NewStream
<1>1. ASSUME NEW map \in Map, NEW i \in Index PROVE Typed(Plcol(s, map, i))
  <2> DEFINE t == [s EXCEPT !.icol[map] = i, !.curcolor = s.cmap[map][i], !.curcmap = map]
             x == [op |-> "color", map |-> map, icol |-> i]
  <2>1. DOMAIN t = Fields /\ AttributesOK(t)
    BY DEF Typed, AttributesOK
  <2>2. t.buffer = s.buffer /\ t.canvas = s.canvas /\ t.drawn = s.drawn
    BY DEF Typed
  <2>3. ItemOK(x)
    BY DEF ItemOK
  <2>4. Plcol(s, map, i) = Wr(t, x)
    BY DEF Plcol
  <2> HIDE DEF t, x, Fields, NewStream
  <2> QED BY <2>1, <2>2, <2>3, <2>4, PutTyped, WrTyped
<1>2. ASSUME NEW map \in Map, NEW i \in Index, NEW c \in Colour
      PROVE  Typed(Plscol(s, map, i, c)) /\ Typed([s EXCEPT !.cmap[map][i] = c])
  <2> DEFINE t == [s EXCEPT !.cmap[map][i] = c]
             x == [op |-> "cmap", map |-> map, cmap |-> t.cmap[map]]
  <2>1. DOMAIN t = Fields /\ AttributesOK(t)
    BY DEF Typed, AttributesOK
  <2>2. t.buffer = s.buffer /\ t.canvas = s.canvas /\ t.drawn = s.drawn
    BY DEF Typed
  <2>3. Plscol(s, map, i, c) = Wr(t, x)
    BY DEF Plscol
  <2> HIDE DEF t, Fields, NewStream
  <2>4. ItemOK(x)
    BY <2>1 DEF ItemOK, AttributesOK
  <2> HIDE DEF x
  <2> QED BY <2>1, <2>2, <2>3, <2>4, PutTyped, WrTyped DEF t
<1>3. ASSUME NEW c \in Colour PROVE Typed(Plscmap0Aborted(s, c))
  BY <1>2, StreamAssumption DEF Plscmap0Aborted, Map
<1>4. ASSUME NEW w \in Width, NEW lock \in BOOLEAN PROVE Typed(Plwidth(s, w, lock))
  <2> DEFINE t == [s EXCEPT !.width = w]
  <2>1. Typed(t)
    BY DEF Typed, AttributesOK, BufferOK
  <2>2. ItemOK([op |-> "width", width |-> w])
    BY DEF ItemOK
  <2> HIDE DEF t, Fields, NewStream
  <2> QED BY <2>1, <2>2, WrTyped DEF Plwidth, t
<1>5. ASSUME NEW h \in Height PROVE Typed(Plschr(s, h)) /\ Typed(Plssym(s, h))
  <2> DEFINE t == [s EXCEPT !.chrht = h]
             u == [s EXCEPT !.symht = h]
  <2>1. Typed(t) /\ Typed(u)
    BY DEF Typed, AttributesOK, BufferOK
  <2>2. ItemOK([op |-> "chr", chrht |-> h]) /\ ItemOK([op |-> "sym", symht |-> h])
    BY DEF ItemOK
  <2> HIDE DEF t, u, Fields, NewStream
  <2> QED BY <2>1, <2>2, WrTyped DEF Plschr, Plssym, t, u
<1>6. ASSUME NEW f \in Font PROVE Typed(Plsfci(s, f))
  BY DEF Typed, AttributesOK, BufferOK, Plsfci
<1> HIDE DEF Fields, NewStream
<1> QED BY <1>1, <1>2, <1>3, <1>4, <1>5, <1>6

\* The orientation, with the coefficients that pldi_ini computes.
LEMMA PlsdioriTyped ==
  ASSUME NEW s, Typed(s), NEW rot \in Rotation
  PROVE  Typed(Plsdiori(s, rot))
<1> DEFINE a == [s EXCEPT !.ori = rot # 0, !.rot = rot]
           x == [op |-> "di", ori |-> rot # 0, rot |-> rot]
           t == Wr(a, x)
           u == [t EXCEPT !.coef = rot]
<1>1. Typed(a)
  BY DEF Typed, AttributesOK, BufferOK, Fields, NewStream
<1>2. ItemOK(x)
  BY DEF ItemOK
<1>3. Plsdiori(s, rot) = IF t.ori THEN u ELSE t
  BY DEF Plsdiori
<1> HIDE DEF a, x
<1>4. Typed(t)
  BY <1>1, <1>2, WrTyped
<1> HIDE DEF t
<1>5. Typed(u)
  BY <1>4 DEF Typed, AttributesOK, BufferOK, Fields, NewStream
<1> QED BY <1>3, <1>4, <1>5

\* The limits of a subpage, and the beginning of the first.
LEMMA SubpageTyped ==
  ASSUME NEW s, Typed(s)
  PROVE  /\ \A n \in 0..SubPages : Typed([s EXCEPT !.cursub = n])
         /\ Typed(Setsub(s)) /\ Typed(SubpInit(s))
<1>1. ASSUME NEW n \in 0..SubPages PROVE Typed([s EXCEPT !.cursub = n])
  BY DEF Typed, AttributesOK, BufferOK, Fields, NewStream
<1>2. Typed(Setsub(s))
  <2> DEFINE t == [s EXCEPT !.limits = s.cursub]
  <2>1. Typed(t)
    BY DEF Typed, AttributesOK, BufferOK, Fields, NewStream
  <2>2. ItemOK([op |-> "setsub", cursub |-> s.cursub])
    BY DEF ItemOK, Typed, AttributesOK
  <2> HIDE DEF t
  <2> QED BY <2>1, <2>2, WrTyped DEF Setsub, t
<1>3. Typed(SubpInit(s))
  <2> DEFINE a == [s EXCEPT !.cursub = 0]
             b == Plschr(a, 1)
  <2>1. 0 \in 0..SubPages /\ 1 \in Height
    BY StreamAssumption
  <2>2. Typed(a)
    BY <1>1, <2>1
  <2>3. SubpInit(s) = Plssym(b, 1)
    BY DEF SubpInit
  <2> HIDE DEF a
  <2>4. Typed(b)
    BY <2>1, <2>2, SettersTyped
  <2> HIDE DEF b
  <2> QED BY <2>1, <2>3, <2>4, SettersTyped
<1> QED BY <1>1, <1>2, <1>3

\* The start of a page: its record has the attributes of the stream.
LEMMA BopTyped ==
  ASSUME NEW s, Typed(s)
  PROVE  Typed(Bop(s)) /\ (s.status # "at_bop" => Paged(Bop(s)))
<1> DEFINE t    == SubpInit(s)
           mark == Mark("page", t.cmap[0][0], 0, 0, 0)
           u    == [t EXCEPT !.status = "at_bop", !.canvas = << mark >>]
           v    == [u EXCEPT !.buffer = << BopItem(u) >>, !.drawn = u.canvas]
<1>1. Typed(t) /\ t.status = s.status
  <2>1. Typed(t)
    BY SubpageTyped
  <2>2. t.status = s.status
    BY DEF SubpInit, Plssym, Plschr, Wr, Typed, Fields, NewStream
  <2> QED BY <2>1, <2>2
<1>2. Bop(s) = IF t.status = "at_bop" THEN t ELSE IF u.write THEN v ELSE u
  BY DEF Bop
<1>3. mark.kind = "page"
  BY DEF Mark
<1> HIDE DEF t, mark
<1>4. IsSeq(<< mark >>) /\ Len(<< mark >>) = 1 /\ << mark >>[1] = mark
  BY Single
<1>5. Typed(u) /\ u.canvas = << mark >>
  BY <1>1, <1>4 DEF Typed, AttributesOK, BufferOK, Status, Fields, NewStream
<1>6. Paged(u)
  BY <1>3, <1>4, <1>5 DEF Paged
<1> HIDE DEF u
<1> DEFINE x == BopItem(u)
<1>7. ItemOK(x)
  <2>1. x.op = "bop" /\ \A f \in Saved : x.saved[f] = u[f]
    BY DEF BopItem
  <2> HIDE DEF x
  <2> QED BY <1>5, <2>1 DEF ItemOK, Saved, Typed, AttributesOK
<1> HIDE DEF x
<1>8. /\ DOMAIN v = Fields /\ v.buffer = << x >> /\ v.drawn = u.canvas /\ v.canvas = u.canvas
      /\ \A f \in Fields \ {"buffer", "drawn"} : v[f] = u[f]
  BY <1>5 DEF Typed, Fields, NewStream, x
<1> HIDE DEF v
<1>9. AttributesOK(v)
  BY <1>5, <1>8 DEF Typed, AttributesOK, Fields, NewStream
<1>10. BufferOK(v)
  BY <1>5, <1>7, <1>8, Single DEF Typed, BufferOK
<1> QED BY <1>1, <1>2, <1>5, <1>6, <1>8, <1>9, <1>10 DEF Typed, Paged

\* What is shown is shown on the page.
LEMMA ShowPaged ==
  ASSUME NEW s, Typed(s), Paged(s), NEW mark
  PROVE  Paged(Show(s, mark))
<1>1. Show(s, mark).canvas = Append(s.canvas, mark)
  BY ShowTyped
<1> QED BY <1>1, Longer DEF Typed, BufferOK, Paged

\* A page's end.
LEMMA EopTyped ==
  ASSUME NEW s, Typed(s)
  PROVE  Typed(Eop(s)) /\ Eop(s).canvas = s.canvas /\ Eop(s).status = "at_eop"
         /\ Eop(s).drawn = s.drawn /\ Eop(s).cursub = s.cursub
<1> DEFINE t == [s EXCEPT !.status = "at_eop"]
<1>1. Typed(t) /\ t.canvas = s.canvas /\ t.status = "at_eop" /\ t.drawn = s.drawn /\ t.cursub = s.cursub
  BY DEF Typed, AttributesOK, BufferOK, Status, Fields, NewStream
<1>2. Eop(s) = IF s.status = "at_eop" THEN s ELSE Wr(t, [op |-> "eop"])
  BY DEF Eop
<1>3. ItemOK([op |-> "eop"])
  BY DEF ItemOK
<1> HIDE DEF t
<1>4. LET w == Wr(t, [op |-> "eop"]) IN Typed(w) /\ \A f \in Fields \ {"buffer"} : w[f] = t[f]
  BY <1>1, <1>3, WrTyped
<1> QED BY <1>1, <1>2, <1>4 DEF Fields, NewStream

\* The drawings: typed, and shown on the page.
LEMMA DrawTyped ==
  ASSUME NEW s, Typed(s)
  PROVE  /\ Typed(Line(s)) /\ Typed(HasText(s)) /\ Typed(Clear(s)) /\ Typed(Symbol(s))
         /\ Paged(s) => Paged(Line(s)) /\ Paged(HasText(s)) /\ Paged(Clear(s)) /\ Paged(Symbol(s))
<1>1. ASSUME NEW t, Typed(t), NEW x, ItemOK(x), NEW mark
      PROVE  LET d == Show(Wr(t, x), mark)
             IN  Typed(d) /\ (Paged(t) => Paged(d))
  <2> DEFINE w == Wr(t, x)
  <2>1. Typed(w) /\ w.canvas = t.canvas
    BY <1>1, WrTyped DEF Fields, NewStream
  <2> HIDE DEF w
  <2> QED BY <2>1, ShowTyped, ShowPaged DEF Paged, w
<1>2. Typed(Line(s)) /\ (Paged(s) => Paged(Line(s)))
  <2> DEFINE t    == [s EXCEPT !.status = "drawing"]
             x    == [op |-> "line"]
             mark == Mark("line", s.curcolor, s.width, 0, Turn(s))
  <2>1. Typed(t) /\ t.canvas = s.canvas
    BY DEF Typed, AttributesOK, BufferOK, Status, Fields, NewStream
  <2>2. ItemOK(x) /\ Line(s) = Show(Wr(t, x), mark)
    BY DEF ItemOK, Line
  <2> HIDE DEF t, x, mark
  <2> QED BY <1>1, <2>1, <2>2 DEF Paged
<1>3. ASSUME NEW t, Typed(t)
      PROVE  Typed(HasText(t)) /\ (Paged(t) => Paged(HasText(t)))
             /\ HasText(t).chrht = t.chrht
  <2> DEFINE x    == [op |-> "text", chrht |-> t.chrht, rot |-> t.rot, fci |-> t.fci]
             mark == Mark("text", t.curcolor, t.chrht, t.fci, << Turn(t), t.rot >>)
             w    == Wr(t, x)
  <2>1. ItemOK(x)
    BY <1>3 DEF ItemOK, Typed, AttributesOK
  <2>2. HasText(t) = Show(w, mark)
    BY DEF HasText
  <2> HIDE DEF x, mark
  <2>3. Typed(w) /\ w.chrht = t.chrht
    BY <1>3, <2>1, WrTyped DEF Fields, NewStream
  <2>4. Show(w, mark).chrht = w.chrht
    BY <2>3, ShowTyped DEF Fields, NewStream
  <2> QED BY <1>1, <1>3, <2>1, <2>2, <2>3, <2>4
<1>4. Typed(Clear(s)) /\ (Paged(s) => Paged(Clear(s)))
  <2>1. ItemOK([op |-> "clear"])
    BY DEF ItemOK
  <2> QED BY <1>1, <2>1 DEF Clear
<1>5. Typed(Symbol(s)) /\ (Paged(s) => Paged(Symbol(s)))
  <2> DEFINE a == [s EXCEPT !.chrht = s.symht]
             b == HasText(a)
             c == [b EXCEPT !.chrht = s.chrht]
  <2>1. Typed(a) /\ a.canvas = s.canvas
    BY DEF Typed, AttributesOK, BufferOK, Fields, NewStream
  <2>2. Symbol(s) = c
    BY DEF Symbol
  <2> HIDE DEF a
  <2>3. Typed(b) /\ (Paged(a) => Paged(b))
    BY <1>3, <2>1
  <2> HIDE DEF b
  <2>4. Typed(c) /\ c.canvas = b.canvas
    BY <2>3 DEF Typed, AttributesOK, BufferOK, Fields, NewStream
  <2> HIDE DEF c
  <2> QED BY <2>1, <2>2, <2>3, <2>4 DEF Paged
<1> QED BY <1>2, <1>3, <1>4, <1>5

\* The subpage, behind what was done before.
LEMMA PagePaged ==
  ASSUME NEW s, Typed(s), NEW n \in 0..SubPages
  PROVE  LET t == Setsub([s EXCEPT !.cursub = n])
         IN  Typed(t) /\ (Paged(s) => Paged(t))
<1> DEFINE a == [s EXCEPT !.cursub = n]
           b == [a EXCEPT !.limits = a.cursub]
           x == [op |-> "setsub", cursub |-> a.cursub]
<1>1. Typed(a) /\ Typed(Setsub(a))
  BY SubpageTyped
<1>2. a.canvas = s.canvas /\ b.canvas = s.canvas /\ Setsub(a) = Wr(b, x)
  BY DEF Typed, Fields, NewStream, Setsub
<1> HIDE DEF a, b, x
<1>3. Wr(b, x).canvas = b.canvas
  <2>1. Setsub(a).canvas = a.canvas
    BY <1>1 DEF Setsub, Wr, Typed, Fields, NewStream
  <2> QED BY <1>2, <2>1
<1> QED BY <1>1, <1>2, <1>3 DEF Paged, a

\* The setters show nothing.
LEMMA SettersPaged ==
  ASSUME NEW s, Typed(s), Paged(s)
  PROVE  /\ \A map, i : Paged(Plcol(s, map, i))
         /\ \A map, i, c : Paged(Plscol(s, map, i, c))
         /\ \A c : Paged(Plscmap0Aborted(s, c))
         /\ \A x, lock : Paged(Plwidth(s, x, lock))
         /\ \A x : Paged(Plschr(s, x)) /\ Paged(Plssym(s, x))
                   /\ Paged(Plsfci(s, x)) /\ Paged(Plsdiori(s, x))
         /\ Paged(SubpInit(s))
<1> USE DEF Typed, Fields, NewStream, Paged, Wr
<1>1. \A map, i : Plcol(s, map, i).canvas = s.canvas
  BY DEF Plcol
<1>2. \A map, i, c : Plscol(s, map, i, c).canvas = s.canvas
  BY DEF Plscol
<1>3. \A c : Plscmap0Aborted(s, c).canvas = s.canvas
  BY DEF Plscmap0Aborted
<1>4. \A x : /\ \A lock : Plwidth(s, x, lock).canvas = s.canvas
             /\ Plschr(s, x).canvas = s.canvas
             /\ Plssym(s, x).canvas = s.canvas /\ Plsfci(s, x).canvas = s.canvas
  BY DEF Plwidth, Plschr, Plssym, Plsfci
<1>5. \A x : Plsdiori(s, x).canvas = s.canvas
  BY DEF Plsdiori
<1>6. SubpInit(s).canvas = s.canvas
  BY DEF SubpInit, Plssym, Plschr
<1> HIDE DEF Typed, Fields, NewStream, Wr
<1> QED BY <1>1, <1>2, <1>3, <1>4, <1>5, <1>6

\* A page that begins is shown, or has begun already.
LEMMA BopPaged ==
  ASSUME NEW s, Typed(s), Paged(s)
  PROVE  Paged(Bop(s))
<1>1. CASE s.status = "at_bop"
  <2>1. SubpInit(s).status = s.status
    BY DEF SubpInit, Plssym, Plschr, Wr, Typed, Fields, NewStream
  <2> QED BY <1>1, <2>1, SettersPaged DEF Bop
<1> QED BY <1>1, BopTyped

\* The calls on pages.
LEMMA PagesTyped ==
  ASSUME NEW s, Typed(s), Paged(s)
  PROVE  /\ Typed(Plbop(s)) /\ Paged(Plbop(s))
         /\ Typed(Pleop(s)) /\ Paged(Pleop(s))
         /\ Typed(Pladv(s)) /\ Paged(Pladv(s))
<1>1. 1 \in 0..SubPages /\ SubPages \in 0..SubPages /\ SubPages \in Nat
  BY StreamAssumption
<1>2. Typed(Plbop(s)) /\ Paged(Plbop(s))
  BY <1>1, BopTyped, BopPaged, PagePaged DEF Plbop
<1>3. Typed(Pleop(s)) /\ Paged(Pleop(s))
  <2> DEFINE a == [s EXCEPT !.cursub = SubPages]
  <2>1. Typed(a) /\ a.canvas = s.canvas
    BY <1>1, SubpageTyped DEF Typed, Fields, NewStream
  <2> HIDE DEF a
  <2> QED BY <2>1, EopTyped DEF Pleop, Paged, a
<1>4. CASE s.cursub >= SubPages
  <2>1. Typed(Bop(Eop(s))) /\ Paged(Bop(Eop(s)))
    BY EopTyped, BopTyped
  <2>2. Pladv(s) = Setsub([Bop(Eop(s)) EXCEPT !.cursub = 1])
    BY <1>4 DEF Pladv
  <2> QED BY <1>1, <1>2, <1>3, <2>1, <2>2, PagePaged
<1>5. CASE ~ (s.cursub >= SubPages)
  <2> DEFINE n == s.cursub + 1
  <2>1. n \in 0..SubPages
    BY <1>1, <1>5 DEF Typed, AttributesOK
  <2>2. Pladv(s) = Setsub([s EXCEPT !.cursub = n])
    BY <1>5 DEF Pladv
  <2> HIDE DEF n
  <2> QED BY <1>2, <1>3, <2>1, <2>2, PagePaged
<1> QED BY <1>2, <1>3, <1>4, <1>5

\* A new stream has its type; no page has begun on it.
LEMMA NewTyped == Typed(NewStream(TRUE))
<1> DEFINE n == NewStream(TRUE)
<1>1. AttributesOK(n)
  BY StreamAssumption DEF AttributesOK, NewStream, Map, Status
<1>2. << >> \in Seq({}) /\ Len(<< >>) = 0
  BY EmptySeq
<1>3. IsSeq(<< >>)
  BY ONLY <1>2 DEF IsSeq
<1>4. n.buffer = << >> /\ n.canvas = << >> /\ n.drawn = << >>
  BY DEF NewStream
<1> HIDE DEF n
<1>5. 1..Len(n.buffer) = {}
  <2>1. Len(n.buffer) = 0
    BY <1>2, <1>4, Zenon
  <2> QED BY <2>1
<1>6. BufferOK(n)
  BY <1>3, <1>4, <1>5, Zenon DEF BufferOK
<1> QED BY <1>1, <1>6 DEF Typed, Fields, n

\* A new stream has begun its first page.
LEMMA PlinitTyped == Typed(Plinit(TRUE)) /\ Paged(Plinit(TRUE))
<1> DEFINE n == NewStream(TRUE)
           b == SubpInit(Bop(n))
           c == Plcol(b, 0, 1)
<1>1. Typed(n) /\ n.status # "at_bop"
  BY NewTyped DEF NewStream
<1>2. Plinit(TRUE) = Plsdiori(c, 0)
  BY DEF Plinit
<1> HIDE DEF n
<1>3. Typed(Bop(n)) /\ Paged(Bop(n))
  BY <1>1, BopTyped
<1>4. Typed(b) /\ Paged(b)
  BY <1>3, SubpageTyped, SettersPaged
<1>5. 0 \in Map /\ 1 \in Index /\ 0 \in Rotation
  BY StreamAssumption DEF Map
<1> HIDE DEF b
<1>6. Typed(c) /\ Paged(c)
  BY <1>4, <1>5, SettersTyped, SettersPaged
<1> HIDE DEF c
<1> QED BY <1>2, <1>5, <1>6, PlsdioriTyped, SettersPaged

\* A record that is read gives the stream values that it had when it was written.
LEMMA ControlTyped ==
  ASSUME NEW s, Typed(s), Paged(s), NEW x, ItemOK(x)
  PROVE  Typed(Control(s, x)) /\ Paged(Control(s, x))
<1> USE DEF Control
<1>1. CASE x.op = "bop"
  <2> DEFINE t == [f \in DOMAIN s |-> IF f \in Saved THEN x.saved[f] ELSE s[f]]
  <2>1. Typed(t) /\ t.canvas = s.canvas
    BY <1>1 DEF Typed, AttributesOK, BufferOK, ItemOK, Saved, Fields, NewStream
  <2> HIDE DEF t
  <2>2. Paged(t)
    BY <2>1 DEF Paged
  <2> QED BY <1>1, <2>1, <2>2, BopTyped, BopPaged DEF RdBop, t
<1>2. CASE x.op = "line"
  BY <1>2, DrawTyped
<1>3. CASE x.op = "text"
  <2> DEFINE t == [s EXCEPT !.chrht = x.chrht, !.rot = x.rot, !.fci = x.fci]
  <2>1. Typed(t) /\ t.canvas = s.canvas
    BY <1>3 DEF Typed, AttributesOK, BufferOK, ItemOK, Fields, NewStream
  <2> HIDE DEF t
  <2> QED BY <1>3, <2>1, DrawTyped DEF RdText, Paged, t
<1>4. CASE x.op = "clear"
  BY <1>4, DrawTyped
<1>5. CASE x.op = "di"
  BY <1>5, PlsdioriTyped, SettersPaged DEF RdDi, ItemOK
<1>6. CASE x.op = "setsub"
  BY <1>6, PagePaged DEF RdSetsub, ItemOK
<1>7. CASE x.op = "color"
  BY <1>7, SettersTyped, SettersPaged DEF RdState, ItemOK
<1>8. CASE x.op \in {"cmap", "width", "chr", "sym"}
  <2> DEFINE t == RdState(s, x)
  <2>1. DOMAIN t = Fields /\ t.buffer = s.buffer /\ t.canvas = s.canvas /\ t.drawn = s.drawn
    BY <1>8 DEF RdState, Typed, Fields, NewStream
  <2>2. AttributesOK(t)
    BY <1>8 DEF RdState, Typed, AttributesOK, ItemOK, Fields, NewStream
  <2>3. Control(s, x) = t
    BY <1>8
  <2> HIDE DEF t
  <2> QED BY <2>1, <2>2, <2>3, PutTyped DEF Paged
<1>9. CASE x.op \notin {"bop", "line", "text", "clear", "di", "setsub",
                        "color", "cmap", "width", "chr", "sym"}
  BY <1>9
<1> QED BY <1>1, <1>2, <1>3, <1>4, <1>5, <1>6, <1>7, <1>8, <1>9

-----------------------------------------------------------------------------
(* The invariant of types: between any two steps every stream has its type *)
(* and shows a page, and a replay is somewhere in the buffer that it reads.*)

Playing == replay.on =>
  /\ replay.readpos \in 0..Len(stream[replay.pls].buffer)
  /\ replay.write \in BOOLEAN /\ replay.cursub \in 0..SubPages

StreamsOK == \A p \in program.streams : Typed(stream[p]) /\ Paged(stream[p])
TypesInv  == Reading /\ Playing /\ StreamsOK

\* The calls of the program keep the type.
LEMMA ProgramTyped ==
  ASSUME Typed(current), Paged(current), ChangeState \/ Draw \/ Page
  PROVE  \E after : Typed(after) /\ Paged(after) /\ Call(after)
<1> HIDE DEF current
<1>1. CASE ChangeState
  <2> DEFINE lock == plsc \in program.widthlock
  <2>1. lock \in BOOLEAN
    OBVIOUS
  <2>2. CASE \E w \in Width : Makes("plwidth", Plwidth(current, w, lock))
    <3> HIDE DEF lock
    <3> QED BY <2>1, <2>2, SettersTyped, SettersPaged DEF Makes
  <2>3. CASE ~ \E w \in Width : Makes("plwidth", Plwidth(current, w, lock))
    BY <1>1, <2>3, SettersTyped, SettersPaged, PlsdioriTyped DEF ChangeState, Makes
  <2> QED BY <2>2, <2>3
<1>2. CASE Draw
  BY <1>2, DrawTyped DEF Draw, Makes
<1>3. CASE Page
  BY <1>3, PagesTyped DEF Page, Makes
<1> QED BY <1>1, <1>2, <1>3

\* All streams have their types at first.
LEMMA TypesInit == Init => TypesInv
<1> SUFFICES ASSUME Init PROVE TypesInv
  OBVIOUS
<1>1. ~ replay.on /\ \A p \in program.streams : stream[p] = Plinit(TRUE)
  BY DEF Init, Idle
<1>2. StreamsOK /\ Playing
  BY <1>1, PlinitTyped DEF StreamsOK, Playing
<1> QED BY <1>2, ReadingInit DEF TypesInv

\* The record at readpos, which a replay reads next.
LEMMA NextItem ==
  ASSUME TypesInv, ReplayItem
  PROVE  LET s == stream[replay.pls]
             x == s.buffer[replay.readpos + 1]
         IN  /\ Typed(s) /\ Paged(s) /\ ItemOK(x) /\ ~ s.write
             /\ replay.readpos + 1 \in 1..Len(s.buffer)
             /\ stream' = [stream EXCEPT ![replay.pls] = Control(s, x)]
             /\ replay' = [replay EXCEPT !.readpos = replay.readpos + 1]
             /\ Control(s, x).buffer = s.buffer /\ ~ Control(s, x).write
<1> DEFINE s == stream[replay.pls]
           n == replay.readpos + 1
           x == s.buffer[n]
<1>1. replay.on /\ replay.pls \in program.streams /\ plsc = replay.pls
  BY DEF TypesInv, Reading, Located, Local, ReplayItem
<1>2. Typed(s) /\ Paged(s) /\ ~ s.write
  BY <1>1 DEF TypesInv, StreamsOK, Reading, ReplayReadsOnly
<1>3. stream' = [stream EXCEPT ![replay.pls] = Control(s, x)]
  BY <1>1 DEF ReplayItem
<1>4. replay' = [replay EXCEPT !.readpos = n]
  BY DEF ReplayItem
<1>5. n \in 1..Len(s.buffer)
  <2> DEFINE l == Len(s.buffer)
  <2>1. l \in Nat
    BY <1>2, Longer DEF Typed, BufferOK
  <2>2. replay.readpos \in 0..l /\ replay.readpos < l
    BY <1>1 DEF TypesInv, Playing, ReplayItem
  <2> HIDE DEF l
  <2>3. n \in 1..l
    BY <2>1, <2>2
  <2> QED BY <2>3 DEF l
<1> HIDE DEF n
<1>6. ItemOK(x)
  BY <1>2, <1>5 DEF Typed, BufferOK
<1> HIDE DEF x
<1>7. Kept(s, Control(s, x))
  BY <1>1, ControlKeeps DEF TypesInv, Reading, AllBuffered
<1> QED BY <1>2, <1>3, <1>4, <1>5, <1>6, <1>7 DEF x, n, Kept

\* Every action keeps them.
LEMMA TypesStep == TypesInv /\ [Next]_vars => TypesInv'
<1> SUFFICES ASSUME TypesInv, [Next]_vars PROVE TypesInv'
  OBVIOUS
<1>1. Reading' /\ Located'
  BY ReadingStep DEF TypesInv, Reading
<1>2. CASE ChangeState \/ Draw \/ Page
  <2>1. Typed(current) /\ Paged(current)
    BY DEF TypesInv, Reading, Located, StreamsOK, current
  <2>2. PICK after : Typed(after) /\ Paged(after) /\ Call(after)
    BY <1>2, <2>1, ProgramTyped
  <2>3. StreamsOK'
    BY <2>2 DEF TypesInv, Reading, Located, StreamsOK, Call
  <2>4. Playing'
    BY <2>2 DEF Call, Playing
  <2> QED BY <1>1, <2>3, <2>4 DEF TypesInv
<1>3. CASE Plsstrm
  BY <1>1, <1>3 DEF Plsstrm, TypesInv, Playing, StreamsOK
<1>4. CASE PlRemakePlot
  <2>1. PICK p \in program.streams :
          /\ replay' = [on |-> TRUE, pls |-> p, plsc |-> plsc, write |-> stream[p].write,
                        cursub |-> stream[p].cursub, readpos |-> 0, before |-> stream]
          /\ stream' = [stream EXCEPT ![p].write = FALSE]
          /\ program' = program
    BY <1>4 DEF PlRemakePlot
  <2> DEFINE t == [stream[p] EXCEPT !.write = FALSE]
  <2>2. stream' = [stream EXCEPT ![p] = t] /\ Typed(stream[p]) /\ Paged(stream[p])
    BY <2>1 DEF TypesInv, StreamsOK
  <2>3. Typed(t) /\ Paged(t)
    BY <2>2 DEF Typed, AttributesOK, BufferOK, Paged, Fields, NewStream
  <2>4. stream[p].write \in BOOLEAN /\ stream[p].cursub \in 0..SubPages
    BY <2>2 DEF Typed, AttributesOK
  <2>5. Len(t.buffer) \in Nat
    BY <2>3, Longer DEF Typed, BufferOK
  <2> HIDE DEF t
  <2>6. StreamsOK'
    BY <2>1, <2>2, <2>3 DEF TypesInv, Reading, Located, StreamsOK
  <2>7. stream'[p] = t /\ replay'.pls = p /\ replay'.readpos = 0
        /\ replay'.write = stream[p].write /\ replay'.cursub = stream[p].cursub
    BY <2>1, <2>2 DEF TypesInv, Reading, Located
  <2>8. Playing'
    BY <2>4, <2>5, <2>7 DEF Playing
  <2> QED BY <1>1, <2>6, <2>8 DEF TypesInv
<1>5. CASE ReplayItem
  <2> DEFINE s == stream[replay.pls]
             x == s.buffer[replay.readpos + 1]
             c == Control(s, x)
             n == replay.readpos + 1
  <2>1. /\ Typed(s) /\ Paged(s) /\ ItemOK(x) /\ ~ s.write
        /\ n \in 1..Len(s.buffer)
        /\ stream' = [stream EXCEPT ![replay.pls] = c]
        /\ replay' = [replay EXCEPT !.readpos = n]
        /\ c.buffer = s.buffer
    BY <1>5, NextItem
  <2> HIDE DEF x
  <2>2. Typed(c) /\ Paged(c)
    BY <2>1, ControlTyped
  <2>3. /\ replay.on /\ replay.pls \in program.streams /\ program' = program
        /\ DOMAIN replay = {"on", "pls", "plsc", "write", "cursub", "readpos", "before"}
        /\ DOMAIN stream = program.streams
    BY <1>5 DEF TypesInv, Reading, Located, Local, ReplayItem
  <2> HIDE DEF c, n
  <2>4. StreamsOK'
    BY <2>1, <2>2, <2>3 DEF TypesInv, StreamsOK
  <2>5. /\ stream'[replay'.pls].buffer = s.buffer /\ replay'.readpos = n
        /\ replay'.write = replay.write /\ replay'.cursub = replay.cursub
    BY <2>1, <2>3
  <2>6. n \in 0..Len(s.buffer)
    <3> DEFINE l == Len(s.buffer)
    <3>1. n \in 1..l
      BY <2>1
    <3> HIDE DEF l
    <3>2. n \in 0..l
      BY <3>1
    <3> QED BY <3>2 DEF l
  <2>7. Playing'
    BY <2>3, <2>5, <2>6 DEF TypesInv, Playing
  <2> QED BY <1>1, <2>4, <2>7 DEF TypesInv
<1>6. CASE ReplayEnd
  <2> DEFINE s == stream[replay.pls]
             t == [s EXCEPT !.write = replay.write, !.cursub = replay.cursub]
  <2>1. replay.on /\ replay.pls \in program.streams
        /\ replay.write \in BOOLEAN /\ replay.cursub \in 0..SubPages
    BY <1>6 DEF ReplayEnd, TypesInv, Reading, Located, Local, Playing
  <2>2. Typed(s) /\ Paged(s) /\ DOMAIN stream = program.streams
    BY <2>1 DEF TypesInv, StreamsOK, Reading, Located
  <2>3. Typed(t) /\ Paged(t)
    BY <2>1, <2>2 DEF Typed, AttributesOK, BufferOK, Paged, Fields, NewStream
  <2>4. stream' = [stream EXCEPT ![replay.pls] = t] /\ program' = program /\ ~ replay'.on
    BY <1>6, <2>2 DEF ReplayEnd, Idle
  <2> HIDE DEF t
  <2>5. StreamsOK' /\ Playing'
    BY <2>1, <2>2, <2>3, <2>4 DEF TypesInv, StreamsOK, Playing
  <2> QED BY <1>1, <2>5 DEF TypesInv
<1>7. CASE UNCHANGED vars
  BY <1>1, <1>7 DEF vars, TypesInv, Playing, StreamsOK
<1> QED BY <1>2, <1>3, <1>4, <1>5, <1>6, <1>7 DEF Next

\* Between any two steps the streams have their types, and a replay its place.
THEOREM TypesInvariant == Spec => []TypesInv
BY TypesInit, TypesStep, PTL DEF Spec

\* plbuf_control gives a stream only values that an attribute may have, and a
\* replay does not read beyond the buffer's end: a page is always shown.
THEOREM TypeHolds == Spec => []TypeOK
<1>1. TypesInv => TypeOK
  BY DEF TypesInv, Reading, Located, Playing, StreamsOK, Typed, AttributesOK, Paged, TypeOK, StreamOK
<1> QED BY <1>1, TypesInvariant, PTL

-----------------------------------------------------------------------------
(* What a buffer tells.  A page's beginning and the records behind it make *)
(* a history: what the attributes and the picture are after each record.   *)
(* Limits 0 are those of which no record tells.                            *)

Begun(saved) ==
  [cmap |-> saved.cmap, icol |-> saved.icol, curcolor |-> saved.curcolor,
   curcmap |-> saved.curcmap, width |-> saved.width, symht |-> 1, limits |-> 0,
   canvas |-> << Mark("page", saved.cmap[0][0], 0, 0, 0) >>]

\* What a record adds to the picture, drawn with the attributes of x.
Picture(x, i) ==
  CASE i.op = "line"  -> Append(x.canvas, Mark("line", x.curcolor, x.width, 0, 0))
    [] i.op = "text"  -> Append(x.canvas, Mark("text", x.curcolor, i.chrht, i.fci, << 0, i.rot >>))
    [] i.op = "clear" -> Append(x.canvas, Mark("clear", x.cmap[0][0], x.limits, 0, 0))
    [] OTHER -> x.canvas

After(x, i) ==
  [cmap     |-> IF i.op = "cmap" THEN [x.cmap EXCEPT ![i.map] = i.cmap] ELSE x.cmap,
   icol     |-> IF i.op = "color" THEN [x.icol EXCEPT ![i.map] = i.icol] ELSE x.icol,
   curcolor |-> IF i.op = "color" THEN x.cmap[i.map][i.icol] ELSE x.curcolor,
   curcmap  |-> IF i.op = "color" THEN i.map ELSE x.curcmap,
   width    |-> IF i.op = "width" THEN i.width ELSE x.width,
   symht    |-> IF i.op = "sym" THEN i.symht ELSE x.symht,
   limits   |-> IF i.op = "setsub" THEN i.cursub ELSE x.limits,
   canvas   |-> Picture(x, i)]

\* The records a page may have behind its beginning.
Follows(i) == i.op # "bop" /\ (i.op = "di" => i.ori = FALSE) /\ (i.op = "setsub" => i.cursub # 0)

\* h is the history of buffer b.
Told(b, h) ==
  /\ Len(b) > 0 /\ b[1].op = "bop" /\ b[1].saved.ori = FALSE /\ h[1] = Begun(b[1].saved)
  /\ \A k \in 1..Len(b) : IsSeq(h[k].canvas)
  /\ \A k \in 2..Len(b) : Follows(b[k]) /\ h[k] = After(h[k - 1], b[k])

\* A stream's attributes are those of a history's end, but for the limits.
Same(s, x) ==
  /\ s.cmap = x.cmap /\ s.icol = x.icol /\ s.curcolor = x.curcolor /\ s.curcmap = x.curcmap
  /\ s.width = x.width /\ s.symht = x.symht

\* The stream is where the history of its buffer ends, and the program drew
\* what the history draws.
Tells(s, h) ==
  /\ Told(s.buffer, h) /\ Same(s, h[Len(s.buffer)]) /\ s.drawn = h[Len(s.buffer)].canvas
  /\ s.ori = FALSE /\ s.write = TRUE /\ s.canvas[1] = Mark("page", s.buffer[1].saved.cmap[0][0], 0, 0, 0)
Entire(s, h) == Tells(s, h) /\ s.limits = h[Len(s.buffer)].limits

\* A replay of old, before which x is the last record's place in the history.
InSub(c) == \A i \in DOMAIN c : c[i].kind = "clear" => c[i].size # 0
Agrees(r, x, old) ==
  /\ Same(r, x) /\ r.ori = FALSE /\ r.drawn = old.drawn
  /\ r.limits = IF x.limits = 0 THEN old.limits ELSE x.limits
  /\ r.canvas[1] = old.canvas[1]
  /\ Begins(old) /\ InSub(x.canvas) => r.canvas = x.canvas
Midway(r, k, h, old) ==
  IF k = 0 THEN r = [old EXCEPT !.write = FALSE] ELSE Agrees(r, h[k], old)

\* The next record's place in the history of the records before it.
LEMMA ToldMore ==
  ASSUME NEW b, IsSeq(b), NEW h, Told(b, h), NEW i, Follows(i)
  PROVE  \E g : Told(Append(b, i), g) /\ g[Len(Append(b, i))] = After(h[Len(b)], i)
<1> DEFINE n == Len(b)
           c == Append(b, i)
           g == [k \in 1..n + 1 |-> IF k = n + 1 THEN After(h[n], i) ELSE h[k]]
<1>1. n \in Nat /\ Len(c) = n + 1 /\ c[n + 1] = i /\ \A k \in 1..n : c[k] = b[k]
  BY Longer
<1>2. n > 0 /\ b[1].op = "bop" /\ b[1].saved.ori = FALSE /\ h[1] = Begun(b[1].saved)
  BY DEF Told
<1>3. \A k \in 2..n : Follows(b[k]) /\ h[k] = After(h[k - 1], b[k])
  BY DEF Told
<1> HIDE DEF n, c
<1>4. \A k \in 1..n : g[k] = h[k]
  BY <1>1
<1>5. g[n + 1] = After(h[n], i)
  BY <1>1
<1> HIDE DEF g
<1>6. Len(c) > 0 /\ c[1].op = "bop" /\ c[1].saved.ori = FALSE /\ g[1] = Begun(c[1].saved)
  <2>1. 1 \in 1..n
    BY <1>1, <1>2
  <2>2. c[1] = b[1] /\ g[1] = h[1]
    BY <1>1, <1>4, <2>1
  <2> QED BY <1>1, <1>2, <2>2
<1>7. ASSUME NEW k \in 2..Len(c) PROVE Follows(c[k]) /\ g[k] = After(g[k - 1], c[k])
  <2>1. CASE k = n + 1
    <3>1. k - 1 = n /\ n \in 1..n
      BY <1>1, <1>2, <2>1
    <3> QED BY <1>1, <1>4, <1>5, <2>1, <3>1
  <2>2. CASE k # n + 1
    <3>1. k \in 2..n /\ k \in 1..n /\ k - 1 \in 1..n
      BY <1>1, <2>2
    <3> QED BY <1>1, <1>3, <1>4, <3>1
  <2> QED BY <2>1, <2>2
<1>8. \A k \in 1..Len(c) : IsSeq(g[k].canvas)
  <2>1. \A k \in 1..n : IsSeq(g[k].canvas)
    BY <1>4 DEF Told, n
  <2>2. IsSeq(h[n].canvas)
    BY <1>1, <1>2 DEF Told, n
  <2>3. IsSeq(After(h[n], i).canvas)
    BY <2>2, Longer DEF After, Picture
  <2> QED BY <1>1, <1>5, <2>1, <2>3
<1>9. Told(c, g) /\ g[Len(c)] = After(h[n], i)
  BY <1>1, <1>5, <1>6, <1>7, <1>8 DEF Told
<1> QED BY <1>9 DEF n, c

\* t is s, where the history ends with x, with a change that record i tells of.
Retold(s, h, x, t, i) ==
  /\ Typed(s) /\ Paged(s) /\ Tells(s, h) /\ x = h[Len(s.buffer)]
  /\ Typed(t) /\ t.buffer = s.buffer /\ t.canvas = s.canvas /\ t.drawn = s.drawn
  /\ Same(t, After(x, i)) /\ t.limits = After(x, i).limits /\ t.ori = FALSE /\ t.write = TRUE
  /\ ItemOK(i) /\ Follows(i)

\* A stream that records its change.
LEMMA WrEntire ==
  ASSUME NEW s, NEW h, NEW x, NEW t, NEW i, Retold(s, h, x, t, i), After(x, i).canvas = x.canvas
  PROVE  \E g : Entire(Wr(t, i), g)
<1> DEFINE n == Len(s.buffer)
           w == Wr(t, i)
           y == After(x, i)
<1>1. w.buffer = Append(s.buffer, i) /\ \A f \in Fields \ {"buffer"} : w[f] = t[f]
  BY WrTyped DEF Retold
<1>2. IsSeq(s.buffer) /\ Told(s.buffer, h)
  BY DEF Retold, Typed, BufferOK, Tells
<1>3. PICK g : Told(w.buffer, g) /\ g[Len(w.buffer)] = y
  BY <1>1, <1>2, ToldMore DEF Retold
<1>4. Same(t, y) /\ t.limits = y.limits /\ s.drawn = y.canvas /\ t.ori = FALSE /\ t.write = TRUE /\ t.drawn = s.drawn /\ t.canvas = s.canvas
  BY DEF Retold, Tells
<1>5. w.buffer[1] = s.buffer[1]
  <2>1. n > 0 /\ n \in Nat
    BY <1>2, Longer DEF Told
  <2>2. 1 \in 1..n
    BY <2>1
  <2> QED BY <1>1, <1>2, <2>2, Longer
<1> HIDE DEF w, y, n
<1>6. w.canvas[1] = Mark("page", w.buffer[1].saved.cmap[0][0], 0, 0, 0)
  BY <1>1, <1>5 DEF Retold, Tells, Fields, NewStream
<1>7. Same(w, y) /\ w.limits = y.limits /\ w.drawn = y.canvas /\ w.ori = FALSE /\ w.write = TRUE
  BY <1>1, <1>4 DEF Same, Fields, NewStream
<1> QED BY <1>3, <1>6, <1>7 DEF Entire, Tells, w

\* A drawing of s, which the next record tells of.
LEMMA ShowEntire ==
  ASSUME NEW s, NEW h, NEW x, NEW t, NEW i, Retold(s, h, x, t, i), NEW mark,
         After(x, i).canvas = Append(x.canvas, mark)
  PROVE  \E g : Entire(Show(Wr(t, i), mark), g)
<1> DEFINE n == Len(s.buffer)
           w == Wr(t, i)
           v == Show(w, mark)
           y == After(x, i)
<1>1. Typed(w) /\ w.buffer = Append(s.buffer, i) /\ \A f \in Fields \ {"buffer"} : w[f] = t[f]
  BY WrTyped DEF Retold
<1>2. IsSeq(s.buffer) /\ Told(s.buffer, h) /\ IsSeq(s.canvas) /\ Len(s.canvas) > 0
  BY DEF Retold, Typed, BufferOK, Tells, Paged
<1>3. PICK g : Told(w.buffer, g) /\ g[Len(w.buffer)] = y
  BY <1>1, <1>2, ToldMore DEF Retold
<1>4. /\ Same(t, y) /\ t.limits = y.limits /\ Append(s.drawn, mark) = y.canvas
      /\ t.ori = FALSE /\ t.write = TRUE /\ t.drawn = s.drawn /\ t.canvas = s.canvas
      /\ s.canvas[1] = Mark("page", s.buffer[1].saved.cmap[0][0], 0, 0, 0)
  BY DEF Retold, Tells
<1>5. w.buffer[1] = s.buffer[1]
  <2>1. n > 0 /\ n \in Nat
    BY <1>2, Longer DEF Told
  <2>2. 1 \in 1..n
    BY <2>1
  <2> QED BY <1>1, <1>2, <2>2, Longer
<1>6. Append(s.canvas, mark)[1] = s.canvas[1]
  <2> DEFINE l == Len(s.canvas)
  <2>1. l > 0 /\ l \in Nat
    BY <1>2, Longer
  <2> HIDE DEF l
  <2>2. 1 \in 1..l
    BY <2>1
  <2> QED BY <1>2, <2>2, Longer DEF l
<1> HIDE DEF w, y, n
<1>7. /\ v.canvas = Append(w.canvas, mark) /\ v.drawn = IF w.write THEN Append(w.drawn, mark) ELSE w.drawn
      /\ \A f \in Fields \ {"canvas", "drawn"} : v[f] = w[f]
  BY <1>1, ShowTyped
<1>8. w.canvas = s.canvas /\ w.drawn = s.drawn /\ w.write = TRUE /\ w.ori = FALSE /\ v.buffer = w.buffer
  BY <1>1, <1>4, <1>7 DEF Fields, NewStream
<1> HIDE DEF v
<1>9. v.canvas[1] = Mark("page", v.buffer[1].saved.cmap[0][0], 0, 0, 0)
  BY <1>4, <1>5, <1>6, <1>7, <1>8
<1>10. Same(v, y) /\ v.limits = y.limits
  BY <1>1, <1>4, <1>7 DEF Same, Fields, NewStream
<1>11. v.drawn = y.canvas /\ v.ori = FALSE /\ v.write = TRUE
  BY <1>4, <1>7, <1>8 DEF Fields, NewStream
<1> QED BY <1>3, <1>8, <1>9, <1>10, <1>11 DEF Entire, Tells, v, w

\* A change of the stream that the buffer need not know.
LEMMA QuietEntire ==
  ASSUME NEW s, NEW h, Entire(s, h), NEW t,
         \A f \in Fields \ {"chrht", "fci", "cursub", "status"} : t[f] = s[f]
  PROVE  Entire(t, h)
BY DEF Entire, Tells, Same, Fields, NewStream

\* The program's setters, but for those that a replay does not follow.
LEMMA SettersEntire ==
  ASSUME NEW s, Typed(s), Paged(s), NEW h, Entire(s, h)
  PROVE  /\ \A map \in Map, i \in Index : \E g : Entire(Plcol(s, map, i), g)
         /\ \A map \in Map, i \in Index, c \in Colour : \E g : Entire(Plscol(s, map, i, c), g)
         /\ \A w \in Width : \E g : Entire(Plwidth(s, w, FALSE), g)
         /\ \A x \in Height : \E g : Entire(Plschr(s, x), g)
         /\ \A x \in Height : \E g : Entire(Plssym(s, x), g)
         /\ \A f \in Font : \E g : Entire(Plsfci(s, f), g)
<1> DEFINE n == Len(s.buffer)
           x == h[n]
<1>0. x = h[Len(s.buffer)]
  OBVIOUS
<1>1. /\ Same(s, x) /\ s.limits = x.limits /\ s.drawn = x.canvas /\ Tells(s, h)
      /\ s.ori = FALSE /\ s.write = TRUE
  BY DEF Entire, Tells
<1> HIDE DEF n, x
<1> USE DEF Fields, NewStream
<1>2. ASSUME NEW map \in Map, NEW i \in Index PROVE \E g : Entire(Plcol(s, map, i), g)
  <2> DEFINE t == [s EXCEPT !.icol[map] = i, !.curcolor = s.cmap[map][i], !.curcmap = map]
             j == [op |-> "color", map |-> map, icol |-> i]
  <2>1. /\ Typed(t) /\ t.buffer = s.buffer /\ t.canvas = s.canvas /\ t.drawn = s.drawn
        /\ t.ori = FALSE /\ t.write = TRUE
    BY <1>1 DEF Typed, AttributesOK, BufferOK
  <2>2. ItemOK(j) /\ Follows(j)
    BY DEF ItemOK, Follows
  <2>3. Same(t, After(x, j)) /\ t.limits = After(x, j).limits /\ After(x, j).canvas = x.canvas
    BY <1>1 DEF Typed, AttributesOK, Same, After, Picture
  <2>4. Plcol(s, map, i) = Wr(t, j)
    BY DEF Plcol
  <2> HIDE DEF t, j, Fields, NewStream
  <2>5. Retold(s, h, x, t, j)
    BY <1>0, <1>1, <2>1, <2>2, <2>3 DEF Retold, Entire
  <2> QED BY <2>3, <2>4, <2>5, WrEntire
<1>3. ASSUME NEW map \in Map, NEW i \in Index, NEW c \in Colour PROVE \E g : Entire(Plscol(s, map, i, c), g)
  <2> DEFINE t == [s EXCEPT !.cmap[map][i] = c]
             j == [op |-> "cmap", map |-> map, cmap |-> t.cmap[map]]
  <2>1. /\ Typed(t) /\ t.buffer = s.buffer /\ t.canvas = s.canvas /\ t.drawn = s.drawn
        /\ t.ori = FALSE /\ t.write = TRUE
    BY <1>1 DEF Typed, AttributesOK, BufferOK
  <2>2. t.cmap[map] \in [Index -> Colour]
    BY <2>1 DEF Typed, AttributesOK
  <2>3. /\ t.cmap = [s.cmap EXCEPT ![map] = t.cmap[map]]
        /\ \A f \in Fields \ {"cmap"} : t[f] = s[f]
    BY DEF Typed, AttributesOK
  <2>4. Plscol(s, map, i, c) = Wr(t, j)
    BY DEF Plscol
  <2> HIDE DEF t
  <2>5. ItemOK(j) /\ Follows(j)
    BY <2>2 DEF ItemOK, Follows
  <2>6. Same(t, After(x, j)) /\ t.limits = After(x, j).limits /\ After(x, j).canvas = x.canvas
    BY <1>1, <2>3 DEF Same, After, Picture
  <2> HIDE DEF j, Fields, NewStream
  <2>7. Retold(s, h, x, t, j)
    BY <1>0, <1>1, <2>1, <2>5, <2>6 DEF Retold, Entire
  <2> QED BY <2>4, <2>6, <2>7, WrEntire
<1>4. ASSUME NEW w \in Width PROVE \E g : Entire(Plwidth(s, w, FALSE), g)
  <2> DEFINE t == [s EXCEPT !.width = w]
             j == [op |-> "width", width |-> w]
  <2>1. /\ Typed(t) /\ t.buffer = s.buffer /\ t.canvas = s.canvas /\ t.drawn = s.drawn
        /\ t.ori = FALSE /\ t.write = TRUE
    BY <1>1 DEF Typed, AttributesOK, BufferOK
  <2>2. ItemOK(j) /\ Follows(j)
    BY DEF ItemOK, Follows
  <2>3. Same(t, After(x, j)) /\ t.limits = After(x, j).limits /\ After(x, j).canvas = x.canvas
    BY <1>1 DEF Typed, Same, After, Picture
  <2>4. Plwidth(s, w, FALSE) = IF w = s.width THEN s ELSE Wr(t, j)
    BY DEF Plwidth
  <2> HIDE DEF t, j, Fields, NewStream
  <2>5. Retold(s, h, x, t, j)
    BY <1>0, <1>1, <2>1, <2>2, <2>3 DEF Retold, Entire
  <2>6. \E g : Entire(Wr(t, j), g)
    BY <2>3, <2>5, WrEntire
  <2> QED BY <2>4, <2>6
<1>5. ASSUME NEW v \in Height PROVE \E g : Entire(Plschr(s, v), g)
  <2> DEFINE t == [s EXCEPT !.chrht = v]
             j == [op |-> "chr", chrht |-> v]
  <2>1. /\ Typed(t) /\ t.buffer = s.buffer /\ t.canvas = s.canvas /\ t.drawn = s.drawn
        /\ t.ori = FALSE /\ t.write = TRUE
    BY <1>1 DEF Typed, AttributesOK, BufferOK
  <2>2. ItemOK(j) /\ Follows(j)
    BY DEF ItemOK, Follows
  <2>3. Same(t, After(x, j)) /\ t.limits = After(x, j).limits /\ After(x, j).canvas = x.canvas
    BY <1>1 DEF Typed, Same, After, Picture
  <2>4. Plschr(s, v) = Wr(t, j)
    BY DEF Plschr
  <2> HIDE DEF t, j, Fields, NewStream
  <2>5. Retold(s, h, x, t, j)
    BY <1>0, <1>1, <2>1, <2>2, <2>3 DEF Retold, Entire
  <2> QED BY <2>3, <2>4, <2>5, WrEntire
<1>6. ASSUME NEW v \in Height PROVE \E g : Entire(Plssym(s, v), g)
  <2> DEFINE t == [s EXCEPT !.symht = v]
             j == [op |-> "sym", symht |-> v]
  <2>1. /\ Typed(t) /\ t.buffer = s.buffer /\ t.canvas = s.canvas /\ t.drawn = s.drawn
        /\ t.ori = FALSE /\ t.write = TRUE
    BY <1>1 DEF Typed, AttributesOK, BufferOK
  <2>2. ItemOK(j) /\ Follows(j)
    BY DEF ItemOK, Follows
  <2>3. Same(t, After(x, j)) /\ t.limits = After(x, j).limits /\ After(x, j).canvas = x.canvas
    BY <1>1 DEF Typed, Same, After, Picture
  <2>4. Plssym(s, v) = Wr(t, j)
    BY DEF Plssym
  <2> HIDE DEF t, j, Fields, NewStream
  <2>5. Retold(s, h, x, t, j)
    BY <1>0, <1>1, <2>1, <2>2, <2>3 DEF Retold, Entire
  <2> QED BY <2>3, <2>4, <2>5, WrEntire
<1>7. ASSUME NEW f \in Font PROVE \E g : Entire(Plsfci(s, f), g)
  <2>1. \A e \in Fields \ {"fci"} : Plsfci(s, f)[e] = s[e]
    BY DEF Typed, Plsfci
  <2> HIDE DEF Fields, NewStream
  <2> QED BY <2>1, QuietEntire
<1> QED BY <1>2, <1>3, <1>4, <1>5, <1>6, <1>7

\* What the program draws is drawn again from its record.
LEMMA DrawEntire ==
  ASSUME NEW s, Typed(s), Paged(s), NEW h, Entire(s, h)
  PROVE  /\ \E g : Entire(Line(s), g)
         /\ \E g : Entire(HasText(s), g)
         /\ \E g : Entire(Symbol(s), g)
         /\ \E g : Entire(Clear(s), g)
<1> DEFINE n == Len(s.buffer)
           x == h[n]
<1>0. x = h[Len(s.buffer)]
  OBVIOUS
<1>1. /\ Same(s, x) /\ s.limits = x.limits /\ s.drawn = x.canvas
      /\ s.ori = FALSE /\ s.write = TRUE
  BY DEF Entire, Tells
<1> HIDE DEF n, x
<1>2. \E g : Entire(Line(s), g)
  <2> DEFINE t == [s EXCEPT !.status = "drawing"]
             j == [op |-> "line"]
             m == Mark("line", s.curcolor, s.width, 0, 0)
  <2>1. /\ Typed(t) /\ t.buffer = s.buffer /\ t.canvas = s.canvas /\ t.drawn = s.drawn
        /\ t.limits = s.limits /\ t.ori = FALSE /\ t.write = TRUE
    BY <1>1 DEF Typed, AttributesOK, BufferOK, Status, Fields, NewStream
  <2>2. ItemOK(j) /\ Follows(j)
    BY DEF ItemOK, Follows
  <2>3. /\ Same(t, After(x, j)) /\ After(x, j).limits = x.limits
        /\ After(x, j).canvas = Append(x.canvas, m)
    BY <1>1 DEF Typed, Same, After, Picture, Fields, NewStream
  <2>4. Line(s) = Show(Wr(t, j), m)
    BY <1>1 DEF Line, Turn
  <2> HIDE DEF t, j, m
  <2>5. Retold(s, h, x, t, j)
    BY <1>0, <2>1, <2>2, <2>3 DEF Retold, Entire
  <2> QED BY <2>3, <2>4, <2>5, ShowEntire
<1>3. ASSUME NEW a, Typed(a), \A f \in Fields \ {"chrht"} : a[f] = s[f]
      PROVE  \E g : Entire(HasText(a), g)
  <2> DEFINE j == [op |-> "text", chrht |-> a.chrht, rot |-> a.rot, fci |-> a.fci]
             m == Mark("text", a.curcolor, a.chrht, a.fci, << 0, a.rot >>)
  <2>1. /\ a.buffer = s.buffer /\ a.canvas = s.canvas /\ a.drawn = s.drawn
        /\ a.limits = s.limits /\ a.ori = FALSE /\ a.write = TRUE
    BY <1>1, <1>3 DEF Fields, NewStream
  <2>2. Same(a, x)
    BY <1>1, <1>3 DEF Same, Fields, NewStream
  <2>3. HasText(a) = Show(Wr(a, j), m)
    BY <2>1 DEF HasText, Turn
  <2>4. ItemOK(j) /\ Follows(j)
    BY <1>3 DEF ItemOK, Follows, Typed, AttributesOK
  <2>5. /\ Same(a, After(x, j)) /\ After(x, j).limits = x.limits
        /\ After(x, j).canvas = Append(x.canvas, m)
    BY <2>2 DEF Same, After, Picture
  <2> HIDE DEF j, m
  <2>6. Retold(s, h, x, a, j)
    BY <1>0, <1>3, <2>1, <2>4, <2>5 DEF Retold, Entire
  <2> QED BY <2>3, <2>5, <2>6, ShowEntire
<1>4. \E g : Entire(HasText(s), g)
  BY <1>3
<1>5. \E g : Entire(Symbol(s), g)
  <2> DEFINE a == [s EXCEPT !.chrht = s.symht]
             b == HasText(a)
             c == [b EXCEPT !.chrht = s.chrht]
  <2>1. s.symht \in Height
    BY DEF Typed, AttributesOK
  <2>2. \A f \in Fields \ {"chrht"} : a[f] = s[f]
    BY DEF Typed, Fields, NewStream
  <2>3. Typed(a)
    BY <2>1 DEF Typed, AttributesOK, BufferOK, Fields, NewStream
  <2>4. Symbol(s) = c
    BY DEF Symbol
  <2> HIDE DEF a
  <2>5. Typed(b)
    BY <2>3, DrawTyped
  <2>6. PICK g : Entire(b, g)
    BY <1>3, <2>2, <2>3
  <2> HIDE DEF b
  <2>7. \A f \in Fields \ {"chrht"} : c[f] = b[f]
    BY <2>5 DEF Typed, Fields, NewStream
  <2> HIDE DEF c
  <2> QED BY <2>4, <2>6, <2>7, QuietEntire
<1>6. \E g : Entire(Clear(s), g)
  <2> DEFINE j == [op |-> "clear"]
             m == Mark("clear", s.cmap[0][0], s.limits, 0, 0)
  <2>1. ItemOK(j) /\ Follows(j)
    BY DEF ItemOK, Follows
  <2>2. /\ Same(s, After(x, j)) /\ After(x, j).limits = x.limits
        /\ After(x, j).canvas = Append(x.canvas, m)
    BY <1>1 DEF Same, After, Picture
  <2>3. Clear(s) = Show(Wr(s, j), m)
    BY DEF Clear
  <2> HIDE DEF j, m
  <2>4. Retold(s, h, x, s, j)
    BY <1>0, <1>1, <2>1, <2>2 DEF Retold, Entire
  <2> QED BY <2>2, <2>3, <2>4, ShowEntire
<1> QED BY <1>2, <1>4, <1>5, <1>6

\* The defaults of a page.
LEMMA SubpInitDoes ==
  ASSUME NEW s, Typed(s)
  PROVE  LET t == SubpInit(s)
         IN  t.symht = 1 /\ \A f \in Fields \ {"chrht", "symht", "cursub", "buffer"} : t[f] = s[f]
BY DEF SubpInit, Plschr, Plssym, Wr, Typed, Fields, NewStream

\* They are recorded on a page that has begun.
LEMMA SubpInitEntire ==
  ASSUME NEW s, Typed(s), Paged(s), NEW h, Entire(s, h)
  PROVE  \E g : Entire(SubpInit(s), g)
<1> DEFINE a == [s EXCEPT !.cursub = 0]
           b == Plschr(a, 1)
<1>1. 1 \in Height /\ 0 \in 0..SubPages
  BY StreamAssumption
<1>2. Typed(a) /\ a.canvas = s.canvas /\ \A f \in Fields \ {"cursub"} : a[f] = s[f]
  BY <1>1, SubpageTyped DEF Typed, Fields, NewStream
<1>3. SubpInit(s) = Plssym(b, 1)
  BY DEF SubpInit
<1> HIDE DEF a
<1>4. Entire(a, h) /\ Paged(a)
  BY <1>2, QuietEntire DEF Paged
<1>5. PICK g : Entire(b, g)
  BY <1>1, <1>2, <1>4, SettersEntire
<1>6. Typed(b) /\ Paged(b)
  BY <1>1, <1>2, <1>4, SettersTyped, SettersPaged
<1> HIDE DEF b
<1> QED BY <1>1, <1>3, <1>5, <1>6, SettersEntire

\* The beginning of a page: its record tells of all but the limits.
LEMMA BopBegins ==
  ASSUME NEW s, Typed(s), s.status # "at_bop", s.ori = FALSE, s.write = TRUE
  PROVE  \E h : Tells(Bop(s), h) /\ h[Len(Bop(s).buffer)].limits = 0 /\ Bop(s).limits = s.limits
<1> DEFINE t    == SubpInit(s)
           mark == Mark("page", t.cmap[0][0], 0, 0, 0)
           u    == [t EXCEPT !.status = "at_bop", !.canvas = << mark >>]
           x    == BopItem(u)
           v    == [u EXCEPT !.buffer = << x >>, !.drawn = u.canvas]
           h    == [k \in 1..1 |-> Begun(x.saved)]
<1>1. Typed(t) /\ t.symht = 1 /\ t.status # "at_bop" /\ t.ori = FALSE /\ t.write = TRUE /\ t.limits = s.limits
  BY SubpageTyped, SubpInitDoes DEF Fields, NewStream
<1>2. Bop(s) = IF t.status = "at_bop" THEN t ELSE IF u.write THEN v ELSE u
  BY DEF Bop
<1> HIDE DEF t
<1>3. /\ u.canvas = << mark >> /\ DOMAIN u = Fields
      /\ \A f \in Fields \ {"status", "canvas"} : u[f] = t[f]
  BY <1>1 DEF Typed, Fields, NewStream
<1>4. mark = Mark("page", u.cmap[0][0], 0, 0, 0)
  BY <1>3 DEF Fields, NewStream
<1> HIDE DEF mark, u
<1>5. x.op = "bop" /\ \A f \in Saved : x.saved[f] = u[f]
  BY DEF BopItem
<1>6. /\ v.buffer = << x >> /\ v.drawn = u.canvas
      /\ \A f \in Fields \ {"buffer", "drawn"} : v[f] = u[f]
  BY <1>3 DEF Fields, NewStream
<1>7. Bop(s) = v
  BY <1>1, <1>2, <1>3 DEF Fields, NewStream
<1> HIDE DEF v, x
<1>8. Len(<< x >>) = 1 /\ << x >>[1] = x /\ << mark >>[1] = mark
  BY Single
<1>9. h[1] = Begun(x.saved)
  OBVIOUS
<1> HIDE DEF h
<1>10. Told(v.buffer, h)
  <2>1. x.saved.ori = FALSE
    BY <1>1, <1>3, <1>5 DEF Saved, Fields, NewStream
  <2>2. h[1].canvas = << Mark("page", x.saved.cmap[0][0], 0, 0, 0) >>
    BY <1>9 DEF Begun
  <2>3. IsSeq(h[1].canvas)
    BY <2>2, Single
  <2> QED BY <1>5, <1>6, <1>8, <1>9, <2>1, <2>3 DEF Told
<1>11. Same(v, h[1])
  BY <1>1, <1>3, <1>5, <1>6, <1>9 DEF Same, Begun, Saved, Fields, NewStream
<1>12. x.saved.cmap = u.cmap
  BY <1>5 DEF Saved
<1>13. /\ v.drawn = h[1].canvas /\ h[1].limits = 0
       /\ v.canvas[1] = Mark("page", v.buffer[1].saved.cmap[0][0], 0, 0, 0)
  BY <1>3, <1>4, <1>6, <1>8, <1>9, <1>12 DEF Begun, Fields, NewStream
<1>14. v.ori = FALSE /\ v.write = TRUE /\ v.limits = s.limits
  BY <1>1, <1>3, <1>6 DEF Fields, NewStream
<1>15. Tells(v, h) /\ h[Len(v.buffer)].limits = 0
  BY <1>6, <1>8, <1>10, <1>11, <1>13, <1>14 DEF Tells
<1> QED BY <1>7, <1>14, <1>15

\* A subpage is chosen: its record tells of the limits.
LEMMA SetsubEntire ==
  ASSUME NEW s, Typed(s), Paged(s), NEW h, Tells(s, h), NEW n \in 1..SubPages
  PROVE  \E g : Entire(Setsub([s EXCEPT !.cursub = n]), g)
<1> DEFINE a == [s EXCEPT !.cursub = n]
           t == [a EXCEPT !.limits = a.cursub]
           j == [op |-> "setsub", cursub |-> a.cursub]
           x == h[Len(s.buffer)]
<1>1. n \in 0..SubPages /\ n # 0
  BY StreamAssumption
<1>2. /\ Typed(t) /\ t.limits = n /\ a.cursub = n
      /\ \A f \in Fields \ {"cursub", "limits"} : t[f] = s[f]
  BY <1>1 DEF Typed, AttributesOK, BufferOK, Fields, NewStream
<1>3. Setsub(a) = Wr(t, j)
  BY DEF Setsub
<1> HIDE DEF t, a, x
<1>4. ItemOK(j) /\ Follows(j)
  BY <1>1, <1>2 DEF ItemOK, Follows
<1>5. Same(s, x)
  BY DEF Tells, x
<1>6. Same(t, After(x, j)) /\ t.limits = After(x, j).limits /\ After(x, j).canvas = x.canvas
  BY <1>2, <1>5 DEF Same, After, Picture, Fields, NewStream
<1> HIDE DEF j
<1>7. Retold(s, h, x, t, j)
  BY <1>2, <1>4, <1>6 DEF Retold, Tells, x, Fields, NewStream
<1>8. \E g : Entire(Setsub(a), g)
  BY <1>3, <1>6, <1>7, WrEntire
<1> QED BY <1>8 DEF a

\* A page's end.
LEMMA EopEntire ==
  ASSUME NEW s, Typed(s), Paged(s), NEW h, Entire(s, h)
  PROVE  \E g : Entire(Eop(s), g)
<1> DEFINE t == [s EXCEPT !.status = "at_eop"]
           j == [op |-> "eop"]
           x == h[Len(s.buffer)]
<1>1. Typed(t) /\ \A f \in Fields \ {"status"} : t[f] = s[f]
  BY DEF Typed, AttributesOK, BufferOK, Status, Fields, NewStream
<1>2. Eop(s) = IF s.status = "at_eop" THEN s ELSE Wr(t, j)
  BY DEF Eop
<1>3. ItemOK(j) /\ Follows(j)
  BY DEF ItemOK, Follows
<1> HIDE DEF t, x
<1>4. Same(s, x) /\ s.limits = x.limits
  BY DEF Entire, Tells, x
<1>5. Same(t, After(x, j)) /\ t.limits = After(x, j).limits /\ After(x, j).canvas = x.canvas
  BY <1>1, <1>4 DEF Same, After, Picture, Fields, NewStream
<1> HIDE DEF j
<1>6. Retold(s, h, x, t, j)
  BY <1>1, <1>3, <1>5 DEF Retold, Entire, Tells, x, Fields, NewStream
<1> QED BY <1>2, <1>5, <1>6, WrEntire

\* The calls on pages.
LEMMA PagesEntire ==
  ASSUME NEW s, Typed(s), Paged(s), NEW h, Entire(s, h)
  PROVE  /\ \E g : Entire(Plbop(s), g)
         /\ \E g : Entire(Pleop(s), g)
         /\ \E g : Entire(Pladv(s), g)
<1>1. 1 \in 1..SubPages /\ SubPages \in 0..SubPages /\ SubPages \in Nat
  BY StreamAssumption
<1>2. ASSUME NEW t, Typed(t), Paged(t), NEW g, Entire(t, g) PROVE \E k : Tells(Bop(t), k)
  <2>1. CASE t.status = "at_bop"
    <3>1. SubpInit(t).status = "at_bop"
      BY <1>2, <2>1, SubpInitDoes DEF Fields, NewStream
    <3>2. Bop(t) = SubpInit(t)
      BY <3>1 DEF Bop
    <3> QED BY <1>2, <3>2, SubpInitEntire DEF Entire
  <2>2. CASE t.status # "at_bop"
    BY <1>2, <2>2, BopBegins DEF Entire, Tells
  <2> QED BY <2>1, <2>2
<1>3. ASSUME NEW t, Typed(t), Paged(t), NEW g, Entire(t, g)
      PROVE  \E k : Entire(Setsub([Bop(t) EXCEPT !.cursub = 1]), k)
  <2>1. PICK k : Tells(Bop(t), k)
    BY <1>2, <1>3
  <2>2. Typed(Bop(t)) /\ Paged(Bop(t))
    BY <1>3, BopTyped, BopPaged
  <2> QED BY <1>1, <2>1, <2>2, SetsubEntire
<1>4. \E g : Entire(Plbop(s), g)
  BY <1>3 DEF Plbop
<1>5. \E g : Entire(Pleop(s), g)
  <2> DEFINE a == [s EXCEPT !.cursub = SubPages]
  <2>1. Typed(a) /\ \A f \in Fields \ {"cursub"} : a[f] = s[f]
    BY <1>1, SubpageTyped DEF Typed, Fields, NewStream
  <2>2. Pleop(s) = Eop(a)
    BY DEF Pleop
  <2> HIDE DEF a
  <2>3. Entire(a, h) /\ Paged(a)
    BY <2>1, QuietEntire DEF Paged, Fields, NewStream
  <2> QED BY <2>1, <2>2, <2>3, EopEntire
<1>6. CASE s.cursub >= SubPages
  <2>1. Pladv(s) = Setsub([Bop(Eop(s)) EXCEPT !.cursub = 1])
    BY <1>6 DEF Pladv
  <2>2. PICK g : Entire(Eop(s), g)
    BY EopEntire
  <2>3. Typed(Eop(s)) /\ Paged(Eop(s))
    BY EopTyped DEF Paged
  <2> QED BY <1>3, <1>4, <1>5, <2>1, <2>2, <2>3
<1>7. CASE ~ (s.cursub >= SubPages)
  <2> DEFINE n == s.cursub + 1
  <2>1. n \in 1..SubPages
    BY <1>1, <1>7 DEF Typed, AttributesOK
  <2>2. Pladv(s) = Setsub([s EXCEPT !.cursub = n])
    BY <1>7 DEF Pladv
  <2> HIDE DEF n
  <2>3. Tells(s, h)
    BY DEF Entire
  <2> QED BY <1>4, <1>5, <2>1, <2>2, <2>3, SetsubEntire
<1> QED BY <1>4, <1>5, <1>6, <1>7

\* A new stream's buffer tells of its first page.
LEMMA PlinitEntire == \E g : Entire(Plinit(TRUE), g)
<1> DEFINE n == NewStream(TRUE)
           b == SubpInit(Bop(n))
           c == Plcol(b, 0, 1)
           t == [c EXCEPT !.ori = 0 # 0, !.rot = 0]
           j == [op |-> "di", ori |-> 0 # 0, rot |-> 0]
           w == Wr(t, j)
<1>1. n.status # "at_bop" /\ n.ori = FALSE /\ n.write = TRUE /\ n.limits = 0
  BY DEF NewStream
<1>2. Typed(n)
  BY NewTyped
<1>3. Plinit(TRUE) = IF w.ori THEN [w EXCEPT !.coef = 0] ELSE w
  BY DEF Plinit, Plsdiori
<1> HIDE DEF n
<1>4. PICK h : Entire(Bop(n), h)
  BY <1>1, <1>2, BopBegins DEF Entire
<1>5. Typed(Bop(n)) /\ Paged(Bop(n))
  BY <1>1, <1>2, BopTyped
<1>6. Typed(b) /\ Paged(b)
  BY <1>5, SubpageTyped, SettersPaged
<1>7. PICK g : Entire(b, g)
  BY <1>4, <1>5, SubpInitEntire
<1>8. 0 \in Map /\ 1 \in Index /\ 0 \in Rotation
  BY StreamAssumption DEF Map
<1> HIDE DEF b
<1>9. Typed(c) /\ Paged(c)
  BY <1>6, <1>8, SettersTyped, SettersPaged
<1>10. PICK f : Entire(c, f)
  BY <1>6, <1>7, <1>8, SettersEntire
<1> HIDE DEF c
<1> DEFINE x == f[Len(c.buffer)]
<1>11. Same(c, x) /\ c.limits = x.limits /\ Tells(c, f) /\ c.write = TRUE
  BY <1>10 DEF Entire, Tells
<1> HIDE DEF x
<1>12. /\ Typed(t) /\ t.ori = FALSE /\ t.write = TRUE
       /\ \A e \in Fields \ {"ori", "rot"} : t[e] = c[e]
  BY <1>8, <1>9, <1>11 DEF Typed, AttributesOK, BufferOK, Fields, NewStream
<1>13. ItemOK(j) /\ Follows(j) /\ j.op = "di"
  BY <1>8 DEF ItemOK, Follows
<1> HIDE DEF t, j
<1>14. Same(t, After(x, j)) /\ t.limits = After(x, j).limits /\ After(x, j).canvas = x.canvas
  BY <1>11, <1>12, <1>13 DEF Same, After, Picture, Fields, NewStream
<1>15. Retold(c, f, x, t, j)
  BY <1>9, <1>11, <1>12, <1>13, <1>14 DEF Retold, x, Fields, NewStream
<1>16. \E e : Entire(w, e)
  BY <1>14, <1>15, WrEntire
<1>17. w.ori = FALSE
  BY <1>12, <1>13, WrTyped DEF Fields, NewStream
<1> QED BY <1>3, <1>16, <1>17

-----------------------------------------------------------------------------
(* Reading: after each record a replay agrees with the history.            *)

\* A picture of one mark is that mark.
LEMMA OneMark == ASSUME NEW q, IsSeq(q), Len(q) = 1 PROVE q = << q[1] >>
<1>1. PICK S : q \in Seq(S)
  BY DEF IsSeq
<1>2. q[1] \in S
  BY <1>1, ElementOfSeq
<1> QED BY <1>1, <1>2

\* The first record gives the stream the attributes of the page's beginning,
\* and the page again, unless the one that is shown is still empty.
LEMMA BeginAgrees ==
  ASSUME NEW old, Typed(old), Paged(old), NEW h, Tells(old, h), NEW r, Typed(r), Paged(r),
         r.write = FALSE, \A f \in Fields \ {"write"} : r[f] = old[f], ItemOK(old.buffer[1])
  PROVE  Agrees(Control(r, old.buffer[1]), h[1], old)
<1> DEFINE i    == old.buffer[1]
           t    == [f \in DOMAIN r |-> IF f \in Saved THEN i.saved[f] ELSE r[f]]
           w    == SubpInit(t)
           mark == Mark("page", w.cmap[0][0], 0, 0, 0)
           u    == [w EXCEPT !.status = "at_bop", !.canvas = << mark >>]
           v    == [u EXCEPT !.buffer = << BopItem(u) >>, !.drawn = u.canvas]
<1>1. /\ i.op = "bop" /\ i.saved.ori = FALSE /\ h[1] = Begun(i.saved)
      /\ old.canvas[1] = Mark("page", i.saved.cmap[0][0], 0, 0, 0)
  BY DEF Tells, Told
<1>2. ItemOK(i)
  OBVIOUS
<1> HIDE DEF i
<1>3. Typed(t) /\ t.canvas = r.canvas
  BY <1>1, <1>2 DEF Typed, AttributesOK, BufferOK, ItemOK, Saved, Fields, NewStream
<1>4. /\ t.cmap = i.saved.cmap /\ t.icol = i.saved.icol /\ t.curcolor = i.saved.curcolor
      /\ t.curcmap = i.saved.curcmap /\ t.width = i.saved.width /\ t.ori = FALSE
      /\ t.drawn = old.drawn /\ t.limits = old.limits /\ t.status = old.status
      /\ t.canvas = old.canvas /\ t.write = FALSE
  BY <1>1 DEF Typed, Saved, Fields, NewStream
<1>5. Control(r, i) = Bop(t)
  BY <1>1 DEF Control, RdBop
<1> HIDE DEF t
<1>6. w.symht = 1 /\ Typed(w) /\ \A f \in Fields \ {"chrht", "symht", "cursub", "buffer"} : w[f] = t[f]
  BY <1>3, SubpInitDoes, SubpageTyped
<1>7. Bop(t) = IF w.status = "at_bop" THEN w ELSE IF u.write THEN v ELSE u
  BY DEF Bop
<1> HIDE DEF w
<1>8. /\ w.write = FALSE /\ w.status = old.status /\ w.canvas = old.canvas /\ w.drawn = old.drawn
      /\ w.limits = old.limits /\ w.cmap = i.saved.cmap /\ w.ori = FALSE
  BY <1>4, <1>6 DEF Fields, NewStream
<1>9. Same(w, h[1]) /\ h[1].limits = 0 /\ h[1].canvas = << old.canvas[1] >>
  BY <1>1, <1>4, <1>6 DEF Same, Begun, Fields, NewStream
<1>10. CASE w.status = "at_bop"
  <2>1. Begins(old) => old.canvas = << old.canvas[1] >>
    BY <1>8, <1>10, OneMark DEF Begins, Typed, BufferOK
  <2>2. Agrees(w, h[1], old)
    BY <1>8, <1>9, <2>1 DEF Agrees
  <2> QED BY <1>5, <1>7, <1>10, <2>2 DEF i
<1>11. CASE w.status # "at_bop"
  <2>1. mark = old.canvas[1]
    BY <1>1, <1>8
  <2> HIDE DEF mark
  <2>2. u.canvas = << mark >> /\ \A f \in Fields \ {"status", "canvas"} : u[f] = w[f]
    BY <1>6 DEF Typed, Fields, NewStream
  <2> HIDE DEF u
  <2>3. Bop(t) = u /\ u.drawn = old.drawn /\ u.limits = old.limits /\ u.ori = FALSE
    BY <1>7, <1>8, <1>11, <2>2 DEF Fields, NewStream
  <2>4. Same(u, h[1])
    BY <1>9, <2>2 DEF Same, Fields, NewStream
  <2>5. << mark >>[1] = mark
    BY Single
  <2>6. Agrees(u, h[1], old)
    BY <1>9, <2>1, <2>2, <2>3, <2>4, <2>5 DEF Agrees
  <2> QED BY <1>5, <2>3, <2>6 DEF i
<1> QED BY <1>10, <1>11

\* What is drawn again is what was drawn, but for a clear whose limits no record
\* tells of.
LEMMA DrawAgrees ==
  ASSUME NEW old, NEW x, IsSeq(x.canvas), NEW r, Typed(r), Paged(r), Agrees(r, x, old),
         NEW c, \A f \in {"cmap", "icol", "curcolor", "curcmap", "width", "symht", "ori", "drawn",
                          "limits"} : c[f] = r[f],
         NEW y, Same(x, y), y.limits = x.limits,
         NEW m, y.canvas = Append(x.canvas, m),
         NEW o, c.canvas = Append(r.canvas, o), o = m \/ (m.kind = "clear" /\ m.size = 0)
  PROVE  Agrees(c, y, old)
<1>1. IsSeq(r.canvas) /\ Len(r.canvas) > 0
  BY DEF Typed, BufferOK, Paged
<1>2. c.canvas[1] = r.canvas[1]
  <2> DEFINE l == Len(r.canvas)
  <2>1. l > 0 /\ l \in Nat
    BY <1>1, Longer
  <2> HIDE DEF l
  <2>2. 1 \in 1..l
    BY <2>1
  <2> QED BY <1>1, <2>2, Longer DEF l
<1>3. Same(c, y) /\ c.ori = FALSE /\ c.drawn = old.drawn
      /\ c.limits = IF y.limits = 0 THEN old.limits ELSE y.limits
  BY DEF Agrees, Same
<1>4. InSub(y.canvas) => InSub(x.canvas) /\ o = m
  <2> DEFINE l == Len(x.canvas)
             d == Append(x.canvas, m)
  <2>1. /\ l \in Nat /\ DOMAIN x.canvas = 1..l /\ DOMAIN d = 1..l + 1
        /\ d[l + 1] = m /\ \A k \in 1..l : d[k] = x.canvas[k]
    BY Longer
  <2>2. y.canvas = d
    OBVIOUS
  <2> HIDE DEF l, d
  <2>3. l + 1 \in DOMAIN d /\ \A k \in 1..l : k \in DOMAIN d
    BY <2>1
  <2> QED BY <2>1, <2>2, <2>3 DEF InSub
<1>5. Begins(old) /\ InSub(y.canvas) => c.canvas = y.canvas
  BY <1>4 DEF Agrees
<1> QED BY <1>2, <1>3, <1>5 DEF Agrees

\* A record of the history gives the stream what it had after the record.
LEMMA ReadAgrees ==
  ASSUME NEW old, NEW x, IsSeq(x.canvas), NEW r, Typed(r), Paged(r), r.write = FALSE, Agrees(r, x, old),
         NEW i, ItemOK(i), Follows(i)
  PROVE  Agrees(Control(r, i), After(x, i), old)
<1> DEFINE c == Control(r, i)
           y == After(x, i)
           attributes == {"cmap", "icol", "curcolor", "curcmap", "width", "symht", "ori", "drawn",
                          "limits"}
<1>1. /\ Same(r, x) /\ r.ori = FALSE /\ r.drawn = old.drawn /\ r.canvas[1] = old.canvas[1]
      /\ r.limits = IF x.limits = 0 THEN old.limits ELSE x.limits
      /\ Begins(old) /\ InSub(x.canvas) => r.canvas = x.canvas
  BY DEF Agrees
<1> USE DEF Fields, NewStream
<1>2. CASE i.op = "line"
  <2> DEFINE m == Mark("line", x.curcolor, x.width, 0, 0)
  <2>1. (\A f \in attributes : c[f] = r[f]) /\ c.canvas = Append(r.canvas, m)
    BY <1>1, <1>2 DEF Control, Line, Show, Wr, Turn, Same, Typed
  <2>2. Same(x, y) /\ y.limits = x.limits /\ y.canvas = Append(x.canvas, m)
    BY <1>2 DEF After, Picture, Same
  <2> HIDE DEF c, y, m, Fields, NewStream
  <2> QED BY <2>1, <2>2, DrawAgrees DEF c, y
<1>3. CASE i.op = "text"
  <2> DEFINE m == Mark("text", x.curcolor, i.chrht, i.fci, << 0, i.rot >>)
  <2>1. (\A f \in attributes : c[f] = r[f]) /\ c.canvas = Append(r.canvas, m)
    BY <1>1, <1>3 DEF Control, RdText, HasText, Show, Wr, Turn, Same, Typed
  <2>2. Same(x, y) /\ y.limits = x.limits /\ y.canvas = Append(x.canvas, m)
    BY <1>3 DEF After, Picture, Same
  <2> HIDE DEF c, y, m, Fields, NewStream
  <2> QED BY <2>1, <2>2, DrawAgrees DEF c, y
<1>4. CASE i.op = "clear"
  <2> DEFINE m == Mark("clear", x.cmap[0][0], x.limits, 0, 0)
             o == Mark("clear", x.cmap[0][0], r.limits, 0, 0)
  <2>1. (\A f \in attributes : c[f] = r[f]) /\ c.canvas = Append(r.canvas, o)
    BY <1>1, <1>4 DEF Control, Clear, Show, Wr, Same, Typed
  <2>2. Same(x, y) /\ y.limits = x.limits /\ y.canvas = Append(x.canvas, m)
    BY <1>4 DEF After, Picture, Same
  <2>3. o = m \/ (m.kind = "clear" /\ m.size = 0)
    BY <1>1 DEF Mark
  <2> HIDE DEF c, y, m, o, Fields, NewStream
  <2> QED BY <2>1, <2>2, <2>3, DrawAgrees DEF c, y
<1>5. CASE i.op = "setsub"
  <2>1. /\ \A f \in attributes \ {"limits"} : c[f] = r[f]
        /\ c.limits = i.cursub /\ c.canvas = r.canvas
    BY <1>5 DEF Control, RdSetsub, Setsub, Wr, Typed
  <2>2. Same(x, y) /\ y.limits = i.cursub /\ y.limits # 0 /\ y.canvas = x.canvas
    BY <1>5 DEF After, Picture, Same, Follows
  <2> HIDE DEF c, y, Fields, NewStream
  <2>3. Same(c, y)
    BY <1>1, <2>1, <2>2 DEF Same
  <2>4. Agrees(c, y, old)
    BY <1>1, <2>1, <2>2, <2>3 DEF Agrees
  <2> QED BY <2>4 DEF c, y
<1>6. CASE i.op \in {"color", "cmap", "width", "sym"}
  <2>1. c.ori = r.ori /\ c.drawn = r.drawn /\ c.limits = r.limits /\ c.canvas = r.canvas
    BY <1>6 DEF Control, RdState, Plcol, Wr, Typed
  <2>2. y.limits = x.limits /\ y.canvas = x.canvas
    BY <1>6 DEF After, Picture
  <2>3. Same(c, y)
    BY <1>1, <1>6 DEF Control, RdState, Plcol, Wr, Typed, AttributesOK, After, Same
  <2> HIDE DEF c, y, Fields, NewStream
  <2>4. Agrees(c, y, old)
    BY <1>1, <2>1, <2>2, <2>3 DEF Agrees
  <2> QED BY <2>4 DEF c, y
<1>7. CASE i.op \notin {"line", "text", "clear", "setsub", "color", "cmap", "width", "sym"}
  <2>1. (\A f \in attributes : c[f] = r[f]) /\ c.canvas = r.canvas
    BY <1>7 DEF Control, RdState, RdDi, Follows, Typed
  <2>2. Same(x, y) /\ y.limits = x.limits /\ y.canvas = x.canvas
    BY <1>7 DEF After, Picture, Same
  <2> HIDE DEF c, y, Fields, NewStream
  <2>3. Same(c, y)
    BY <1>1, <2>1, <2>2 DEF Same
  <2>4. Agrees(c, y, old)
    BY <1>1, <2>1, <2>2, <2>3 DEF Agrees
  <2> QED BY <2>4 DEF c, y
<1> QED BY <1>2, <1>3, <1>4, <1>5, <1>6, <1>7

-----------------------------------------------------------------------------
(* The invariant of faithful replays: every stream is where its buffer's   *)
(* history ends, and a replay where the history is at readpos.             *)

Others   == \A p \in program.streams : ~ (replay.on /\ p = replay.pls) => \E h : Entire(stream[p], h)
Replayed == replay.on => \E h : /\ Entire(Old, h) /\ Midway(stream[replay.pls], replay.readpos, h, Old)
                                /\ replay.write = Old.write /\ replay.cursub = Old.cursub
                                /\ Typed(Old) /\ Paged(Old)
FaithfulInv == TypesInv /\ (Faithful => Others /\ Replayed)

\* The program's calls, when it makes none that a replay does not follow.
LEMMA ProgramEntire ==
  ASSUME Faithful, Typed(current), Paged(current), NEW h, Entire(current, h), ChangeState \/ Draw \/ Page
  PROVE  \E after, g : Entire(after, g) /\ Call(after)
<1> HIDE DEF current
<1>1. "plscmap0" \notin program.calls /\ "plsdiori" \notin program.calls
  BY DEF Faithful
<1>2. "plwidth" \in program.calls => (plsc \in program.widthlock) = FALSE
  BY DEF Faithful
<1>3. CASE ChangeState
  <2>1. CASE \E w \in Width : Makes("plwidth", Plwidth(current, w, plsc \in program.widthlock))
    <3>1. PICK w \in Width : Makes("plwidth", Plwidth(current, w, FALSE))
      BY <1>2, <2>1 DEF Makes
    <3> QED BY <3>1, SettersEntire DEF Makes
  <2>2. CASE ~ \E w \in Width : Makes("plwidth", Plwidth(current, w, plsc \in program.widthlock))
    BY <1>1, <1>3, <2>2, SettersEntire DEF ChangeState, Makes
  <2> QED BY <2>1, <2>2
<1>4. CASE Draw
  BY <1>4, DrawEntire DEF Draw, Makes
<1>5. CASE Page
  BY <1>5, PagesEntire DEF Page, Makes
<1> QED BY <1>3, <1>4, <1>5

\* The new streams are where their buffers' histories end.
LEMMA FaithfulInit == Init => FaithfulInv
<1> SUFFICES ASSUME Init PROVE FaithfulInv
  OBVIOUS
<1>1. ~ replay.on /\ \A p \in program.streams : stream[p] = Plinit(TRUE)
  BY DEF Init, Idle
<1>2. TypesInv
  BY TypesInit
<1>3. Others /\ Replayed
  BY <1>1, PlinitEntire DEF Others, Replayed
<1> QED BY <1>2, <1>3 DEF FaithfulInv

\* The stream at the end of its replay.
LEMMA EndAgrees ==
  ASSUME NEW old, Typed(old), Paged(old), NEW h, Entire(old, h), NEW r, Typed(r),
         r.buffer = old.buffer, Midway(r, Len(old.buffer), h, old),
         NEW t, t.write = old.write, t.cursub = old.cursub,
         \A f \in Fields \ {"write", "cursub"} : t[f] = r[f]
  PROVE  /\ Entire(t, h) /\ \A f \in Recorded : t[f] = old[f]
         /\ Begins(old) /\ InSubpage(old) => t.canvas = old.drawn
<1> DEFINE n == Len(old.buffer)
           x == h[n]
<1>1. /\ n > 0 /\ Told(old.buffer, h) /\ Same(old, x) /\ old.drawn = x.canvas /\ old.limits = x.limits
      /\ old.ori = FALSE /\ old.write = TRUE
      /\ old.canvas[1] = Mark("page", old.buffer[1].saved.cmap[0][0], 0, 0, 0)
  BY DEF Entire, Tells, Told
<1>2. n # 0
  <2>1. n \in Nat
    BY Longer DEF Typed, BufferOK
  <2> HIDE DEF n
  <2> QED BY <1>1, <2>1
<1>3. Agrees(r, x, old)
  BY <1>2 DEF Midway
<1> HIDE DEF x
<1>4. /\ Same(t, x) /\ t.ori = FALSE /\ t.drawn = x.canvas /\ t.limits = x.limits /\ t.write = TRUE
      /\ t.buffer = old.buffer /\ t.canvas = r.canvas
  BY <1>1, <1>3 DEF Agrees, Same, Fields, NewStream
<1>5. t.canvas[1] = old.canvas[1]
  BY <1>3, <1>4 DEF Agrees
<1>6. Entire(t, h)
  BY <1>1, <1>4, <1>5 DEF Entire, Tells, x
<1>7. \A f \in Recorded : t[f] = old[f]
  BY <1>1, <1>4 DEF Recorded, Same
<1>8. Begins(old) /\ InSubpage(old) => t.canvas = old.drawn
  BY <1>1, <1>3, <1>4 DEF Agrees, InSub, InSubpage
<1> QED BY <1>6, <1>7, <1>8

\* A record more.
LEMMA ItemAgrees ==
  ASSUME NEW old, Typed(old), Paged(old), NEW h, Entire(old, h), NEW r, Typed(r), Paged(r), r.write = FALSE,
         NEW k \in Nat, k + 1 \in 1..Len(old.buffer), Midway(r, k, h, old)
  PROVE  Midway(Control(r, old.buffer[k + 1]), k + 1, h, old)
<1> DEFINE n == k + 1
<1>1. n # 0 /\ n \in 1..Len(old.buffer) /\ Len(old.buffer) \in Nat
  BY Longer DEF Typed, BufferOK
<1>2. ItemOK(old.buffer[n]) /\ Tells(old, h) /\ Told(old.buffer, h)
  BY <1>1 DEF Typed, BufferOK, Entire, Tells
<1>3. CASE k = 0
  <2>1. n = 1
    BY <1>3
  <2>2. r = [old EXCEPT !.write = FALSE]
    BY <1>3 DEF Midway
  <2>3. \A f \in Fields \ {"write"} : r[f] = old[f]
    BY <2>2 DEF Typed, Fields, NewStream
  <2>4. Agrees(Control(r, old.buffer[1]), h[1], old)
    BY <1>2, <2>1, <2>3, BeginAgrees
  <2> QED BY <1>1, <2>1, <2>4 DEF Midway
<1>4. CASE k # 0
  <2>1. k \in 1..Len(old.buffer) /\ n \in 2..Len(old.buffer) /\ n - 1 = k
    BY <1>1, <1>4
  <2>2. Agrees(r, h[k], old)
    BY <1>4 DEF Midway
  <2>3. IsSeq(h[k].canvas) /\ Follows(old.buffer[n]) /\ h[n] = After(h[k], old.buffer[n])
    BY <1>2, <2>1 DEF Told
  <2> HIDE DEF n
  <2>4. Agrees(Control(r, old.buffer[n]), h[n], old)
    BY <1>2, <2>2, <2>3, ReadAgrees
  <2> QED BY <1>1, <2>4 DEF Midway, n
<1> QED BY <1>3, <1>4

\* The end of a replay.
LEMMA EndFaithful ==
  ASSUME FaithfulInv, Faithful, ReplayEnd
  PROVE  /\ \E h : Entire(New, h)
         /\ \A f \in Recorded : New[f] = Old[f]
         /\ Begins(Old) /\ InSubpage(Old) => New.canvas = Old.drawn
<1> DEFINE s == stream[replay.pls]
           t == [s EXCEPT !.write = replay.write, !.cursub = replay.cursub]
<1>1. /\ replay.on /\ replay.pls \in program.streams /\ DOMAIN stream = program.streams
      /\ Typed(s) /\ s.buffer = Old.buffer
  BY DEF ReplayEnd, FaithfulInv, TypesInv, StreamsOK, Reading, Located, Local, ReplayReadsOnly, Old
<1>2. PICK h : /\ Entire(Old, h) /\ Midway(s, replay.readpos, h, Old)
               /\ replay.write = Old.write /\ replay.cursub = Old.cursub
               /\ Typed(Old) /\ Paged(Old)
  BY <1>1 DEF FaithfulInv, Replayed
<1>3. replay.readpos = Len(Old.buffer)
  BY <1>1 DEF ReplayEnd
<1>4. New = t
  BY <1>1 DEF ReplayEnd, New
<1>5. t.write = Old.write /\ t.cursub = Old.cursub /\ \A f \in Fields \ {"write", "cursub"} : t[f] = s[f]
  BY <1>1, <1>2 DEF Typed, Fields, NewStream
<1> HIDE DEF s, t
<1>6. Midway(s, Len(Old.buffer), h, Old)
  BY <1>2, <1>3
<1> HIDE DEF Old, New
<1>7. /\ Entire(t, h) /\ \A f \in Recorded : t[f] = Old[f]
      /\ Begins(Old) /\ InSubpage(Old) => t.canvas = Old.drawn
  BY <1>1, <1>2, <1>5, <1>6, EndAgrees
<1> QED BY <1>4, <1>7

\* Every step keeps the history of each buffer and the replay's place in it.
LEMMA FaithfulStep == FaithfulInv /\ [Next]_vars => FaithfulInv'
<1> SUFFICES ASSUME FaithfulInv, [Next]_vars PROVE FaithfulInv'
  OBVIOUS
<1>1. TypesInv /\ TypesInv' /\ DOMAIN stream = program.streams /\ plsc \in program.streams
  BY TypesStep DEF FaithfulInv, TypesInv, Reading, Located
<1>2. SUFFICES ASSUME Faithful' PROVE Others' /\ Replayed'
  BY <1>1 DEF FaithfulInv
<1>3. program' = program
  BY DEF Next, ChangeState, Draw, Page, Makes, Call, Plsstrm, PlRemakePlot, ReplayItem, ReplayEnd, vars
<1>4. Faithful /\ Others /\ Replayed
  BY <1>2, <1>3 DEF FaithfulInv, Faithful
<1>5. CASE ChangeState \/ Draw \/ Page
  <2>1. ~ replay.on
    BY <1>5, Program DEF Call
  <2>2. Typed(current) /\ Paged(current)
    BY <1>1 DEF TypesInv, StreamsOK, current
  <2>3. PICK h : Entire(current, h)
    BY <1>1, <1>4, <2>1 DEF Others, current
  <2>4. PICK after, g : Entire(after, g) /\ Call(after)
    BY <1>4, <1>5, <2>2, <2>3, ProgramEntire
  <2> QED BY <1>1, <1>3, <1>4, <2>1, <2>4 DEF Call, Others, Replayed
<1>6. CASE Plsstrm
  BY <1>4, <1>6 DEF Plsstrm, Others, Replayed
<1>7. CASE PlRemakePlot
  <2>1. PICK p \in program.streams :
          /\ ~ replay.on
          /\ replay' = [on |-> TRUE, pls |-> p, plsc |-> plsc, write |-> stream[p].write,
                        cursub |-> stream[p].cursub, readpos |-> 0, before |-> stream]
          /\ stream' = [stream EXCEPT ![p].write = FALSE]
    BY <1>7 DEF PlRemakePlot
  <2> DEFINE t == [stream[p] EXCEPT !.write = FALSE]
  <2>2. stream' = [stream EXCEPT ![p] = t] /\ Typed(stream[p]) /\ Paged(stream[p])
    BY <1>1, <2>1 DEF TypesInv, StreamsOK
  <2>3. PICK h : Entire(stream[p], h)
    BY <1>4, <2>1 DEF Others
  <2>4. Midway(t, 0, h, stream[p])
    BY DEF Midway
  <2> HIDE DEF t
  <2>5. /\ replay'.pls = p /\ replay'.readpos = 0 /\ Old' = stream[p] /\ stream'[p] = t
        /\ replay'.write = stream[p].write /\ replay'.cursub = stream[p].cursub
        /\ \A q \in program.streams \ {p} : stream'[q] = stream[q]
    BY <1>1, <2>1, <2>2 DEF Old
  <2>6. Others'
    BY <1>3, <1>4, <2>1, <2>5 DEF Others
  <2>7. Replayed'
    BY <2>2, <2>3, <2>4, <2>5 DEF Replayed
  <2> QED BY <2>6, <2>7
<1>8. CASE ReplayItem
  <2> DEFINE s == stream[replay.pls]
             k == replay.readpos
             c == Control(s, s.buffer[k + 1])
  <2>1. /\ Typed(s) /\ Paged(s) /\ ~ s.write /\ k + 1 \in 1..Len(s.buffer)
        /\ stream' = [stream EXCEPT ![replay.pls] = c]
        /\ replay' = [replay EXCEPT !.readpos = k + 1]
    BY <1>1, <1>8, NextItem
  <2>2. /\ replay.on /\ replay.pls \in program.streams /\ s.buffer = Old.buffer
        /\ DOMAIN replay = {"on", "pls", "plsc", "write", "cursub", "readpos", "before"}
    BY <1>1, <1>8 DEF ReplayItem, TypesInv, Reading, Located, Local, ReplayReadsOnly, Old
  <2>3. PICK h : /\ Entire(Old, h) /\ Midway(s, k, h, Old)
                 /\ replay.write = Old.write /\ replay.cursub = Old.cursub
                 /\ Typed(Old) /\ Paged(Old)
    BY <1>4, <2>2 DEF Replayed
  <2>4. k \in Nat /\ s.write = FALSE
    <3>1. IsSeq(s.buffer)
      BY <2>1 DEF Typed, BufferOK
    <3> DEFINE l == Len(s.buffer)
    <3>2. l \in Nat
      BY <3>1, Longer
    <3>3. k \in 0..l
      BY <1>1, <2>2 DEF TypesInv, Playing
    <3> HIDE DEF l, k
    <3>4. k \in Nat
      BY <3>2, <3>3
    <3>5. s.write = FALSE
      BY <2>1 DEF Typed, AttributesOK
    <3> QED BY <3>4, <3>5
  <2>5. /\ replay'.on /\ replay'.pls = replay.pls /\ replay'.readpos = k + 1 /\ Old' = Old
        /\ replay'.write = replay.write /\ replay'.cursub = replay.cursub
        /\ stream'[replay.pls] = c
        /\ \A q \in program.streams \ {replay.pls} : stream'[q] = stream[q]
    BY <1>1, <2>1, <2>2 DEF Old
  <2>6. c = Control(s, Old.buffer[k + 1]) /\ k + 1 \in 1..Len(Old.buffer)
    BY <2>1, <2>2
  <2> HIDE DEF c, s, k, Old
  <2>7. Midway(c, k + 1, h, Old)
    BY <2>1, <2>3, <2>4, <2>6, ItemAgrees
  <2>8. Others'
    BY <1>3, <1>4, <2>2, <2>5 DEF Others
  <2>9. Replayed'
    BY <2>3, <2>5, <2>7 DEF Replayed
  <2> QED BY <2>8, <2>9
<1>9. CASE ReplayEnd
  <2>1. PICK h : Entire(New, h)
    BY <1>4, <1>9, EndFaithful
  <2>2. replay.on /\ replay.pls \in program.streams /\ ~ replay'.on
        /\ \A q \in program.streams \ {replay.pls} : stream'[q] = stream[q]
    BY <1>1, <1>9 DEF ReplayEnd, TypesInv, Reading, Located, Local, Idle
  <2>3. Others'
    BY <1>3, <1>4, <2>1, <2>2 DEF Others, New
  <2> QED BY <2>2, <2>3 DEF Replayed
<1>10. CASE UNCHANGED vars
  BY <1>4, <1>10 DEF vars, Others, Replayed, Old
<1> QED BY <1>5, <1>6, <1>7, <1>8, <1>9, <1>10 DEF Next

\* Every stream is where the history that its buffer tells ends.
THEOREM FaithfulInvariant == Spec => []FaithfulInv
BY FaithfulInit, FaithfulStep, PTL DEF Spec

\* A replay shows the page as the program drew it, and nothing else: for every
\* number of streams and records, and wherever in the program it comes.
THEOREM ReplayRegeneratesHolds == Spec => ReplayRegenerates
<1>1. FaithfulInv /\ [Next]_vars =>
        [Ends /\ Faithful /\ Begins(Old) /\ InSubpage(Old) => New.canvas = Old.drawn]_vars
  BY EndIsEnd, EndFaithful DEF FaithfulInv, TypesInv, Reading
<1> QED BY <1>1, FaithfulInvariant, PTL DEF Spec, ReplayRegenerates

\* A replay leaves the attributes, the subpage and the buffer as the program had
\* left them.
THEOREM ReplayRestoresHolds == Spec => ReplayRestores
<1>1. FaithfulInv /\ [Next]_vars => [Ends /\ Faithful => \A f \in Recorded : New[f] = Old[f]]_vars
  BY EndIsEnd, EndFaithful DEF FaithfulInv, TypesInv, Reading
<1> QED BY <1>1, FaithfulInvariant, PTL DEF Spec, ReplayRestores
=============================================================================
