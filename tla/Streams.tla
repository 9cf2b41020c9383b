------------------------------- MODULE Streams ------------------------------
(***************************************************************************)
(* The life of the plot streams of src/plcore.c: a program creates,        *)
(* selects, initialises, copies and ends them in any order.  A stream owns *)
(* a plot buffer when its driver records (an interactive one does) or when *)
(* it was copied from another stream to save its plot, and its driver has  *)
(* an output open from plP_init to plP_tidy.                               *)
(***************************************************************************)
EXTENDS Naturals, Sequences

CONSTANTS
  NStreams,   \* PL_NSTREAMS
  Devices,    \* of {"screen", "psttf"}: one that records, one with a document
  Blocks,     \* what malloc may give for a plot buffer
  MaxItems,   \* bound on the drawings of a program
  MaxOpen     \* bound on the outputs opened one over the other

ASSUME StreamsAssumption ==
  /\ NStreams \in Nat \ {0} /\ MaxItems \in Nat /\ MaxOpen \in Nat
  /\ Devices \subseteq {"screen", "psttf"}
  /\ 0 \notin Blocks

VARIABLES
  lib,      \* pls, ipls (plsc is pls[ ipls ]), lib_initialized, the heap, and the
            \* outputs of each stream
  ending,   \* plend's loop: the streams from this one on are done
  drawn     \* how many drawings the program has made

vars == << lib, ending, drawn >>

Number == 0..NStreams - 1
None   == [exists |-> FALSE]
Null   == 0
Bop    == 0               \* the record that begins a page, among the drawings 1, 2, ...
Junk   == MaxItems + 1    \* what memory holds that nobody has written
NoCopy == << Bop >>
Unknown == << Bop, Bop >>

\* What memset leaves.  page is what the device shows; copy is NoCopy when the
\* buffer holds what the stream has recorded, the page it was copied from, or
\* Unknown when it was copied from something else or added to.
Blank == [exists |-> TRUE, level |-> 0, initialized |-> FALSE, device |-> "none",
          write |-> FALSE, block |-> Null, top |-> 0, status |-> "bop",
          psdoc |-> FALSE, page |-> << >>, copy |-> NoCopy]

plsc(s)      == s.pls[s.ipls]
With(s, st)  == [s EXCEPT !.pls[s.ipls] = st]
Buffer(s, i) == SubSeq(s.heap[s.pls[i].block], 1, s.pls[i].top)

Init ==
  /\ lib = [pls |-> [i \in Number |-> IF i = 0 THEN Blank ELSE None], ipls |-> 0, initialized |-> FALSE,
            heap |-> [b \in {} |-> << >>], open |-> [i \in Number |-> 0]]
  /\ ending = NStreams + 1
  /\ drawn = 0

-----------------------------------------------------------------------------
(* malloc and free of plot buffers.                                        *)

Fresh(s)        == CHOOSE b \in Blocks : b \notin DOMAIN s.heap
Room(s)         == \E b \in Blocks : b \notin DOMAIN s.heap
Store(s, b, c)  == [s EXCEPT !.heap = [x \in DOMAIN s.heap \cup {b} |-> IF x = b THEN c ELSE s.heap[x]]]
Release(s, b)   == [s EXCEPT !.heap = [x \in DOMAIN s.heap \ {b} |-> s.heap[x]]]

\* wr_command, wr_data.
Wr(s, item) ==
  LET st == plsc(s)
  IN  Store(With(s, [st EXCEPT !.top = @ + 1]), st.block,
            Append(SubSeq(s.heap[st.block], 1, st.top), item))

-----------------------------------------------------------------------------
(* The pages of a stream.                                                  *)

PlPBop(s) ==
  LET st == plsc(s)
      at == [st EXCEPT !.status = "bop", !.page = << >>]
  IN  IF st.status = "bop" THEN s
      ELSE IF st.write THEN Wr(With(s, [at EXCEPT !.top = 0, !.copy = NoCopy]), Bop)
      ELSE With(s, at)

PlPLine(s, item) ==
  LET st == plsc(s)
      at == With(s, [st EXCEPT !.status = "drawing", !.page = Append(@, item),
                               !.copy = IF st.write /\ @ # NoCopy THEN Unknown ELSE @])
  IN  IF st.write THEN Wr(at, item) ELSE at

\* plRemakePlot( plsc ): the record that begins a page is the first if there is
\* one, and clears the device unless it is at the beginning of a page already.
PlRemakePlot(s) ==
  LET st     == plsc(s)
      items  == Buffer(s, s.ipls)
      begins == items # << >> /\ items[1] = Bop
      lines  == IF begins THEN Tail(items) ELSE items
      clears == begins /\ st.status # "bop"
  IN  With(s, [st EXCEPT
        !.page   = IF clears THEN lines ELSE @ \o lines,
        !.status = IF lines # << >> THEN "drawing" ELSE IF clears THEN "bop" ELSE @])

-----------------------------------------------------------------------------
(* Streams.                                                                *)

\* Wrong: a stream that exists is cleared too.
PlsstrmToClears(s, i) == [s EXCEPT !.ipls = i, !.pls[i] = Blank]

PlsstrmTo(s, i) ==
  [s EXCEPT !.ipls = i, !.pls[i] = IF @.exists THEN @ ELSE Blank]

\* plstrm_init.
PlstrmInit(s) == With(s, [plsc(s) EXCEPT !.initialized = TRUE, !.psdoc = FALSE])

\* Wrong: a stream that does not record loses its copy too.
PlPInitRestarts(s, device) ==
  LET st == plsc(s)
      d  == IF st.device = "none" THEN device ELSE st.device
      at == [st EXCEPT !.device = d, !.status = "eop", !.psdoc = (d = "psttf"), !.write = (d = "screen")]
      s1 == [s EXCEPT !.open[s.ipls] = @ + 1]
  IN  IF at.block # Null THEN With(s1, [at EXCEPT !.top = 0])
      ELSE IF ~ at.write THEN With(s1, at)
      ELSE Store(With(s1, [at EXCEPT !.block = Fresh(s), !.top = 0]), Fresh(s), << >>)

\* pllib_devinit, plP_init with the driver's own and plbuf_init.
PlPInit(s, device) ==
  LET st == plsc(s)
      d  == IF st.device = "none" THEN device ELSE st.device
      at == [st EXCEPT !.device = d, !.status = "eop", !.psdoc = (d = "psttf"), !.write = (d = "screen")]
      s1 == [s EXCEPT !.open[s.ipls] = @ + 1]
  IN  IF ~ at.write THEN With(s1, at)
      ELSE IF at.block # Null THEN With(s1, [at EXCEPT !.top = 0])
      ELSE Store(With(s1, [at EXCEPT !.block = Fresh(s), !.top = 0]), Fresh(s), << >>)

\* Wrong: the stream remains the current one.
Plend1OfStays(s) ==
  LET st == plsc(s)
      s1 == IF st.level > 0 THEN [s EXCEPT !.open[s.ipls] = @ - 1] ELSE s
      s2 == Release(s1, st.block)
  IN  IF s.ipls > 0 THEN With(s2, None) ELSE With(s2, Blank)

\* plend1: plP_tidy, the memory, and stream 0 instead of a freed one.
Plend1Of(s) ==
  LET st == plsc(s)
      s1 == IF st.level > 0 THEN [s EXCEPT !.open[s.ipls] = @ - 1] ELSE s
      s2 == Release(s1, st.block)
  IN  IF s.ipls > 0 THEN PlsstrmTo(With(s2, None), 0) ELSE With(s2, Blank)

\* plinit, which first ends the current stream if it has a driver already.
PlinitOf(s, device) ==
  LET s1 == IF plsc(s).level # 0 THEN Plend1Of(s) ELSE s
      s2 == PlPBop(PlPInit(PlstrmInit([s1 EXCEPT !.initialized = TRUE]), device))
  IN  With(s2, [plsc(s2) EXCEPT !.level = 1])

\* Wrong: the pointer is copied, and not the buffer.
CopiedPointer(s, r) ==
  LET from == s.pls[r]
  IN  With(s, [plsc(s) EXCEPT !.block = from.block, !.top = from.top, !.copy = from.page])

\* The plot buffer that plcpstrm gives the current stream.  Of the stream
\* itself it copies the block that it has just got.
Copied(s, r) ==
  LET from == s.pls[r]
      data == IF r = s.ipls THEN [k \in 1..from.top |-> Junk]
              ELSE IF from.block = Null THEN << >> ELSE Buffer(s, r)
      own  == r # s.ipls /\ from.write /\ from.copy = NoCopy
  IN  Store(With(s, [plsc(s) EXCEPT !.block = Fresh(s), !.top = from.top,
                                    !.copy = IF own THEN from.page ELSE Unknown]),
            Fresh(s), data)

\* plinit of a stream that records empties what was copied.
PlcpstrmOf(s, r, device) ==
  IF plsc(s).level = 0 THEN PlinitOf(Copied(s, r), device) ELSE Copied(s, r)

-----------------------------------------------------------------------------
(* The program.  A psttf driver without its document crashes: nothing      *)
(* follows.                                                                *)

Works(i) == lib.pls[i].exists => (lib.pls[i].device = "psttf" => lib.pls[i].psdoc)
Calls    == ending > NStreams /\ Works(lib.ipls)
Other    == UNCHANGED << ending, drawn >>
Level    == plsc(lib).level

\* Wrong: PL_NSTREAMS is taken for a stream.
PlsstrmTooFar == \E i \in 0..NStreams :
  /\ Calls
  /\ lib' = PlsstrmTo(lib, i)
  /\ Other

Plsstrm == \E i \in Number :
  /\ Calls
  /\ lib' = PlsstrmTo(lib, i)
  /\ Other

Plmkstrm ==
  /\ Calls
  /\ LET free == {i \in Number \ {0} : ~ lib.pls[i].exists}
     IN  \/ free = {} /\ lib' = PlstrmInit(lib)
         \/ \E i \in free :
              /\ \A j \in free : i <= j
              /\ lib' = PlstrmInit(PlsstrmTo(lib, i))
  /\ Other

Plinit == \E d \in Devices :
  /\ Calls /\ Room(lib)
  /\ lib.open[IF Level = 0 THEN lib.ipls ELSE 0] < MaxOpen
  /\ lib' = PlinitOf(lib, d)
  /\ Other

Plcpstrm == \E r \in Number, d \in Devices :
  /\ Calls /\ Room(lib)
  /\ lib.open[lib.ipls] < MaxOpen
  /\ lib' = IF lib.pls[r].exists THEN PlcpstrmOf(lib, r, d) ELSE lib
  /\ Other

Draw ==
  /\ Calls /\ Level > 0 /\ drawn < MaxItems
  /\ drawn' = drawn + 1
  /\ lib' = PlPLine(lib, drawn')
  /\ UNCHANGED ending

Plbop ==
  /\ Calls /\ Level > 0
  /\ lib' = PlPBop(lib)
  /\ Other

Pleop ==
  /\ Calls /\ Level > 0
  /\ lib' = With(lib, [plsc(lib) EXCEPT !.status = "eop"])
  /\ Other

\* Replays may be drawn on top of each other without end; this is their bound.
Plreplot ==
  /\ Calls /\ plsc(lib).block # Null
  /\ Len(plsc(lib).page) <= MaxItems
  /\ lib' = PlRemakePlot(lib)
  /\ Other

Plend1 ==
  /\ Calls
  /\ lib' = Plend1Of(lib)
  /\ Other

Plend ==
  /\ Calls /\ lib.initialized
  /\ ending' = NStreams
  /\ UNCHANGED << lib, drawn >>

\* Wrong: the loop ends with stream 1.
PlendStepNotFirst ==
  /\ ending \in 2..NStreams /\ Works(ending - 1)
  /\ LET s == IF lib.pls[ending - 1].exists THEN Plend1Of(PlsstrmTo(lib, ending - 1)) ELSE lib
     IN  lib' = [s EXCEPT !.initialized = (ending > 2)]
  /\ ending' = IF ending = 2 THEN NStreams + 1 ELSE ending - 1
  /\ UNCHANGED drawn

PlendStep ==
  /\ ending \in 1..NStreams /\ Works(ending - 1)
  /\ LET s == IF lib.pls[ending - 1].exists THEN Plend1Of(PlsstrmTo(lib, ending - 1)) ELSE lib
     IN  lib' = [s EXCEPT !.initialized = (ending > 1)]
  /\ ending' = IF ending = 1 THEN NStreams + 1 ELSE ending - 1
  /\ UNCHANGED drawn

Next == Plsstrm \/ Plmkstrm \/ Plinit \/ Plcpstrm \/ Draw \/ Plbop \/ Pleop
          \/ Plreplot \/ Plend1 \/ Plend \/ PlendStep

Spec == Init /\ [][Next]_vars
-----------------------------------------------------------------------------
(* Properties.                                                             *)

Stream == [exists : {TRUE}, level : {0, 1}, initialized : BOOLEAN,
           device : Devices \cup {"none"}, write : BOOLEAN, block : Blocks \cup {Null},
           top : Nat, status : {"bop", "drawing", "eop"}, psdoc : BOOLEAN,
           page : Seq(1..Junk), copy : Seq(0..Junk)]

Live == {i \in Number : lib.pls[i].exists}
Has(i) == i \in Live /\ lib.pls[i].block # Null
Owned  == {lib.pls[i].block : i \in {j \in Number : Has(j)}}
Leaked == DOMAIN lib.heap \ Owned

TypeOK ==
  /\ \A i \in Number : lib.pls[i] \in Stream \cup {None}
  /\ lib.ipls \in Number /\ lib.initialized \in BOOLEAN
  /\ DOMAIN lib.heap \subseteq Blocks
  /\ \A b \in DOMAIN lib.heap : lib.heap[b] \in Seq(0..Junk)
  /\ lib.open \in [Number -> Nat]
  /\ ending \in 1..NStreams + 1 /\ drawn \in 0..MaxItems

\* plsc never points to a stream that was freed, and stream 0 always exists.
CurrentExists == 0 \in Live /\ lib.ipls \in Live

\* A plot buffer belongs to one stream, is allocated, holds what the stream
\* says, and belongs to a stream whose driver can draw it.
BuffersOwned ==
  /\ \A i \in Live : Has(i) =>
       /\ lib.pls[i].block \in DOMAIN lib.heap
       /\ lib.pls[i].top <= Len(lib.heap[lib.pls[i].block])
       /\ lib.pls[i].level > 0
  /\ \A i, j \in Live : i # j /\ Has(i) => lib.pls[i].block # lib.pls[j].block
  /\ \A i \in Live : lib.pls[i].write => Has(i)

\* A call works on the current stream: no other changes, nor its buffer, but
\* where the current stream is ended and stream 0 takes its place.
StreamsApart == [][
  \A i \in Live \ {lib.ipls} :
    ending > NStreams /\ ~ (i = 0 /\ lib'.ipls = 0 /\ ~ lib'.pls[lib.ipls].exists) =>
      /\ lib'.pls[i] = lib.pls[i]
      /\ Has(i) => lib'.heap[lib.pls[i].block] = lib.heap[lib.pls[i].block] ]_vars

\* What plreplot would draw at any time is the page that the stream's device
\* shows, and for a stream that was copied to, the page that was copied, whatever
\* became of the stream it was copied from.
ReplotShows == \A i \in Live :
  LET st == lib.pls[i]
  IN  /\ st.write /\ st.copy = NoCopy => Buffer(lib, i) = << Bop >> \o st.page
      /\ st.copy \notin {NoCopy, Unknown} =>
           PlRemakePlot([lib EXCEPT !.ipls = i]).pls[i].page = st.copy

\* plend leaves the first stream as it was at the beginning, no other one,
\* and no buffer but those that were left behind before.
EndEndsAll == [][
  ending <= NStreams /\ ending' > NStreams =>
    lib'.ipls = 0 /\ Live' = {0} /\ lib'.pls[0] = Blank /\ DOMAIN lib'.heap = Leaked ]_vars
=============================================================================
