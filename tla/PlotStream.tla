----------------------------- MODULE PlotStream -----------------------------
(***************************************************************************)
(* A plot stream (PLStream) as its plot buffer sees it: the drawing        *)
(* attributes, the setters of src/plctrl.c, src/plsdef.c and src/plcore.c, *)
(* the dispatch layer plP_* of src/plcore.c with what it makes the driver  *)
(* show, and the writer and the reader of the plot buffer, src/plbuf.c,    *)
(* one item for each record.  Operators only: a stream is a record and an  *)
(* operation maps it to the stream after it.  The modules that use it      *)
(* own the state.                                                          *)
(***************************************************************************)
EXTENDS Naturals, Sequences

CONSTANTS
  Colour,         \* colours, one of them Black, the default of a colour map
  Black,
  Index,          \* indices of a colour map, 0 the background's and 1 the foreground's
  Width, Height, Font,
  Rotation,       \* of plsdiori, in quarter turns
  SubPages        \* nsubx * nsuby

ASSUME StreamAssumption ==
  /\ Black \in Colour
  /\ {0, 1} \subseteq Index /\ Index \subseteq Nat
  /\ 1 \in Width /\ 1 \in Height /\ 0 \in Font
  /\ 0 \in Rotation /\ Rotation \subseteq Nat
  /\ SubPages \in Nat \ {0}

Map     == {0, 1}       \* cmap0 and cmap1
Status  == {"at_bop", "drawing", "at_eop"}

\* What the driver shows of a drawing call: the attributes it reads from the
\* stream while it serves the call.  canvas is what the driver shows; drawn,
\* which is not state of the code, is what the program's own calls showed since
\* the page began: plbuf_write is FALSE for those of a replay.
Mark(kind, colour, size, font, turn) ==
  [kind |-> kind, colour |-> colour, size |-> size, font |-> font, turn |-> turn]
Show(s, mark) == [s EXCEPT !.canvas = Append(@, mark),
                           !.drawn = IF s.write THEN Append(@, mark) ELSE @]

\* wr_command and wr_data, as every caller guards them with plbuf_write.
Wr(s, item) == IF s.write THEN [s EXCEPT !.buffer = Append(@, item)] ELSE s

-----------------------------------------------------------------------------
(* Attributes.  plP_state writes the item; its driver takes the attribute  *)
(* from the stream again when it draws.                                    *)

\* plcol0 and plcol1: the colour is copied from the map as it is now.
Plcol(s, map, i) ==
  Wr([s EXCEPT !.icol[map] = i, !.curcolor = s.cmap[map][i], !.curcmap = map],
     [op |-> "color", map |-> map, icol |-> i])

\* Wrong: the map is not recorded.
PlscolForgotten(s, map, i, colour) == [s EXCEPT !.cmap[map][i] = colour]

\* plscol0a, plscmap0, plscmap1: the current colour stays what it is.
Plscol(s, map, i, colour) ==
  LET t == [s EXCEPT !.cmap[map][i] = colour]
  IN  Wr(t, [op |-> "cmap", map |-> map, cmap |-> t.cmap[map]])

\* plscmap0 given an entry out of range behind a good one aborts between them.
Plscmap0Aborted(s, colour) == [s EXCEPT !.cmap[0][0] = colour]

\* widthlock, of the option -width, keeps the new width from the driver and the
\* buffer, not from the stream.
Plwidth(s, w, widthlock) ==
  LET t == [s EXCEPT !.width = w]
  IN  IF w = s.width THEN s
      ELSE IF widthlock THEN t ELSE Wr(t, [op |-> "width", width |-> w])
Plschr(s, h) == Wr([s EXCEPT !.chrht = h], [op |-> "chr", chrht |-> h])
Plssym(s, h) == Wr([s EXCEPT !.symht = h], [op |-> "sym", symht |-> h])
Plsfci(s, f) == [s EXCEPT !.fci = f]    \* not a state the buffer knows

\* plsdiori and pldi_ini: the filter's flag and its coefficients, which a
\* rotation of zero leaves behind.
Plsdiori(s, rot) ==
  LET t == Wr([s EXCEPT !.ori = rot # 0, !.rot = rot],
              [op |-> "di", ori |-> rot # 0, rot |-> rot])
  IN  IF t.ori THEN [t EXCEPT !.coef = rot] ELSE t
Turn(s) == IF s.ori THEN s.coef ELSE 0     \* difilt

\* plP_subpInit
SubpInit(s) == Plssym(Plschr([s EXCEPT !.cursub = 0], 1), 1)
\* plP_setsub: the limits follow cursub.
Setsub(s) == Wr([s EXCEPT !.limits = s.cursub], [op |-> "setsub", cursub |-> s.cursub])

-----------------------------------------------------------------------------
(* Pages and drawing.                                                      *)

\* plbuf_bop's items: the state of the page's beginning.
Saved == {"icol", "curcolor", "curcmap", "cmap", "width", "chrht", "symht", "ori"}
BopItem(s) == [op |-> "bop", saved |-> [f \in Saved |-> s[f]]]

\* plP_bop: a driver that begins a page shows the background only.
Bop(s) ==
  LET t == SubpInit(s)
      u == [t EXCEPT !.status = "at_bop",
                     !.canvas = << Mark("page", t.cmap[0][0], 0, 0, 0) >>]
      v == [u EXCEPT !.buffer = << BopItem(u) >>, !.drawn = u.canvas]
  IN  IF t.status = "at_bop" THEN t
      ELSE IF u.write THEN v ELSE u

\* plP_eop
Eop(s) == IF s.status = "at_eop" THEN s
          ELSE Wr([s EXCEPT !.status = "at_eop"], [op |-> "eop"])

\* plP_line, plP_polyline, plP_fill
Line(s) ==
  Show(Wr([s EXCEPT !.status = "drawing"], [op |-> "line"]),
       Mark("line", s.curcolor, s.width, 0, Turn(s)))

\* plP_esc( PLESC_HAS_TEXT ): as every escape it leaves the page's status.
HasText(s) ==
  Show(Wr(s, [op |-> "text", chrht |-> s.chrht, rot |-> s.rot, fci |-> s.fci]),
       Mark("text", s.curcolor, s.chrht, s.fci, << Turn(s), s.rot >>))

\* plhrsh: a symbol is text of the symbols' height.
Symbol(s) == [HasText([s EXCEPT !.chrht = s.symht]) EXCEPT !.chrht = s.chrht]

\* plP_esc( PLESC_CLEAR ), of a driver with dev_clear.
Clear(s) == Show(Wr(s, [op |-> "clear"]), Mark("clear", s.cmap[0][0], s.limits, 0, 0))

-----------------------------------------------------------------------------
(* The API calls on pages.                                                 *)

Plbop(s) == Setsub([Bop(s) EXCEPT !.cursub = 1])
Pleop(s) == Eop([s EXCEPT !.cursub = SubPages])
\* Wrong: one subpage too far.
PladvTooFar(s) == IF s.cursub > SubPages THEN Setsub([Bop(Eop(s)) EXCEPT !.cursub = 1])
                  ELSE Setsub([s EXCEPT !.cursub = @ + 1])

\* pladv( 0 )
Pladv(s) == IF s.cursub >= SubPages THEN Setsub([Bop(Eop(s)) EXCEPT !.cursub = 1])
            ELSE Setsub([s EXCEPT !.cursub = @ + 1])

\* plinit on a new stream: the first page is begun, then the defaults are set
\* and the driver interface of the -ori option.
NewStream(write) ==
  [cmap |-> [m \in Map |-> [i \in Index |-> Black]], icol |-> [m \in Map |-> 0],
   curcolor |-> Black, curcmap |-> 0, width |-> 1, chrht |-> 1, symht |-> 1, fci |-> 0,
   ori |-> FALSE, rot |-> 0, coef |-> 0, cursub |-> 0, limits |-> 0,
   status |-> "at_eop", write |-> write, buffer |-> << >>,
   canvas |-> << >>, drawn |-> << >>]
Plinit(write) == Plsdiori(Plcol(SubpInit(Bop(NewStream(write))), 0, 1), 0)

-----------------------------------------------------------------------------
(* The reader, plbuf_control.                                              *)

\* Wrong: the maps are left to the items that follow.
RdBopNoMaps(s, item) ==
  Bop([f \in DOMAIN s |-> IF f \in Saved \ {"cmap"} THEN item.saved[f] ELSE s[f]])

RdBop(s, item) ==
  Bop([f \in DOMAIN s |-> IF f \in Saved THEN item.saved[f] ELSE s[f]])

RdState(s, item) ==
  CASE item.op = "color" -> Plcol(s, item.map, item.icol)
    [] item.op = "cmap"  -> [s EXCEPT !.cmap[item.map] = item.cmap]
    [] item.op = "width" -> [s EXCEPT !.width = item.width]
    [] item.op = "chr"   -> [s EXCEPT !.chrht = item.chrht]
    [] item.op = "sym"   -> [s EXCEPT !.symht = item.symht]

RdText(s, item) == HasText([s EXCEPT !.chrht = item.chrht, !.rot = item.rot, !.fci = item.fci])
\* A filter flag the record does not have is not cleared.
RdDi(s, item) == IF item.ori THEN Plsdiori(s, item.rot) ELSE s
RdSetsub(s, item) == Setsub([s EXCEPT !.cursub = item.cursub])

Control(s, item) ==
  CASE item.op = "bop"    -> RdBop(s, item)
    [] item.op = "line"   -> Line(s)
    [] item.op = "text"   -> RdText(s, item)
    [] item.op = "clear"  -> Clear(s)
    [] item.op = "di"     -> RdDi(s, item)
    [] item.op = "setsub" -> RdSetsub(s, item)
    [] item.op \in {"color", "cmap", "width", "chr", "sym"} -> RdState(s, item)
    [] OTHER -> s       \* EOP, and the escapes rdbuf_esc has no case for

-----------------------------------------------------------------------------
\* The type of a stream, but for its buffer's items.
StreamOK(s) ==
  /\ s.cmap \in [Map -> [Index -> Colour]] /\ s.icol \in [Map -> Index]
  /\ s.curcolor \in Colour /\ s.curcmap \in Map
  /\ s.width \in Width /\ s.chrht \in Height /\ s.symht \in Height /\ s.fci \in Font
  /\ s.ori \in BOOLEAN /\ s.rot \in Rotation /\ s.coef \in Rotation
  /\ s.cursub \in 0..SubPages /\ s.limits \in 0..SubPages
  /\ s.status \in Status /\ s.write \in BOOLEAN
  /\ Len(s.canvas) > 0 /\ s.canvas[1].kind = "page"
=============================================================================
