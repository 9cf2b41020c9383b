----------------------------- MODULE PlotReplay -----------------------------
(***************************************************************************)
(* A program with several plot streams and the replays of their plot       *)
(* buffers (plRemakePlot, plFlushBuffer of src/plbuf.c): plreplot, and the *)
(* redraws an interactive driver asks for when its window is exposed or    *)
(* resized, which come for any stream, whichever stream is current, and    *)
(* between any two calls of the program.  The replay is a loop of steps.   *)
(***************************************************************************)
EXTENDS PlotStream

CONSTANT Programs   \* each with the streams it has, those of them whose width the
                    \* option -width locked before plinit, the calls it makes and a
                    \* bound on the items in a buffer, but for those of its last call

Setters == {"plcol", "plscol", "plscmap0", "plwidth", "plschr", "plssym", "plsfci", "plsdiori"}
Calls   == Setters \cup {"line", "text", "symbol", "clear", "plbop", "pleop", "pladv"}

ASSUME ReplayAssumption == \A p \in Programs :
  p.streams # {} /\ p.widthlock \subseteq p.streams /\ p.calls \subseteq Calls /\ p.items \in Nat

VARIABLES
  program,  \* the program that runs, the same for ever
  stream,   \* the streams
  plsc,     \* the current stream
  replay    \* plFlushBuffer's locals, with the streams as they were before it

vars == << program, stream, plsc, replay >>

Idle == [on |-> FALSE]

Init ==
  /\ program \in Programs
  /\ stream = [p \in program.streams |-> Plinit(TRUE)]
  /\ plsc \in program.streams
  /\ replay = Idle

-----------------------------------------------------------------------------
(* The program.                                                            *)

Call(after) ==
  /\ ~ replay.on
  /\ stream' = [stream EXCEPT ![plsc] = after]
  /\ UNCHANGED << program, plsc, replay >>

current == stream[plsc]
Room    == Len(current.buffer) < program.items
Makes(call, after) == call \in program.calls /\ Room /\ Call(after)

ChangeState ==
  \/ \E map \in Map, i \in Index : Makes("plcol", Plcol(current, map, i))
  \/ \E map \in Map, i \in Index, c \in Colour : Makes("plscol", Plscol(current, map, i, c))
  \/ \E c \in Colour : Makes("plscmap0", Plscmap0Aborted(current, c))
  \/ \E w \in Width : Makes("plwidth", Plwidth(current, w, plsc \in program.widthlock))
  \/ \E h \in Height : Makes("plschr", Plschr(current, h))
  \/ \E h \in Height : Makes("plssym", Plssym(current, h))
  \/ \E f \in Font : Makes("plsfci", Plsfci(current, f))
  \/ \E r \in Rotation : Makes("plsdiori", Plsdiori(current, r))

Draw ==
  \/ Makes("line", Line(current))
  \/ Makes("text", HasText(current))
  \/ Makes("symbol", Symbol(current))
  \/ Makes("clear", Clear(current))

Page ==
  \/ Makes("plbop", Plbop(current))
  \/ Makes("pleop", Pleop(current))
  \/ "pladv" \in program.calls /\ Call(Pladv(current))    \* begins a new buffer sooner or later

Plsstrm == \E p \in program.streams :
  /\ ~ replay.on
  /\ plsc' = p
  /\ UNCHANGED << program, stream, replay >>

-----------------------------------------------------------------------------
(* plFlushBuffer( pls, TRUE, -1 ).  pls->plbuf_readpos is a field of replay: *)
(* a restart begins at zero wherever the last replay left it.              *)

\* Replays may draw on top of each other without end; this is their bound.
Seen(p) == Len(stream[p].canvas) <= program.items

\* Wrong: the current stream stays what it is.
PlRemakePlotElsewhere == \E p \in program.streams :
  /\ ~ replay.on /\ Seen(p)
  /\ replay' = [on |-> TRUE, pls |-> p, plsc |-> plsc, write |-> stream[p].write,
                cursub |-> stream[p].cursub, readpos |-> 0, before |-> stream]
  /\ stream' = [stream EXCEPT ![p].write = FALSE]
  /\ UNCHANGED << program, plsc >>

\* Wrong: the buffer is written while it is read.
PlRemakePlotWriting == \E p \in program.streams :
  /\ ~ replay.on /\ Seen(p)
  /\ replay' = [on |-> TRUE, pls |-> p, plsc |-> plsc, write |-> stream[p].write,
                cursub |-> stream[p].cursub, readpos |-> 0, before |-> stream]
  /\ plsc' = p
  /\ UNCHANGED << program, stream >>

PlRemakePlot == \E p \in program.streams :
  /\ ~ replay.on /\ Seen(p)
  /\ replay' = [on |-> TRUE, pls |-> p, plsc |-> plsc, write |-> stream[p].write,
                cursub |-> stream[p].cursub, readpos |-> 0, before |-> stream]
  /\ stream' = [stream EXCEPT ![p].write = FALSE]
  /\ plsc' = p
  /\ UNCHANGED program

\* rd_command and plbuf_control: the item is read from pls, and what it does
\* goes to the current stream.
ReplayItem ==
  /\ replay.on
  /\ replay.readpos < Len(stream[replay.pls].buffer)
  /\ stream' = [stream EXCEPT
       ![plsc] = Control(@, stream[replay.pls].buffer[replay.readpos + 1])]
  /\ replay' = [replay EXCEPT !.readpos = @ + 1]
  /\ UNCHANGED << program, plsc >>

ReplayEnd ==
  /\ replay.on
  /\ replay.readpos = Len(stream[replay.pls].buffer)
  /\ stream' = [stream EXCEPT ![replay.pls].write = replay.write,
                              ![replay.pls].cursub = replay.cursub]
  /\ plsc' = replay.plsc
  /\ replay' = Idle
  /\ UNCHANGED program

-----------------------------------------------------------------------------
Next == ChangeState \/ Draw \/ Page \/ Plsstrm \/ PlRemakePlot \/ ReplayItem \/ ReplayEnd

Spec == Init /\ [][Next]_vars
-----------------------------------------------------------------------------
(* Properties.                                                             *)

TypeOK ==
  /\ plsc \in program.streams /\ replay.on \in BOOLEAN
  /\ replay.on => replay.readpos \in 0..Len(stream[replay.pls].buffer)
  /\ \A p \in program.streams : StreamOK(stream[p])

Ends  == replay.on /\ ~ replay'.on
Old   == replay.before[replay.pls]
New   == stream'[replay.pls]

\* A replay shows the page again exactly as the program drew it, whatever the
\* program changed since the page began and whatever was replayed before: but
\* for a page on which escapes (text, clears) were the only drawing: its status
\* is still AT_BOP, so that its first record does not begin a page anew.  And but
\* for a clear on the first page before pladv or plbop chose a subpage, whose
\* limits no record has.  And but for the programs with calls that a replay does
\* not follow: plscmap0 that aborts half way, plsdiori whose turn is applied again
\* to what was turned, and plwidth on a stream of the option -width, which changes
\* the width but records nothing of it.
Faithful ==
  /\ program.calls \cap {"plscmap0", "plsdiori"} = {}
  /\ "plwidth" \in program.calls => program.widthlock = {}
Begins(s)     == s.status = "at_bop" => Len(s.canvas) = 1
InSubpage(s)  == \A i \in DOMAIN s.drawn : s.drawn[i].kind = "clear" => s.drawn[i].size # 0
ReplayRegenerates == [][
  Ends /\ Faithful /\ Begins(Old) /\ InSubpage(Old) => New.canvas = Old.drawn ]_vars

\* A replay gives every attribute the buffer knows, cursub and the subpage
\* limits the value it had, so that what the program draws next is not
\* affected, and records nothing: but for the same programs, whose aborted map,
\* turn or locked width is undone by what the page's first record saved.
Recorded == {"cmap", "icol", "curcolor", "curcmap", "width", "symht", "cursub", "limits",
             "ori", "write", "buffer"}
ReplayRestores == [][ Ends /\ Faithful => \A f \in Recorded : New[f] = Old[f] ]_vars

\* The records that are read are not written again, nor anything else while
\* the replay runs, so that it comes to the end of what was recorded.
ReplayReadsOnly == replay.on =>
  /\ ~ stream[replay.pls].write
  /\ stream[replay.pls].buffer = replay.before[replay.pls].buffer

\* The other streams of the program, and which of them is current, do not
\* notice a replay.
ReplayIsLocal == [][ Ends => /\ plsc' = replay.plsc
                             /\ \A p \in program.streams \ {replay.pls} : stream'[p] = replay.before[p] ]_vars
=============================================================================
