------------------------------ MODULE PlFrame -------------------------------
(***************************************************************************)
(* The plframe widget of the Tk binding (bindings/tk/plframe.c): what X    *)
(* events and widget commands ask for is noted in flags and done by an     *)
(* idle callback.  Tk handles events in the order in which they came, and, *)
(* when there is none, runs the idle callbacks that were queued before     *)
(* that.  An "update" inside a handler runs all of this until nothing is   *)
(* left.  Crosshairs and a rubber band are drawn over the plot by xor.     *)
(***************************************************************************)
EXTENDS Naturals, Sequences, FiniteSets

CONSTANTS
  Worlds,    \* sets of the "redraw", "configure", "unmap", "link", "destroy", "xhairs"
             \* and "rband" that a script and its user make use of
  Sizes,     \* of windows
  Places,    \* of the pointer
  MaxSteps   \* bound on the acts of the script and the user

ASSUME PlFrameAssumption ==
  /\ \A w \in Worlds : w \subseteq {"redraw", "configure", "unmap", "link", "destroy", "xhairs", "rband"}
  /\ Sizes \subseteq Nat \ {0} /\ MaxSteps \in Nat

VARIABLES
  world,     \* which of the Worlds this is
  server,    \* the window at the X server, with what it shows
  queue,     \* X events on their way
  frame,     \* the PlFrame, and what Tk knows of its window
  idle,      \* the idle callbacks: the ones Tk runs now, and the later ones
  link,      \* the data connection: its PDFstrm and its file handler
  updating,  \* how many "update"s of a MapNotify are running
  used,      \* whether memory was used or freed after it had been freed
  steps

vars == << world, server, queue, frame, idle, link, updating, used, steps >>

Overlays == {"xhairs", "rband"}
Outside  == 0
None     == [o \in Overlays |-> {}]

Init ==
  /\ world \in Worlds
  /\ \E w \in Sizes :
       /\ server = [mapped |-> FALSE, width |-> w, pointer |-> Outside, drawn |-> 0, blank |-> FALSE,
                    seen |-> None, shown |-> 0]
       /\ frame = [alive |-> TRUE, mapped |-> FALSE, tkWidth |-> w, width |-> w, prevWidth |-> 0,
                   initted |-> FALSE, refresh |-> FALSE, resize |-> FALSE, redraw |-> FALSE,
                   area |-> FALSE, drawing |-> {}, at |-> [o \in Overlays |-> Outside],
                   watched |-> FALSE, view |-> 0, early |-> FALSE,
                   on |-> world \cap Overlays]
  /\ queue = << >> /\ idle = [now |-> << >>, later |-> << >>]
  /\ link = [pdfs |-> "null", handler |-> FALSE]
  /\ updating = 0 /\ used = FALSE /\ steps = 0

-----------------------------------------------------------------------------
(* The user and the X server, which sends what happened.                   *)

Act == steps < MaxSteps /\ steps' = steps + 1 /\ frame.alive
Ev(type, n) == [type |-> type, n |-> n]
Blanked(s)  == [s EXCEPT !.blank = TRUE, !.seen = None]
X == UNCHANGED << world, frame, idle, link, updating, used >>

MapWindow ==
  /\ Act /\ ~ server.mapped
  /\ server' = Blanked([server EXCEPT !.mapped = TRUE])
  /\ queue' = queue \o << Ev("map", 0), Ev("expose", 0) >>
  /\ X

UnmapWindow ==
  /\ Act /\ server.mapped /\ "unmap" \in world
  /\ server' = [server EXCEPT !.mapped = FALSE, !.seen = None]
  /\ queue' = Append(queue, Ev("unmap", 0))
  /\ X

ResizeWindow ==
  /\ Act
  /\ \E w \in Sizes \ {server.width} :
       LET s == [server EXCEPT !.width = w]
       IN  /\ server' = IF s.mapped THEN Blanked(s) ELSE s
           /\ queue' = queue \o IF s.mapped THEN << Ev("configure", w), Ev("expose", 0) >>
                                ELSE << Ev("configure", w) >>
  /\ X

Uncover ==
  /\ Act /\ server.mapped
  /\ server' = Blanked(server)
  /\ queue' = Append(queue, Ev("expose", 0))
  /\ X

MovePointer ==
  /\ Act /\ server.mapped /\ world \cap Overlays # {}
  /\ \E p \in (Places \cup {Outside}) \ {server.pointer} :
       /\ server' = [server EXCEPT !.pointer = p]
       /\ queue' = IF ~ frame.watched THEN queue
                   ELSE Append(queue, IF p = Outside THEN Ev("leave", 0)
                                      ELSE IF server.pointer = Outside THEN Ev("enter", p)
                                      ELSE Ev("motion", p))
  /\ X

-----------------------------------------------------------------------------
(* Drawing over the plot: r is a record of the frame, the server and the   *)
(* idle callbacks that are queued meanwhile.                               *)

\* UpdateXhairs, UpdateRband: a second draw at the same place erases the first.
Update(r, o) ==
  LET p    == r.frame.at[o]
      seen == r.server.seen[o]
  IN  [r EXCEPT !.server.seen[o] = IF p \in seen THEN seen \ {p} ELSE seen \cup {p}]

\* DrawXhairs, DrawRband.
DrawAt(r, o, p) ==
  LET erased == IF o \in r.frame.drawing THEN Update(r, o) ELSE r
  IN  Update([erased EXCEPT !.frame.at[o] = p], o)

\* CreateXhairs draws nothing when the pointer is outside, CreateRband does.
Create(r, o) ==
  LET p == r.server.pointer
  IN  [(IF o = "xhairs" /\ p = Outside THEN r
        ELSE [DrawAt(r, o, p) EXCEPT !.frame.drawing = @ \cup {o}]) EXCEPT !.frame.watched = TRUE]

\* DestroyXhairs, DestroyRband.
Remove(r, o) ==
  LET alone == r.frame.drawing \subseteq {o}
  IN  [Update(r, o) EXCEPT !.frame.drawing = @ \ {o},
                           !.frame.watched = @ /\ ~ alone]

-----------------------------------------------------------------------------
(* Displaying.                                                             *)

State == [frame |-> frame, server |-> server, later |-> << >>]

Painted(s) == [s EXCEPT !.blank = FALSE, !.seen = None]

\* pl_cmd gives the driver an escape function once the stream is initialised.
PlCmd(r, s) == IF r.frame.initted THEN [r EXCEPT !.server = s] ELSE r

\* PLESC_REDRAW replays the plot at the size that the driver has.
Redrawn(r) ==
  PlCmd([r EXCEPT !.frame.redraw = FALSE], [Painted(r.server) EXCEPT !.shown = r.frame.view])

Resized(r) ==
  PlCmd([r EXCEPT !.frame.prevWidth = r.frame.width],
        [Painted(r.server) EXCEPT !.drawn = r.frame.width, !.shown = r.frame.view])

\* With crosshairs the window is cleared and all of it shown, else the area.
Exposed(r) ==
  PlCmd([r EXCEPT !.frame.area = FALSE],
        IF "xhairs" \in r.frame.drawing \/ r.frame.area THEN Painted(r.server) ELSE r.server)

Overlaid(r) ==
  LET cross == IF "xhairs" \in r.frame.drawing THEN Update(r, "xhairs") ELSE r
  IN  IF "rband" \in r.frame.drawing THEN Update(cross, "rband") ELSE cross

\* Wrong: a resize is put off again and again.
DisplayAgain(r) ==
  LET f    == r.frame
      done == [r EXCEPT !.frame.refresh = FALSE]
  IN  IF ~ f.mapped \/ ~ f.refresh THEN done
      ELSE IF f.resize THEN [r EXCEPT !.later = << "display" >>]
      ELSE Overlaid(IF f.redraw THEN Redrawn(done) ELSE Exposed(done))

\* Wrong: a resize that is put off is not queued again.
DisplayOnce(r) ==
  LET f    == r.frame
      done == [r EXCEPT !.frame.refresh = FALSE]
  IN  IF ~ f.mapped \/ ~ f.refresh THEN done
      ELSE IF f.resize THEN [r EXCEPT !.frame.resize = FALSE]
      ELSE Overlaid(IF f.redraw THEN Redrawn(done)
                    ELSE IF f.width # f.prevWidth THEN Resized(done)
                    ELSE Exposed(done))

\* DisplayPlFrame.  A resize is put off once.
Display(r) ==
  LET f    == r.frame
      done == [r EXCEPT !.frame.refresh = FALSE]
  IN  IF ~ f.mapped \/ ~ f.refresh THEN done
      ELSE IF f.resize THEN [r EXCEPT !.frame.resize = FALSE, !.later = << "display" >>]
      ELSE Overlaid(IF f.redraw THEN Redrawn(done)
                    ELSE IF f.width # f.prevWidth THEN Resized(done)
                    ELSE Exposed(done))

\* plinit measures the window, which may have another size already, and plbop
\* shows the first page.
First(r) ==
  LET f == r.frame
  IN  [r EXCEPT !.frame = [f EXCEPT !.initted = TRUE, !.width = f.tkWidth, !.prevWidth = f.tkWidth,
                                    !.early = r.server.width # f.tkWidth],
                !.server = [Painted(r.server) EXCEPT !.drawn = r.server.width, !.shown = f.view]]

\* PlFrameInit.
FrameInit(r) ==
  LET f     == r.frame
      first == IF f.initted THEN r ELSE First(r)
      shown == Display([first EXCEPT !.frame.refresh = TRUE])
      cross == IF "xhairs" \in f.on THEN Create(shown, "xhairs") ELSE shown
  IN  IF "rband" \in f.on THEN Create(cross, "rband") ELSE cross

-----------------------------------------------------------------------------
(* Tk's event loop.                                                        *)

\* Tk_CancelIdleCall( DisplayPlFrame ), to which the others are all the same.
Inits(q)  == [k \in 1..Cardinality({i \in DOMAIN q : q[i] # "display"}) |-> "init"]
Cancelled == [now |-> Inits(idle.now), later |-> Inits(idle.later)]
Queued(i, procs) == [i EXCEPT !.later = @ \o procs]

\* A display is asked for unless one is pending.
Ask(f, i) == /\ frame' = [f EXCEPT !.refresh = TRUE]
             /\ idle' = IF f.refresh THEN i ELSE Queued(i, << "display" >>)

Becomes(r) == /\ frame' = r.frame /\ server' = r.server
              /\ idle' = Queued(idle, r.later)

Handle(type) ==
  /\ frame.alive /\ idle.now = << >> /\ queue # << >> /\ Head(queue).type = type
  /\ queue' = Tail(queue)
  /\ UNCHANGED << world, link, used, steps >>

\* PlFrameConfigureEH.
ConfigureNotify ==
  /\ Handle("configure")
  /\ LET w == Head(queue).n
     IN  Ask([frame EXCEPT !.tkWidth = w, !.width = w, !.resize = TRUE], idle)
  /\ UNCHANGED << server, updating >>

\* Wrong: a cancelled display is not made up for.
MapNotifyOnce ==
  /\ Handle("map")
  /\ frame' = [frame EXCEPT !.mapped = TRUE]
  /\ LET i == IF frame.refresh THEN Cancelled ELSE idle
     IN  IF frame.initted THEN idle' = i /\ UNCHANGED updating
         ELSE idle' = i /\ updating' = updating + 1
  /\ UNCHANGED server

\* The refresh flag stays set, for PlFrameInit.
MapNotify ==
  /\ Handle("map")
  /\ frame' = [frame EXCEPT !.mapped = TRUE]
  /\ LET i == IF frame.refresh THEN Cancelled ELSE idle
     IN  IF frame.initted THEN idle' = Queued(i, << "init" >>) /\ UNCHANGED updating
         ELSE idle' = i /\ updating' = updating + 1
  /\ UNCHANGED server

UpdateEnds ==
  /\ updating > 0 /\ idle = [now |-> << >>, later |-> << >>]
  /\ queue = << >> \/ ~ frame.alive
  /\ updating' = updating - 1
  /\ idle' = Queued(idle, << "init" >>)
  /\ used' = (used \/ ~ frame.alive)
  /\ UNCHANGED << world, server, queue, frame, link, steps >>

UnmapNotify ==
  /\ Handle("unmap")
  /\ frame' = [frame EXCEPT !.mapped = FALSE]
  /\ UNCHANGED << server, idle, updating >>

\* Wrong: the width of the exposed area is taken.
ExposeArea ==
  /\ Handle("expose")
  /\ Ask([frame EXCEPT !.area = TRUE, !.width = Head(queue).n], idle)
  /\ UNCHANGED << server, updating >>

\* PlFrameExposeEH: the area is kept only where nothing is drawn over the plot.
Expose ==
  /\ Handle("expose")
  /\ LET f == [frame EXCEPT !.area = @ \/ frame.drawing = {}]
     IN  Ask(IF f.refresh THEN f ELSE [f EXCEPT !.width = f.tkWidth], idle)
  /\ UNCHANGED << server, updating >>

Motion ==
  /\ Handle("motion")
  /\ LET p     == Head(queue).n
         cross == IF "xhairs" \in frame.drawing THEN DrawAt(State, "xhairs", p) ELSE State
     IN  Becomes(IF "rband" \in frame.drawing THEN DrawAt(cross, "rband", p) ELSE cross)
  /\ UNCHANGED updating

\* PlFrameEnterEH: the band is taken for drawn, and drawn, before it is moved.
Enter ==
  /\ Handle("enter")
  /\ LET p     == Head(queue).n
         cross == IF "xhairs" \in frame.on
                  THEN [DrawAt(State, "xhairs", p) EXCEPT !.frame.drawing = @ \cup {"xhairs"}] ELSE State
         band  == [cross EXCEPT !.frame.drawing = @ \cup {"rband"}]
     IN  Becomes(IF "rband" \in frame.on THEN DrawAt(Update(band, "rband"), "rband", p) ELSE cross)
  /\ UNCHANGED updating

\* Wrong: the crosshairs stay.
LeaveCross ==
  /\ Handle("leave")
  /\ Becomes([State EXCEPT !.frame.drawing = {}])
  /\ UNCHANGED updating

Leave ==
  /\ Handle("leave")
  /\ Becomes([Overlaid(State) EXCEPT !.frame.drawing = {}])
  /\ UNCHANGED updating

\* The idle callbacks that wait are run before those that they queue.
IdleBegins ==
  /\ idle.now = << >> /\ idle.later # << >>
  /\ queue = << >> \/ ~ frame.alive
  /\ idle' = [now |-> idle.later, later |-> << >>]
  /\ UNCHANGED << world, server, queue, frame, link, updating, used, steps >>

IdleRuns ==
  /\ idle.now # << >>
  /\ IF frame.alive
     THEN LET r == IF Head(idle.now) = "init" THEN FrameInit(State) ELSE Display(State)
          IN  /\ frame' = r.frame /\ server' = r.server
              /\ idle' = [now |-> Tail(idle.now), later |-> idle.later \o r.later]
              /\ UNCHANGED used
     ELSE used' = TRUE /\ idle' = [idle EXCEPT !.now = Tail(@)] /\ UNCHANGED << frame, server >>
  /\ UNCHANGED << world, queue, link, updating, steps >>

-----------------------------------------------------------------------------
(* The script.                                                             *)

Script(call) == Act /\ call \in world /\ idle.now = << >>
Tk == UNCHANGED << world, queue, updating >>

\* redraw, and view, orient, xscroll and yscroll, that end with it.
Redraw ==
  /\ Script("redraw")
  /\ Ask([frame EXCEPT !.redraw = TRUE, !.view = @ + 1], idle)
  /\ UNCHANGED << server, link, used >> /\ Tk

\* ConfigurePlFrame: the geometry manager need not grant a width.
Configured(r, o) ==
  CASE o \in r.frame.on /\ o \notin r.frame.drawing -> Create(r, o)
    [] o \notin r.frame.on /\ o \in r.frame.drawing -> Remove(r, o)
    [] OTHER -> r

Configure ==
  /\ Script("configure")
  /\ \E w \in Sizes \cup {frame.width}, on \in SUBSET (world \cap Overlays) :
       LET asked == [State EXCEPT !.frame.width = w, !.frame.on = on]
           r     == IF frame.mapped THEN Configured(Configured(asked, "xhairs"), "rband") ELSE asked
       IN  /\ server' = r.server
           /\ IF w # frame.prevWidth /\ frame.mapped THEN Ask(r.frame, idle)
              ELSE frame' = r.frame /\ UNCHANGED idle
  /\ UNCHANGED << link, used >> /\ Tk

Openlink ==
  /\ Script("link") /\ link.pdfs # "open"
  /\ link' = [pdfs |-> "open", handler |-> TRUE]
  /\ UNCHANGED << server, frame, idle, used >> /\ Tk

Closelink ==
  /\ Script("link") /\ link.pdfs = "open"
  /\ link' = [pdfs |-> "closed", handler |-> FALSE]
  /\ UNCHANGED << server, frame, idle, used >> /\ Tk

\* Data, or the end of it, make Tk call ReadData.
ReadData ==
  /\ steps < MaxSteps /\ steps' = steps + 1
  /\ link.handler /\ idle.now = << >>
  /\ used' = (used \/ ~ frame.alive)
  /\ UNCHANGED << server, frame, idle, link >> /\ Tk

\* DestroyNotify and DestroyPlFrame, where pdf_close frees the PDFstrm.
Destroy ==
  /\ Script("destroy")
  /\ frame' = [frame EXCEPT !.alive = FALSE, !.mapped = FALSE]
  /\ queue' = << >>
  /\ idle' = IF frame.refresh THEN Cancelled ELSE idle
  /\ used' = (link.pdfs = "closed")
  /\ UNCHANGED << world, server, link, updating >>

-----------------------------------------------------------------------------
User   == MapWindow \/ UnmapWindow \/ ResizeWindow \/ Uncover \/ MovePointer
Events == ConfigureNotify \/ MapNotify \/ UnmapNotify \/ Expose \/ Motion \/ Enter \/ Leave
Loop   == Events \/ UpdateEnds \/ IdleBegins \/ IdleRuns
Calls  == Redraw \/ Configure \/ Openlink \/ Closelink \/ ReadData \/ Destroy

Next == User \/ Loop \/ Calls

Spec == Init /\ [][Next]_vars
-----------------------------------------------------------------------------
(* Properties.                                                             *)

Procs == {"init", "display"}
TypeOK ==
  /\ world \in Worlds /\ steps \in 0..MaxSteps /\ updating \in Nat
  /\ idle \in [now : Seq(Procs), later : Seq(Procs)]
  /\ {server.width, frame.width, frame.tkWidth} \subseteq Sizes
  /\ {server.drawn, frame.prevWidth} \subseteq Sizes \cup {0}
  /\ server.pointer \in Places \cup {Outside} /\ frame.drawing \cup frame.on \subseteq Overlays
  /\ {server.mapped, server.blank, frame.alive, frame.mapped, frame.initted, frame.refresh,
      frame.resize, frame.redraw, frame.area, frame.watched, frame.early, used, link.handler} \subseteq BOOLEAN
  /\ \A o \in Overlays : server.seen[o] \subseteq Places \cup {Outside}
  /\ link.pdfs \in {"null", "open", "closed"}

Pending == {idle.now[i] : i \in DOMAIN idle.now} \cup {idle.later[i] : i \in DOMAIN idle.later}

\* A refresh that is noted as pending is: the flag, which suppresses further
\* ones, is never left behind by a callback that was cancelled.
RefreshServed == frame.alive /\ frame.refresh => Pending # {} \/ updating > 0

\* All that was asked for or happened has been handled.
Quiet   == idle.now = << >> /\ idle.later = << >> /\ queue = << >> /\ updating = 0
Settled == Quiet /\ frame.alive /\ frame.mapped

\* Crosshairs are then seen where they are drawn, once, and nowhere else, if no
\* configure command switched them.
CrosshairsTidy == Settled /\ ~ server.blank /\ world \cap {"rband", "configure"} = {} =>
  server.seen["xhairs"] = IF "xhairs" \in frame.drawing THEN {frame.at["xhairs"]} ELSE {}

\* The plot shows the view that was selected last.  What an expose blanked is
\* shown again, where nothing is drawn over the plot.  The plot has the size of
\* its window, if no redraw or configure command interfered, and if plinit did not
\* measure a window of which Tk had another size still.
SettledShows == Settled =>
  /\ server.shown = frame.view
  /\ world \cap Overlays = {} => ~ server.blank
  /\ world \cap {"redraw", "configure"} = {} /\ ~ frame.early => server.drawn = server.width

Work == 6 * Len(queue) + 3 * updating + Len(idle.now) + 2 * Len(idle.later)
          + IF frame.resize THEN 3 ELSE 0

\* Callbacks queue callbacks, updates run in updates; but all of it ends, and
\* the event loop, if it goes on, gets to a state that is Quiet.
LoopEnds == [][ Loop => Work' < Work ]_vars

\* DestroyPlFrame is called "at a safe time (when no-one is using it anymore)".
FreedNotUsed == ~ used
=============================================================================
