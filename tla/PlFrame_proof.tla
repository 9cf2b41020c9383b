---------------------------- MODULE PlFrame_proof ----------------------------
(***************************************************************************)
(* Proofs about the plframe widget, for every script, every size and every *)
(* place of the pointer, and any number of events: no refresh is lost, the *)
(* event loop comes to rest, and what is then seen is what was asked for.  *)
(***************************************************************************)
EXTENDS PlFrame, FiniteSetTheorems, SequenceTheorems, TLAPS

-----------------------------------------------------------------------------
(* The invariant.                                                          *)

\* An event of some types is on its way, and it is the last one of them.
Coming(q, types)     == \E i \in DOMAIN q : q[i].type \in types
IsLast(q, types, i)  == /\ i \in DOMAIN q /\ q[i].type \in types
                        /\ \A j \in DOMAIN q : i < j => q[j].type \notin types

Mapping == {"map", "unmap"}
Sizing  == {"configure"}
Pointer == {"enter", "motion", "leave"}

\* A callback waits to be run.
Waits(i, proc) == \/ \E k \in DOMAIN i.now : i.now[k] = proc
                  \/ \E k \in DOMAIN i.later : i.later[k] = proc

\* PlFrameInit is queued, or an "update" of MapNotify will queue it.
Waiting == Waits(idle, "init") \/ updating > 0

\* RefreshServed, said of the queue.
Served == frame.alive /\ frame.refresh => (\E proc : Waits(idle, proc)) \/ updating > 0

\* The window will be displayed, if it is mapped.
Due == frame.refresh \/ Waiting

\* What Tk knows of the window is what the last event will have told it.
ToldMapped(q, known, actual) ==
  /\ ~ Coming(q, Mapping) => (known <=> actual)
  /\ \A i \in DOMAIN q : IsLast(q, Mapping, i) => (q[i].type = "map" <=> actual)
ToldSize(q, known, actual) ==
  /\ ~ Coming(q, Sizing) => known = actual
  /\ \A i \in DOMAIN q : IsLast(q, Sizing, i) => q[i].n = actual
Told == frame.alive => /\ ToldMapped(queue, frame.mapped, server.mapped)
                       /\ ToldSize(queue, frame.tkWidth, server.width)

\* A mapped widget has its plot, or gets it.
Started == frame.alive /\ frame.mapped => frame.initted \/ Waiting

\* A view that is not shown is one that a redraw will show.
Viewed == frame.alive =>
  /\ frame.initted /\ server.shown # frame.view => frame.redraw
  /\ frame.mapped /\ frame.redraw => Due

\* What the program may draw over the plot is all that is.
Within == frame.on \subseteq world /\ frame.drawing \subseteq world

\* What was blanked is exposed, or noted as exposed.
Covered == frame.alive /\ frame.initted /\ world \cap Overlays = {} /\ server.blank =>
  \/ Coming(queue, {"expose"})
  \/ frame.area /\ (frame.mapped => Due)

\* The driver's size is prevWidth; a width that differs from it is displayed.
Sized == world \cap {"redraw", "configure"} = {} =>
  /\ ~ frame.redraw /\ frame.width = frame.tkWidth
  /\ frame.initted /\ ~ frame.early => server.drawn = frame.prevWidth
  /\ frame.initted /\ frame.alive /\ frame.mapped /\ frame.width # frame.prevWidth => Due

\* The crosshairs are where they are drawn; before the first page nothing is
\* drawn over the plot and no event of the pointer is asked for.
Tidy(r) == r.server.seen["xhairs"] =
             IF "xhairs" \in r.frame.drawing THEN {r.frame.at["xhairs"]} ELSE {}
Crossed == world \cap {"rband", "configure"} = {} =>
  /\ ~ frame.initted => frame.drawing = {} /\ ~ frame.watched /\ ~ Coming(queue, Pointer)
  /\ server.mapped /\ ~ server.blank => Tidy(State)

-----------------------------------------------------------------------------
(* Types, field by field.                                                  *)

Spots == Places \cup {Outside}
Kinds == {"map", "unmap", "configure", "expose", "enter", "motion", "leave"}

FrameOK(f) ==
  /\ DOMAIN f = {"alive", "mapped", "tkWidth", "width", "prevWidth", "initted", "refresh",
                 "resize", "redraw", "area", "drawing", "at", "watched", "view", "early", "on"}
  /\ f.alive \in BOOLEAN /\ f.mapped \in BOOLEAN /\ f.initted \in BOOLEAN /\ f.refresh \in BOOLEAN
  /\ f.resize \in BOOLEAN /\ f.redraw \in BOOLEAN /\ f.area \in BOOLEAN
  /\ f.watched \in BOOLEAN /\ f.early \in BOOLEAN
  /\ f.tkWidth \in Sizes /\ f.width \in Sizes /\ f.prevWidth \in Sizes \cup {0} /\ f.view \in Nat
  /\ f.drawing \subseteq Overlays /\ f.on \subseteq Overlays /\ f.at \in [Overlays -> Spots]

ServerOK(s) ==
  /\ DOMAIN s = {"mapped", "width", "pointer", "drawn", "blank", "seen", "shown"}
  /\ s.mapped \in BOOLEAN /\ s.blank \in BOOLEAN /\ s.width \in Sizes
  /\ s.drawn \in Sizes \cup {0} /\ s.shown \in Nat /\ s.pointer \in Spots
  /\ s.seen \in [Overlays -> SUBSET Spots]

EventOK(e) ==
  /\ e.type \in Kinds /\ (e.type = "configure" => e.n \in Sizes)
  /\ e.type \in {"enter", "motion"} => e.n \in Spots

Event == {e \in [type : Kinds, n : Sizes \cup Spots \cup {0}] : EventOK(e)}

RecordOK(r) == /\ DOMAIN r = {"frame", "server", "later"}
               /\ FrameOK(r.frame) /\ ServerOK(r.server) /\ r.later \in Seq(Procs)

\* Both of the queues of idle callbacks.
IdleOK(i) == /\ i = [now |-> i.now, later |-> i.later] /\ DOMAIN i = {"now", "later"}
             /\ i.now \in Seq(Procs) /\ i.later \in Seq(Procs)

TypesInv ==
  /\ FrameOK(frame) /\ ServerOK(server) /\ queue \in Seq(Event)
  /\ IdleOK(idle)
  /\ world \in Worlds /\ steps \in 0..MaxSteps /\ updating \in Nat /\ used \in BOOLEAN
  /\ DOMAIN link = {"pdfs", "handler"}
  /\ link.pdfs \in {"null", "open", "closed"} /\ link.handler \in BOOLEAN

IInv == /\ TypesInv /\ Served /\ Told /\ Started /\ Viewed /\ Within
        /\ Covered /\ Sized /\ Crossed

-----------------------------------------------------------------------------
(* What is drawn over the plot.  Nothing of the widget changes but what is *)
(* drawn where, and whether the pointer is watched.                        *)

Over(r, t) ==
  /\ RecordOK(t) /\ t.later = r.later
  /\ \A f \in DOMAIN r.frame \ {"drawing", "at", "watched"} : t.frame[f] = r.frame[f]
  /\ \A f \in DOMAIN r.server \ {"seen"} : t.server[f] = r.server[f]

\* The xor of a cross at its place.
Flip(seen, p) == IF p \in seen THEN seen \ {p} ELSE seen \cup {p}

\* An update draws or erases.
LEMMA UpdateDoes ==
  ASSUME NEW r, RecordOK(r), NEW o \in Overlays
  PROVE  LET t == Update(r, o)
         IN  /\ Over(r, t) /\ t.frame = r.frame
             /\ t.server.seen = [r.server.seen EXCEPT ![o] = Flip(@, r.frame.at[o])]
<1> DEFINE n == Flip(r.server.seen[o], r.frame.at[o])
           m == [r.server.seen EXCEPT ![o] = n]
           s == [r.server EXCEPT !.seen = m]
           t == [r EXCEPT !.server = s]
<1>1. Update(r, o) = [r EXCEPT !.server.seen[o] = n]
  BY DEF Update, Flip
<1>2. n \in SUBSET Spots
  BY DEF Flip, RecordOK, FrameOK, ServerOK
<1> HIDE DEF n
<1>3. m \in [Overlays -> SUBSET Spots]
  BY <1>2 DEF RecordOK, ServerOK
<1>4. [r EXCEPT !.server.seen[o] = n] = t
  BY DEF RecordOK, ServerOK
<1> HIDE DEF m
<1>5. ServerOK(s) /\ s.seen = m /\ \A f \in DOMAIN r.server \ {"seen"} : s[f] = r.server[f]
  BY <1>3 DEF RecordOK, ServerOK
<1> HIDE DEF s
<1>6. DOMAIN t = DOMAIN r /\ t.frame = r.frame /\ t.later = r.later /\ t.server = s
  BY DEF RecordOK
<1> HIDE DEF t
<1>7. Over(r, t)
  BY <1>5, <1>6 DEF Over, RecordOK
<1>8. t.server.seen = [r.server.seen EXCEPT ![o] = Flip(r.server.seen[o], r.frame.at[o])]
  BY <1>5, <1>6 DEF m, n
<1> QED BY <1>1, <1>4, <1>6, <1>7, <1>8

\* One after the other.
LEMMA OverTwice ==
  ASSUME NEW r, NEW t, NEW u, RecordOK(r), Over(r, t), Over(t, u)
  PROVE  Over(r, u)
BY DEF Over, RecordOK, FrameOK, ServerOK

\* A change of what is drawn, or watched, in the frame only.
LEMMA FrameOver ==
  ASSUME NEW r, RecordOK(r), NEW f, FrameOK(f),
         \A x \in DOMAIN r.frame \ {"drawing", "at", "watched"} : f[x] = r.frame[x]
  PROVE  LET t == [r EXCEPT !.frame = f]
         IN  Over(r, t) /\ t.frame = f /\ t.server = r.server
<1> DEFINE t == [r EXCEPT !.frame = f]
<1>1. DOMAIN t = DOMAIN r /\ t.frame = f /\ t.server = r.server /\ t.later = r.later
  BY DEF RecordOK
<1> HIDE DEF t
<1>2. Over(r, t)
  BY <1>1 DEF Over, RecordOK
<1> QED BY <1>1, <1>2 DEF t

\* Drawn at another place: what was drawn is erased.
LEMMA DrawAtDoes ==
  ASSUME NEW r, RecordOK(r), NEW o \in Overlays, NEW p \in Spots
  PROVE  LET t == DrawAt(r, o, p)
         IN  /\ Over(r, t) /\ t.frame = [r.frame EXCEPT !.at[o] = p]
             /\ \A x \in Overlays \ {o} : t.server.seen[x] = r.server.seen[x]
             /\ t.server.seen[o] = Flip(IF o \in r.frame.drawing
                                        THEN Flip(r.server.seen[o], r.frame.at[o])
                                        ELSE r.server.seen[o], p)
<1> DEFINE e == IF o \in r.frame.drawing THEN Update(r, o) ELSE r
           a == [r.frame.at EXCEPT ![o] = p]
           f == [e.frame EXCEPT !.at = a]
           d == [e EXCEPT !.frame = f]
           t == Update(d, o)
<1>1. Over(r, e) /\ e.frame = r.frame
      /\ e.server.seen = IF o \in r.frame.drawing
                         THEN [r.server.seen EXCEPT ![o] = Flip(@, r.frame.at[o])]
                         ELSE r.server.seen
  BY UpdateDoes DEF Over, RecordOK
<1> HIDE DEF e
<1>2. DrawAt(r, o, p) = Update([e EXCEPT !.frame.at[o] = p], o)
  BY DEF DrawAt, e
<1>3. [e EXCEPT !.frame.at[o] = p] = d
  BY <1>1 DEF Over, RecordOK, FrameOK
<1>4. a \in [Overlays -> Spots] /\ a[o] = p
  BY DEF RecordOK, FrameOK
<1> HIDE DEF a
<1>5. FrameOK(f) /\ f.at = a /\ \A x \in DOMAIN r.frame \ {"at"} : f[x] = r.frame[x]
  BY <1>1, <1>4 DEF RecordOK, FrameOK
<1>6. f = [r.frame EXCEPT !.at[o] = p]
  BY <1>1 DEF a, RecordOK, FrameOK
<1> HIDE DEF f
<1>7. Over(e, d) /\ d.frame = f /\ d.server = e.server
  BY <1>1, <1>5, FrameOver DEF Over
<1> HIDE DEF d
<1>8. Over(d, t) /\ t.frame = d.frame
      /\ t.server.seen = [d.server.seen EXCEPT ![o] = Flip(@, d.frame.at[o])]
  BY <1>7, UpdateDoes DEF Over
<1> HIDE DEF t
<1>9. Over(r, t)
  BY <1>1, <1>7, <1>8, OverTwice DEF Over
<1>10. d.frame.at[o] = p /\ DOMAIN r.server.seen = Overlays
  BY <1>4, <1>5, <1>7 DEF RecordOK, ServerOK
<1> DEFINE g == IF o \in r.frame.drawing THEN Flip(r.server.seen[o], r.frame.at[o])
                ELSE r.server.seen[o]
<1>11. DOMAIN e.server.seen = Overlays /\ e.server.seen[o] = g
       /\ \A x \in Overlays \ {o} : e.server.seen[x] = r.server.seen[x]
  BY <1>1, <1>10
<1> HIDE DEF g
<1>12. t.server.seen[o] = Flip(g, p) /\ \A x \in Overlays \ {o} : t.server.seen[x] = r.server.seen[x]
  BY <1>7, <1>8, <1>10, <1>11
<1> QED BY <1>2, <1>3, <1>6, <1>7, <1>8, <1>9, <1>12 DEF t, g

\* What is drawn and watched, of a frame that is otherwise the same.
LEMMA Drawn ==
  ASSUME NEW r, RecordOK(r), NEW t, DOMAIN t = DOMAIN r, t.server = r.server, t.later = r.later,
         DOMAIN t.frame = DOMAIN r.frame, t.frame.watched \in BOOLEAN, t.frame.drawing \subseteq Overlays,
         \A x \in DOMAIN r.frame \ {"drawing", "watched"} : t.frame[x] = r.frame[x]
  PROVE  Over(r, t)
BY DEF Over, RecordOK, FrameOK

\* CreateXhairs and CreateRband.
LEMMA CreateDoes ==
  ASSUME NEW r, RecordOK(r), NEW o \in Overlays
  PROVE  LET t == Create(r, o)
         IN  /\ Over(r, t) /\ t.frame.drawing \subseteq r.frame.drawing \cup {o}
             /\ o = "xhairs" /\ Tidy(r) => Tidy(t)
<1> DEFINE p == r.server.pointer
           e == DrawAt(r, o, p)
           b == r.frame.drawing \cup {o}
           m == [e EXCEPT !.frame = [e.frame EXCEPT !.drawing = b, !.watched = e.frame.watched]]
           d == IF o = "xhairs" /\ p = Outside THEN r ELSE m
           t == [d EXCEPT !.frame = [d.frame EXCEPT !.drawing = d.frame.drawing, !.watched = TRUE]]
<1>1. p \in Spots /\ b \in SUBSET Overlays /\ r.frame.watched \in BOOLEAN /\ r.frame.drawing \in SUBSET Overlays
  BY DEF RecordOK, FrameOK, ServerOK
<1>2. /\ Over(r, e) /\ e.frame = [r.frame EXCEPT !.at[o] = p]
      /\ e.server.seen[o] = Flip(IF o \in r.frame.drawing
                                 THEN Flip(r.server.seen[o], r.frame.at[o])
                                 ELSE r.server.seen[o], p)
  BY <1>1, DrawAtDoes
<1>3. e.frame.drawing = r.frame.drawing /\ e.frame.watched = r.frame.watched /\ e.frame.at[o] = p
  BY <1>2 DEF RecordOK, FrameOK
<1>4. Create(r, o) = [(IF o = "xhairs" /\ p = Outside THEN r
                       ELSE [e EXCEPT !.frame.drawing = @ \cup {o}]) EXCEPT !.frame.watched = TRUE]
  BY DEF Create
<1> HIDE DEF e, p
<1>5. [e EXCEPT !.frame.drawing = @ \cup {o}] = m
  BY <1>2, <1>3 DEF Over, RecordOK, FrameOK
<1> HIDE DEF b
<1>6. Over(e, m) /\ m.frame.at = e.frame.at /\ m.server = e.server /\ m.frame.drawing = b
  <2>1. RecordOK(e)
    BY <1>2 DEF Over
  <2>2. /\ DOMAIN m = DOMAIN e /\ m.server = e.server /\ m.later = e.later
        /\ DOMAIN m.frame = DOMAIN e.frame /\ m.frame.watched = e.frame.watched /\ m.frame.drawing = b
        /\ \A x \in DOMAIN e.frame \ {"drawing", "watched"} : m.frame[x] = e.frame[x]
    BY <2>1 DEF RecordOK, FrameOK
  <2> HIDE DEF m
  <2>3. m.frame.at = e.frame.at /\ e.frame.watched \in BOOLEAN
    BY <2>1, <2>2 DEF RecordOK, FrameOK
  <2> QED BY <1>1, <2>1, <2>2, <2>3, Drawn
<1> HIDE DEF m
<1>7. Over(r, m)
  BY <1>2, <1>6, OverTwice
<1>8. Over(r, r)
  BY DEF Over
<1>9. Over(r, d) /\ RecordOK(d)
  BY <1>7, <1>8 DEF Over
<1>10. d.frame.drawing \subseteq r.frame.drawing \cup {o}
  BY <1>6 DEF b
<1>11. o = "xhairs" /\ Tidy(r) => Tidy(d)
  BY <1>2, <1>3, <1>6 DEF Tidy, Flip, b
<1>12. [d EXCEPT !.frame.watched = TRUE] = t
  BY <1>9 DEF RecordOK, FrameOK
<1>13. Create(r, o) = [d EXCEPT !.frame.watched = TRUE]
  BY <1>4, <1>5
<1> HIDE DEF d
<1>14. d.frame.drawing \in SUBSET Overlays
  BY <1>9 DEF RecordOK, FrameOK
<1>15. Over(d, t) /\ t.server = d.server /\ t.frame.at = d.frame.at /\ t.frame.drawing = d.frame.drawing
  <2>1. /\ DOMAIN t = DOMAIN d /\ t.server = d.server /\ t.later = d.later
        /\ DOMAIN t.frame = DOMAIN d.frame /\ t.frame.watched = TRUE /\ t.frame.drawing = d.frame.drawing
        /\ \A x \in DOMAIN d.frame \ {"drawing", "watched"} : t.frame[x] = d.frame[x]
    BY <1>9 DEF RecordOK, FrameOK
  <2> HIDE DEF t
  <2>2. t.frame.at = d.frame.at
    BY <1>9, <2>1 DEF RecordOK, FrameOK
  <2> QED BY <1>9, <1>14, <2>1, <2>2, Drawn
<1> HIDE DEF t
<1>16. Over(r, t)
  BY <1>9, <1>15, OverTwice
<1> QED BY <1>10, <1>11, <1>12, <1>13, <1>15, <1>16 DEF Tidy

\* DestroyXhairs and DestroyRband.
LEMMA RemoveDoes ==
  ASSUME NEW r, RecordOK(r), NEW o \in Overlays
  PROVE  LET t == Remove(r, o)
         IN  Over(r, t) /\ t.frame.drawing \subseteq r.frame.drawing
<1> DEFINE u == Update(r, o)
           d == r.frame.drawing \ {o}
           w == r.frame.watched /\ ~ (r.frame.drawing \subseteq {o})
           t == [u EXCEPT !.frame = [u.frame EXCEPT !.drawing = d, !.watched = w]]
<1>1. Over(r, u) /\ u.frame = r.frame
  BY UpdateDoes
<1>2. Remove(r, o) = [u EXCEPT !.frame.drawing = @ \ {o},
                              !.frame.watched = @ /\ ~ (r.frame.drawing \subseteq {o})]
  BY DEF Remove
<1>3. d \in SUBSET Overlays /\ w \in BOOLEAN
  BY DEF RecordOK, FrameOK
<1> HIDE DEF u
<1>4. Remove(r, o) = t
  BY <1>1, <1>2 DEF Over, RecordOK, FrameOK
<1> HIDE DEF d, w
<1>5. Over(u, t) /\ t.frame.drawing = d
  <2>1. RecordOK(u)
    BY <1>1 DEF Over
  <2>2. /\ DOMAIN t = DOMAIN u /\ t.server = u.server /\ t.later = u.later
        /\ DOMAIN t.frame = DOMAIN u.frame /\ t.frame.watched = w /\ t.frame.drawing = d
        /\ \A x \in DOMAIN u.frame \ {"drawing", "watched"} : t.frame[x] = u.frame[x]
    BY <2>1 DEF RecordOK, FrameOK
  <2> HIDE DEF t
  <2> QED BY <1>3, <2>1, <2>2, Drawn
<1> HIDE DEF t
<1> QED BY <1>1, <1>4, <1>5, OverTwice DEF d

\* Everything that is drawn over the plot, once more.
LEMMA OverlaidDoes ==
  ASSUME NEW r, RecordOK(r)
  PROVE  LET t == Overlaid(r)
         IN  /\ Over(r, t) /\ t.frame = r.frame
             /\ "rband" \notin r.frame.drawing =>
                  t.server.seen["xhairs"] = IF "xhairs" \in r.frame.drawing
                                            THEN Flip(r.server.seen["xhairs"], r.frame.at["xhairs"])
                                            ELSE r.server.seen["xhairs"]
<1> DEFINE c == IF "xhairs" \in r.frame.drawing THEN Update(r, "xhairs") ELSE r
           t == IF "rband" \in c.frame.drawing THEN Update(c, "rband") ELSE c
<1>1. "xhairs" \in Overlays /\ "rband" \in Overlays /\ DOMAIN r.server.seen = Overlays
  BY DEF Overlays, RecordOK, ServerOK
<1>2. Over(r, r)
  BY DEF Over
<1>3. /\ Over(r, c) /\ c.frame = r.frame
      /\ c.server.seen["xhairs"] = IF "xhairs" \in r.frame.drawing
                                   THEN Flip(r.server.seen["xhairs"], r.frame.at["xhairs"])
                                   ELSE r.server.seen["xhairs"]
  <2>1. CASE "xhairs" \in r.frame.drawing
    <3> DEFINE u == Update(r, "xhairs")
    <3>1. /\ Over(r, u) /\ u.frame = r.frame
          /\ u.server.seen = [r.server.seen EXCEPT !["xhairs"] = Flip(@, r.frame.at["xhairs"])]
      BY <1>1, UpdateDoes
    <3>2. c = u
      BY <2>1
    <3> HIDE DEF u, c
    <3> QED BY <1>1, <2>1, <3>1, <3>2
  <2>2. CASE "xhairs" \notin r.frame.drawing
    BY <1>2, <2>2
  <2> QED BY <2>1, <2>2
<1>4. Overlaid(r) = IF "rband" \in r.frame.drawing THEN Update(c, "rband") ELSE c
  BY DEF Overlaid
<1> HIDE DEF c
<1>5. "rband" \in r.frame.drawing => Over(c, Update(c, "rband")) /\ Update(c, "rband").frame = c.frame
  BY <1>1, <1>3, UpdateDoes DEF Over
<1> QED BY <1>3, <1>4, <1>5, OverTwice

-----------------------------------------------------------------------------
(* What a display does.                                                    *)

\* The fields of the frame that a display changes.
Flags == {"prevWidth", "refresh", "resize", "redraw", "area"}

Shows(r, t) ==
  /\ RecordOK(t) /\ \A f \in DOMAIN r.frame \ Flags : t.frame[f] = r.frame[f]
  /\ \A f \in {"mapped", "width", "pointer"} : t.server[f] = r.server[f]

\* Where an invariant of the widget is about a record: its view, its size, and
\* what is drawn over it.
ViewKept(r)  == r.frame.initted /\ r.server.shown # r.frame.view => r.frame.redraw
SizeKept(r)  == r.frame.initted /\ ~ r.frame.early => r.server.drawn = r.frame.prevWidth
CrossKept(r) == ~ r.server.blank => Tidy(r)
Plain(r)     == "rband" \notin r.frame.drawing /\ (~ r.frame.initted => r.frame.drawing = {})

\* The display itself, of one of three kinds, before the overlays.
LEMMA PaintDoes ==
  ASSUME NEW r, RecordOK(r),
         NEW t, \/ t = Redrawn(r) /\ r.frame.redraw
                \/ t = Resized(r) /\ ~ r.frame.redraw
                \/ t = Exposed(r) /\ ~ r.frame.redraw /\ r.frame.width = r.frame.prevWidth
  PROVE  /\ Shows(r, t) /\ t.later = r.later /\ ~ t.frame.redraw
         /\ t.frame.refresh = r.frame.refresh /\ t.frame.resize = r.frame.resize
         /\ ViewKept(r) => ViewKept(t)
         /\ t.server.blank => r.server.blank
         /\ t.server.blank /\ r.frame.initted => ~ r.frame.area /\ ~ t.frame.area
         /\ ~ r.frame.redraw => t.frame.width = t.frame.prevWidth /\ (SizeKept(r) => SizeKept(t))
         /\ CrossKept(r) /\ Plain(r) /\ ~ t.server.blank =>
              t.server.seen["xhairs"] = {} \/ ("xhairs" \notin r.frame.drawing /\ Tidy(t))
         /\ CrossKept(r) /\ Plain(r) /\ "xhairs" \notin r.frame.drawing => CrossKept(t)
<1> DEFINE p == Painted(r.server)
<1>1. /\ ServerOK(p) /\ ~ p.blank /\ p.seen["xhairs"] = {} /\ p.drawn = r.server.drawn
      /\ \A f \in {"mapped", "width", "pointer"} : p[f] = r.server[f]
  BY DEF Painted, None, RecordOK, ServerOK, Overlays
<1>2. CASE t = Redrawn(r) /\ r.frame.redraw
  <2> DEFINE f == [r.frame EXCEPT !.redraw = FALSE]
             s == IF f.initted THEN [p EXCEPT !.shown = r.frame.view] ELSE r.server
  <2>1. FrameOK(f) /\ ~ f.redraw /\ \A x \in DOMAIN r.frame \ {"redraw"} : f[x] = r.frame[x]
    BY DEF RecordOK, FrameOK
  <2>2. ServerOK(s) /\ \A x \in {"mapped", "width", "pointer", "drawn"} : s[x] = r.server[x]
    BY <1>1, <2>1 DEF RecordOK, FrameOK, ServerOK
  <2>3. f.initted => s.shown = r.frame.view /\ ~ s.blank /\ s.seen["xhairs"] = {}
    BY <1>1 DEF ServerOK
  <2>4. ~ f.initted => s = r.server
    OBVIOUS
  <2>5. DOMAIN t = DOMAIN r /\ t.frame = f /\ t.server = s /\ t.later = r.later
    BY <1>2 DEF Redrawn, PlCmd, RecordOK
  <2> HIDE DEF f, s, p
  <2>6. Shows(r, t)
    BY <2>1, <2>2, <2>5 DEF Shows, RecordOK, FrameOK, Flags
  <2>7. f.initted = r.frame.initted /\ f.view = r.frame.view /\ f.refresh = r.frame.refresh
        /\ f.resize = r.frame.resize /\ f.drawing = r.frame.drawing /\ f.area = r.frame.area
        /\ f.at = r.frame.at /\ f.early = r.frame.early
    BY <2>1 DEF RecordOK, FrameOK
  <2>8. ViewKept(r) => ViewKept(t)
    BY <1>2, <2>1, <2>2, <2>3, <2>4, <2>5, <2>6, <2>7 DEF ViewKept
  <2>9. ~ r.frame.redraw => t.frame.width = t.frame.prevWidth /\ (SizeKept(r) => SizeKept(t))
    BY <1>2, <2>1, <2>2, <2>3, <2>4, <2>5, <2>6, <2>7 DEF SizeKept
  <2>10. /\ CrossKept(r) /\ Plain(r) /\ ~ t.server.blank =>
            t.server.seen["xhairs"] = {} \/ ("xhairs" \notin r.frame.drawing /\ Tidy(t))
         /\ CrossKept(r) /\ Plain(r) /\ "xhairs" \notin r.frame.drawing => CrossKept(t)
    BY <2>1, <2>2, <2>3, <2>4, <2>5, <2>6, <2>7 DEF CrossKept, Plain, Tidy
  <2>11. /\ t.later = r.later /\ t.frame.refresh = r.frame.refresh /\ t.frame.resize = r.frame.resize
    BY <2>1, <2>2, <2>3, <2>4, <2>5, <2>6, <2>7
  <2>12. ~ t.frame.redraw
    BY <1>2, <2>1, <2>2, <2>3, <2>4, <2>5, <2>6, <2>7
  <2>13. /\ t.server.blank => r.server.blank
         /\ t.server.blank /\ r.frame.initted => ~ r.frame.area /\ ~ t.frame.area
    BY <2>1, <2>2, <2>3, <2>4, <2>5, <2>6, <2>7
  <2> QED BY <2>5, <2>6, <2>7, <2>8, <2>9, <2>10, <2>11, <2>12, <2>13
<1>3. CASE t = Resized(r) /\ ~ r.frame.redraw
  <2> DEFINE f == [r.frame EXCEPT !.prevWidth = r.frame.width]
             s == IF f.initted THEN [p EXCEPT !.drawn = r.frame.width, !.shown = r.frame.view] ELSE r.server
  <2>1. FrameOK(f) /\ f.prevWidth = r.frame.width /\ \A x \in DOMAIN r.frame \ {"prevWidth"} : f[x] = r.frame[x]
    BY DEF RecordOK, FrameOK
  <2>2. ServerOK(s) /\ \A x \in {"mapped", "width", "pointer"} : s[x] = r.server[x]
    BY <1>1, <2>1 DEF RecordOK, FrameOK, ServerOK
  <2>3. f.initted => s.shown = r.frame.view /\ ~ s.blank /\ s.seen["xhairs"] = {} /\ s.drawn = r.frame.width
    BY <1>1 DEF ServerOK
  <2>4. ~ f.initted => s = r.server
    OBVIOUS
  <2>5. DOMAIN t = DOMAIN r /\ t.frame = f /\ t.server = s /\ t.later = r.later
    BY <1>3 DEF Resized, PlCmd, RecordOK
  <2> HIDE DEF f, s, p
  <2>6. Shows(r, t)
    BY <2>1, <2>2, <2>5 DEF Shows, RecordOK, FrameOK, Flags
  <2>7. f.initted = r.frame.initted /\ f.view = r.frame.view /\ f.refresh = r.frame.refresh
        /\ f.resize = r.frame.resize /\ f.drawing = r.frame.drawing /\ f.area = r.frame.area
        /\ f.at = r.frame.at /\ f.redraw = r.frame.redraw /\ f.width = r.frame.width
        /\ f.early = r.frame.early
    BY <2>1 DEF RecordOK, FrameOK
  <2>8. ViewKept(r) => ViewKept(t)
    BY <1>3, <2>1, <2>2, <2>3, <2>4, <2>5, <2>6, <2>7 DEF ViewKept
  <2>9. ~ r.frame.redraw => t.frame.width = t.frame.prevWidth /\ (SizeKept(r) => SizeKept(t))
    BY <1>3, <2>1, <2>2, <2>3, <2>4, <2>5, <2>6, <2>7 DEF SizeKept
  <2>10. /\ CrossKept(r) /\ Plain(r) /\ ~ t.server.blank =>
            t.server.seen["xhairs"] = {} \/ ("xhairs" \notin r.frame.drawing /\ Tidy(t))
         /\ CrossKept(r) /\ Plain(r) /\ "xhairs" \notin r.frame.drawing => CrossKept(t)
    BY <2>1, <2>2, <2>3, <2>4, <2>5, <2>6, <2>7 DEF CrossKept, Plain, Tidy
  <2>11. /\ t.later = r.later /\ t.frame.refresh = r.frame.refresh /\ t.frame.resize = r.frame.resize
    BY <2>1, <2>2, <2>3, <2>4, <2>5, <2>6, <2>7
  <2>12. ~ t.frame.redraw
    BY <1>3, <2>1, <2>2, <2>3, <2>4, <2>5, <2>6, <2>7
  <2>13. /\ t.server.blank => r.server.blank
         /\ t.server.blank /\ r.frame.initted => ~ r.frame.area /\ ~ t.frame.area
    BY <2>1, <2>2, <2>3, <2>4, <2>5, <2>6, <2>7
  <2> QED BY <2>5, <2>6, <2>7, <2>8, <2>9, <2>10, <2>11, <2>12, <2>13
<1>4. CASE t = Exposed(r) /\ ~ r.frame.redraw /\ r.frame.width = r.frame.prevWidth
  <2> DEFINE f == [r.frame EXCEPT !.area = FALSE]
             all == "xhairs" \in r.frame.drawing \/ r.frame.area
             s == IF f.initted /\ all THEN p ELSE r.server
  <2>1. FrameOK(f) /\ ~ f.area /\ \A x \in DOMAIN r.frame \ {"area"} : f[x] = r.frame[x]
    BY DEF RecordOK, FrameOK
  <2>2. ServerOK(s) /\ \A x \in {"mapped", "width", "pointer", "drawn"} : s[x] = r.server[x]
    BY <1>1 DEF RecordOK
  <2>3. f.initted /\ all => ~ s.blank /\ s.seen["xhairs"] = {}
    BY <1>1
  <2>4. ~ f.initted \/ ~ all => s = r.server
    OBVIOUS
  <2>5. DOMAIN t = DOMAIN r /\ t.frame = f /\ t.server = s /\ t.later = r.later
    BY <1>4 DEF Exposed, PlCmd, RecordOK
  <2>6. s.shown = r.server.shown
    BY DEF Painted, RecordOK, ServerOK
  <2> HIDE DEF f, s, p
  <2>7. Shows(r, t)
    BY <2>1, <2>2, <2>5 DEF Shows, RecordOK, FrameOK, Flags
  <2>8. f.initted = r.frame.initted /\ f.view = r.frame.view /\ f.refresh = r.frame.refresh
        /\ f.resize = r.frame.resize /\ f.drawing = r.frame.drawing /\ f.prevWidth = r.frame.prevWidth
        /\ f.at = r.frame.at /\ f.redraw = r.frame.redraw /\ f.width = r.frame.width /\ f.early = r.frame.early
    BY <2>1 DEF RecordOK, FrameOK
  <2>9. ViewKept(r) => ViewKept(t)
    BY <1>4, <2>1, <2>2, <2>3, <2>4, <2>5, <2>6, <2>7, <2>8 DEF ViewKept
  <2>10. ~ r.frame.redraw => t.frame.width = t.frame.prevWidth /\ (SizeKept(r) => SizeKept(t))
    BY <1>4, <2>1, <2>2, <2>3, <2>4, <2>5, <2>6, <2>7, <2>8 DEF SizeKept
  <2>11. /\ CrossKept(r) /\ Plain(r) /\ ~ t.server.blank =>
            t.server.seen["xhairs"] = {} \/ ("xhairs" \notin r.frame.drawing /\ Tidy(t))
         /\ CrossKept(r) /\ Plain(r) /\ "xhairs" \notin r.frame.drawing => CrossKept(t)
    BY <2>1, <2>2, <2>3, <2>4, <2>5, <2>6, <2>7, <2>8 DEF CrossKept, Plain, Tidy
  <2>12. /\ t.later = r.later /\ t.frame.refresh = r.frame.refresh /\ t.frame.resize = r.frame.resize
    BY <2>1, <2>2, <2>3, <2>4, <2>5, <2>6, <2>7, <2>8
  <2>13. ~ t.frame.redraw
    BY <1>4, <2>1, <2>2, <2>3, <2>4, <2>5, <2>6, <2>7, <2>8
  <2>14. /\ t.server.blank => r.server.blank
         /\ t.server.blank /\ r.frame.initted => ~ r.frame.area /\ ~ t.frame.area
    BY <2>1, <2>2, <2>3, <2>4, <2>5, <2>6, <2>7, <2>8
  <2> QED BY <2>5, <2>6, <2>7, <2>8, <2>9, <2>10, <2>11, <2>12, <2>13, <2>14
<1> QED BY <1>2, <1>3, <1>4

\* DisplayPlFrame: either all is shown, or the display is put off, once.
LEMMA DisplayDoes ==
  ASSUME NEW r, RecordOK(r), r.later = << >>
  PROVE  LET t == Display(r)
         IN  /\ Shows(r, t)
             /\ t.later = << >> \/ (t.later = << "display" >> /\ r.frame.resize /\ ~ t.frame.resize)
             /\ t.frame.resize => r.frame.resize
             /\ t.frame.refresh => t.later # << >>
             /\ t.frame.redraw => r.frame.redraw
             /\ r.frame.mapped /\ r.frame.refresh /\ t.frame.redraw => t.frame.refresh
             /\ ViewKept(r) => ViewKept(t)
             /\ t.server.blank => r.server.blank
             /\ t.server.blank /\ r.frame.initted => t.frame.area = r.frame.area
             /\ t.server.blank /\ r.frame.initted /\ r.frame.mapped /\ r.frame.refresh /\ r.frame.area =>
                  t.frame.refresh
             /\ ~ r.frame.redraw /\ SizeKept(r) => SizeKept(t)
             /\ ~ r.frame.redraw /\ r.frame.mapped /\ r.frame.refresh =>
                  t.frame.refresh \/ t.frame.width = t.frame.prevWidth
             /\ t.frame.width # t.frame.prevWidth => r.frame.width # r.frame.prevWidth
             /\ t.frame.drawing = r.frame.drawing
             /\ CrossKept(r) /\ Plain(r) => CrossKept(t)
<1> DEFINE f == [r.frame EXCEPT !.refresh = FALSE]
           d == [r EXCEPT !.frame = f]
           t == Display(r)
<1>1. FrameOK(f) /\ ~ f.refresh /\ \A x \in DOMAIN r.frame \ {"refresh"} : f[x] = r.frame[x]
  BY DEF RecordOK, FrameOK
<1>2. DOMAIN d = DOMAIN r /\ d.frame = f /\ d.server = r.server /\ d.later = << >>
  BY DEF RecordOK
<1>3. [r EXCEPT !.frame.refresh = FALSE] = d
  BY DEF RecordOK
<1> HIDE DEF d, f
<1>4. RecordOK(d) /\ Shows(r, d)
  BY <1>1, <1>2 DEF RecordOK, Shows, FrameOK, Flags
<1>5. /\ d.frame.initted = r.frame.initted /\ d.frame.mapped = r.frame.mapped
      /\ d.frame.resize = r.frame.resize /\ d.frame.redraw = r.frame.redraw
      /\ d.frame.area = r.frame.area /\ d.frame.width = r.frame.width
      /\ d.frame.prevWidth = r.frame.prevWidth /\ d.frame.view = r.frame.view
      /\ d.frame.early = r.frame.early /\ d.frame.drawing = r.frame.drawing
      /\ d.frame.at = r.frame.at /\ ~ d.frame.refresh
  BY <1>1, <1>2 DEF RecordOK, FrameOK
<1>6. /\ ViewKept(r) => ViewKept(d)
      /\ SizeKept(r) => SizeKept(d)
      /\ CrossKept(r) /\ Plain(r) => CrossKept(d) /\ Plain(d)
  BY <1>2, <1>5 DEF ViewKept, SizeKept, CrossKept, Plain, Tidy
<1>7. CASE ~ r.frame.mapped \/ ~ r.frame.refresh
  <2>1. t = d
    BY <1>3, <1>7 DEF Display
  <2> HIDE DEF t
  <2> QED BY <1>2, <1>4, <1>5, <1>6, <1>7, <2>1 DEF t
<1>8. CASE r.frame.mapped /\ r.frame.refresh /\ r.frame.resize
  <2> DEFINE g == [r.frame EXCEPT !.resize = FALSE]
  <2>1. FrameOK(g) /\ ~ g.resize /\ \A x \in DOMAIN r.frame \ {"resize"} : g[x] = r.frame[x]
    BY DEF RecordOK, FrameOK
  <2>2. t = [r EXCEPT !.frame.resize = FALSE, !.later = << "display" >>]
    BY <1>8 DEF Display
  <2>3. DOMAIN t = DOMAIN r /\ t.frame = g /\ t.server = r.server /\ t.later = << "display" >>
    BY <2>2 DEF RecordOK
  <2>4. << "display" >> \in Seq(Procs) /\ << "display" >> # << >>
    BY DEF Procs
  <2> HIDE DEF t, g
  <2>5. Shows(r, t)
    BY <2>1, <2>3, <2>4 DEF RecordOK, Shows, FrameOK, Flags
  <2>6. /\ g.initted = r.frame.initted /\ g.mapped = r.frame.mapped
        /\ g.refresh = r.frame.refresh /\ g.redraw = r.frame.redraw
        /\ g.area = r.frame.area /\ g.width = r.frame.width
        /\ g.prevWidth = r.frame.prevWidth /\ g.view = r.frame.view
        /\ g.early = r.frame.early /\ g.drawing = r.frame.drawing /\ g.at = r.frame.at
    BY <2>1 DEF RecordOK, FrameOK
  <2>7. /\ ViewKept(r) => ViewKept(t)
        /\ SizeKept(r) => SizeKept(t)
        /\ CrossKept(r) /\ Plain(r) => CrossKept(t)
    BY <2>3, <2>6 DEF ViewKept, SizeKept, CrossKept, Plain, Tidy
  <2> QED BY <1>8, <2>1, <2>3, <2>4, <2>5, <2>6, <2>7 DEF t
<1>9. CASE r.frame.mapped /\ r.frame.refresh /\ ~ r.frame.resize
  <2> DEFINE u == IF r.frame.redraw THEN Redrawn(d)
                  ELSE IF r.frame.width # r.frame.prevWidth THEN Resized(d)
                  ELSE Exposed(d)
  <2>1. t = Overlaid(u)
    BY <1>3, <1>9 DEF Display
  <2>2. /\ Shows(d, u) /\ u.later = << >> /\ ~ u.frame.redraw
        /\ u.frame.refresh = d.frame.refresh /\ u.frame.resize = d.frame.resize
        /\ ViewKept(d) => ViewKept(u)
        /\ u.server.blank => d.server.blank
        /\ u.server.blank /\ d.frame.initted => ~ d.frame.area /\ ~ u.frame.area
        /\ ~ d.frame.redraw => u.frame.width = u.frame.prevWidth /\ (SizeKept(d) => SizeKept(u))
        /\ CrossKept(d) /\ Plain(d) /\ ~ u.server.blank =>
             u.server.seen["xhairs"] = {} \/ ("xhairs" \notin d.frame.drawing /\ Tidy(u))
        /\ CrossKept(d) /\ Plain(d) /\ "xhairs" \notin d.frame.drawing => CrossKept(u)
    BY <1>2, <1>4, <1>5, PaintDoes
  <2> HIDE DEF u
  <2>3. /\ u.frame.drawing = d.frame.drawing /\ u.frame.initted = d.frame.initted
        /\ u.frame.early = d.frame.early /\ u.frame.at = d.frame.at
        /\ u.frame.width = d.frame.width
    BY <1>4, <2>2 DEF Shows, Flags, RecordOK, FrameOK
  <2>4. RecordOK(u) /\ Over(u, t) /\ t.frame = u.frame
        /\ ("rband" \notin u.frame.drawing =>
              t.server.seen["xhairs"] = IF "xhairs" \in u.frame.drawing
                                        THEN Flip(u.server.seen["xhairs"], u.frame.at["xhairs"])
                                        ELSE u.server.seen["xhairs"])
    BY <2>1, <2>2, OverlaidDoes DEF Shows
  <2> HIDE DEF t
  <2>5. t.later = << >> /\ \A x \in {"mapped", "width", "pointer", "drawn", "shown", "blank"} :
                             t.server[x] = u.server[x]
    BY <2>2, <2>4 DEF Over, RecordOK, ServerOK
  <2>6. Shows(r, t)
    BY <1>4, <2>2, <2>4, <2>5 DEF Shows, Over, Flags, RecordOK, FrameOK, ServerOK
  <2>7. ViewKept(r) => ViewKept(t)
    BY <1>6, <2>2, <2>4, <2>5 DEF ViewKept
  <2>8. ~ r.frame.redraw /\ SizeKept(r) => SizeKept(t)
    BY <1>5, <1>6, <2>2, <2>4, <2>5 DEF SizeKept
  <2>9. CrossKept(r) /\ Plain(r) => CrossKept(t)
    <3> SUFFICES ASSUME CrossKept(r), Plain(r), ~ t.server.blank PROVE Tidy(t)
      BY DEF CrossKept
    <3>1. CrossKept(d) /\ Plain(d) /\ ~ u.server.blank /\ "rband" \notin u.frame.drawing
      BY <1>6, <2>3, <2>5 DEF Plain
    <3>2. CASE "xhairs" \in u.frame.drawing
      <4>1. u.server.seen["xhairs"] = {}
        BY <2>2, <2>3, <3>1, <3>2
      <4> QED BY <2>4, <3>1, <3>2, <4>1 DEF Flip, Tidy
    <3>3. CASE "xhairs" \notin u.frame.drawing
      <4>1. Tidy(u)
        BY <2>2, <2>3, <3>1, <3>3 DEF CrossKept
      <4> QED BY <2>4, <3>1, <3>3, <4>1 DEF Tidy
    <3> QED BY <3>2, <3>3
  <2>10. /\ t.frame.drawing = r.frame.drawing /\ ~ t.frame.redraw /\ ~ t.frame.refresh
         /\ t.frame.resize = r.frame.resize
    BY <1>5, <2>2, <2>3, <2>4
  <2>11. /\ t.server.blank => r.server.blank
         /\ t.server.blank /\ r.frame.initted => ~ t.frame.area /\ ~ r.frame.area
    BY <1>2, <1>5, <2>2, <2>4, <2>5
  <2>12. ~ r.frame.redraw => t.frame.width = t.frame.prevWidth
    BY <1>5, <2>2, <2>4
  <2>13. r.frame.area \in BOOLEAN /\ t.frame.area \in BOOLEAN
    BY <2>6 DEF Shows, RecordOK, FrameOK
  <2>14. t.frame.width # t.frame.prevWidth => r.frame.width # r.frame.prevWidth
    <3>1. SUFFICES ASSUME r.frame.redraw, r.frame.width = r.frame.prevWidth
                   PROVE  t.frame.width = t.frame.prevWidth
      BY <2>12
    <3>2. u.frame.prevWidth = d.frame.prevWidth
      <4>1. u = Redrawn(d)
        BY <3>1 DEF u
      <4> QED BY <1>4, <4>1 DEF Redrawn, PlCmd, RecordOK, FrameOK
    <3> QED BY <1>5, <2>3, <2>4, <3>1, <3>2
  <2> QED BY <2>5, <2>6, <2>7, <2>8, <2>9, <2>10, <2>11, <2>12, <2>13, <2>14 DEF t
<1> QED BY <1>7, <1>8, <1>9 DEF RecordOK, FrameOK

\* PlFrameInit's first part: plinit measures the window and plbop shows a page.
LEMMA FirstDoes ==
  ASSUME NEW r, RecordOK(r),
         NEW t, t = IF r.frame.initted THEN r ELSE First(r)
  PROVE  /\ RecordOK(t) /\ t.later = r.later /\ t.frame.initted
         /\ \A x \in DOMAIN r.frame \ {"initted", "width", "prevWidth", "early"} : t.frame[x] = r.frame[x]
         /\ \A x \in {"mapped", "width", "pointer"} : t.server[x] = r.server[x]
         /\ ViewKept(r) => ViewKept(t)
         /\ t.server.blank => r.server.blank /\ r.frame.initted
         /\ SizeKept(r) => SizeKept(t)
         /\ r.frame.width = r.frame.tkWidth => t.frame.width = t.frame.tkWidth
         /\ t.frame.width # t.frame.prevWidth => r.frame.initted /\ r.frame.width # r.frame.prevWidth
         /\ CrossKept(r) /\ Plain(r) => CrossKept(t) /\ Plain(t)
<1>1. CASE r.frame.initted
  BY <1>1 DEF Plain, RecordOK
<1>2. CASE ~ r.frame.initted
  <2> DEFINE e == r.server.width # r.frame.tkWidth
             f == [r.frame EXCEPT !.initted = TRUE, !.width = r.frame.tkWidth,
                                  !.prevWidth = r.frame.tkWidth, !.early = e]
             s == [Painted(r.server) EXCEPT !.drawn = r.server.width, !.shown = r.frame.view]
  <2>1. e \in BOOLEAN
    OBVIOUS
  <2>2. DOMAIN t = DOMAIN r /\ t.frame = f /\ t.server = s /\ t.later = r.later
    BY <1>2 DEF First, RecordOK
  <2> HIDE DEF e
  <2>3. /\ FrameOK(f) /\ f.initted = TRUE /\ f.width = r.frame.tkWidth
        /\ f.prevWidth = r.frame.tkWidth /\ f.early = e
        /\ \A x \in DOMAIN r.frame \ {"initted", "width", "prevWidth", "early"} : f[x] = r.frame[x]
    BY <2>1 DEF RecordOK, FrameOK
  <2>4. /\ ServerOK(s) /\ s.drawn = r.server.width /\ s.shown = r.frame.view /\ ~ s.blank
        /\ s.seen["xhairs"] = {} /\ \A x \in {"mapped", "width", "pointer"} : s[x] = r.server[x]
    BY DEF Painted, None, RecordOK, FrameOK, ServerOK, Overlays
  <2> HIDE DEF f, s
  <2>5. RecordOK(t)
    BY <2>2, <2>3, <2>4 DEF RecordOK
  <2>6. /\ f.tkWidth = r.frame.tkWidth /\ f.view = r.frame.view /\ f.drawing = r.frame.drawing
    BY <2>3 DEF RecordOK, FrameOK
  <2>7. ViewKept(t)
    BY <2>2, <2>4, <2>6 DEF ViewKept
  <2>8. SizeKept(t)
    BY <2>2, <2>3, <2>4 DEF SizeKept, e
  <2>9. Plain(r) => CrossKept(t) /\ Plain(t)
    BY <1>2, <2>2, <2>3, <2>4, <2>6 DEF CrossKept, Plain, Tidy
  <2> QED BY <2>2, <2>3, <2>4, <2>5, <2>6, <2>7, <2>8, <2>9
<1> QED BY <1>1, <1>2

\* PlFrameInit, whenever it is called.
LEMMA FrameInitDoes ==
  ASSUME NEW r, RecordOK(r), r.later = << >>
  PROVE  LET t == FrameInit(r)
         IN  /\ RecordOK(t) /\ t.frame.initted
             /\ \A x \in {"alive", "mapped", "tkWidth", "view", "on"} : t.frame[x] = r.frame[x]
             /\ \A x \in {"mapped", "width", "pointer"} : t.server[x] = r.server[x]
             /\ t.later = << >> \/ (t.later = << "display" >> /\ r.frame.resize /\ ~ t.frame.resize)
             /\ t.frame.resize => r.frame.resize
             /\ t.frame.refresh => t.later # << >>
             /\ t.frame.redraw => r.frame.redraw
             /\ r.frame.mapped /\ t.frame.redraw => t.frame.refresh
             /\ ViewKept(r) => ViewKept(t)
             /\ t.server.blank => r.server.blank /\ r.frame.initted
             /\ t.server.blank => t.frame.area = r.frame.area
             /\ t.server.blank /\ r.frame.mapped /\ r.frame.area => t.frame.refresh
             /\ ~ r.frame.redraw /\ SizeKept(r) => SizeKept(t)
             /\ ~ r.frame.redraw /\ r.frame.mapped => t.frame.refresh \/ t.frame.width = t.frame.prevWidth
             /\ r.frame.width = r.frame.tkWidth => t.frame.width = t.frame.tkWidth
             /\ t.frame.drawing \subseteq r.frame.drawing \cup r.frame.on
             /\ CrossKept(r) /\ Plain(r) /\ "rband" \notin r.frame.on => CrossKept(t)
<1> DEFINE a == IF r.frame.initted THEN r ELSE First(r)
           f == [a.frame EXCEPT !.refresh = TRUE]
           b == [a EXCEPT !.frame = f]
           s == Display(b)
           c == IF "xhairs" \in r.frame.on THEN Create(s, "xhairs") ELSE s
           t == IF "rband" \in r.frame.on THEN Create(c, "rband") ELSE c
<1>1. FrameInit(r) = (LET first == a
                          shown == Display([first EXCEPT !.frame.refresh = TRUE])
                          cross == IF "xhairs" \in r.frame.on THEN Create(shown, "xhairs") ELSE shown
                      IN  IF "rband" \in r.frame.on THEN Create(cross, "rband") ELSE cross)
  BY DEF FrameInit
<1>2. /\ RecordOK(a) /\ a.later = << >> /\ a.frame.initted
      /\ \A x \in DOMAIN r.frame \ {"initted", "width", "prevWidth", "early"} : a.frame[x] = r.frame[x]
      /\ \A x \in {"mapped", "width", "pointer"} : a.server[x] = r.server[x]
      /\ ViewKept(r) => ViewKept(a)
      /\ a.server.blank => r.server.blank /\ r.frame.initted
      /\ SizeKept(r) => SizeKept(a)
      /\ r.frame.width = r.frame.tkWidth => a.frame.width = a.frame.tkWidth
      /\ CrossKept(r) /\ Plain(r) => CrossKept(a) /\ Plain(a)
  BY FirstDoes
<1> HIDE DEF a
<1>3. [a EXCEPT !.frame.refresh = TRUE] = b
  BY <1>2 DEF RecordOK
<1>4. FrameInit(r) = t
  BY <1>1, <1>3
<1>5. FrameOK(f) /\ f.refresh = TRUE /\ \A x \in DOMAIN a.frame \ {"refresh"} : f[x] = a.frame[x]
  BY <1>2 DEF RecordOK, FrameOK
<1>6. DOMAIN b = DOMAIN a /\ b.frame = f /\ b.server = a.server /\ b.later = << >>
  BY <1>2 DEF RecordOK
<1> HIDE DEF b, f
<1>7. RecordOK(b)
  BY <1>2, <1>5, <1>6 DEF RecordOK
<1>8. /\ b.frame.initted /\ b.frame.refresh /\ b.frame.mapped = r.frame.mapped
      /\ b.frame.alive = r.frame.alive /\ b.frame.tkWidth = r.frame.tkWidth
      /\ b.frame.resize = r.frame.resize /\ b.frame.redraw = r.frame.redraw
      /\ b.frame.area = r.frame.area /\ b.frame.width = a.frame.width
      /\ b.frame.prevWidth = a.frame.prevWidth /\ b.frame.view = r.frame.view
      /\ b.frame.early = a.frame.early /\ b.frame.drawing = r.frame.drawing
      /\ b.frame.at = r.frame.at /\ b.frame.on = r.frame.on
      /\ a.frame.view = r.frame.view /\ a.frame.redraw = r.frame.redraw /\ a.frame.at = r.frame.at
      /\ a.frame.drawing = r.frame.drawing /\ a.frame.tkWidth = r.frame.tkWidth
  BY <1>2, <1>5, <1>6 DEF RecordOK, FrameOK
<1>9. /\ ViewKept(r) => ViewKept(b)
      /\ SizeKept(r) => SizeKept(b)
      /\ CrossKept(r) /\ Plain(r) => CrossKept(b) /\ Plain(b)
  BY <1>2, <1>6, <1>8 DEF ViewKept, SizeKept, CrossKept, Plain, Tidy
<1>10. /\ Shows(b, s)
       /\ s.later = << >> \/ (s.later = << "display" >> /\ b.frame.resize /\ ~ s.frame.resize)
       /\ s.frame.resize => b.frame.resize
       /\ s.frame.refresh => s.later # << >>
       /\ s.frame.redraw => b.frame.redraw
       /\ b.frame.mapped /\ b.frame.refresh /\ s.frame.redraw => s.frame.refresh
       /\ ViewKept(b) => ViewKept(s)
       /\ s.server.blank => b.server.blank
       /\ s.server.blank /\ b.frame.initted => s.frame.area = b.frame.area
       /\ s.server.blank /\ b.frame.initted /\ b.frame.mapped /\ b.frame.refresh /\ b.frame.area =>
            s.frame.refresh
       /\ ~ b.frame.redraw /\ SizeKept(b) => SizeKept(s)
       /\ ~ b.frame.redraw /\ b.frame.mapped /\ b.frame.refresh =>
            s.frame.refresh \/ s.frame.width = s.frame.prevWidth
       /\ s.frame.drawing = b.frame.drawing
       /\ CrossKept(b) /\ Plain(b) => CrossKept(s)
  BY <1>6, <1>7, DisplayDoes
<1> HIDE DEF s
<1>11. /\ s.frame.initted /\ s.frame.alive = r.frame.alive /\ s.frame.mapped = r.frame.mapped
       /\ s.frame.tkWidth = r.frame.tkWidth /\ s.frame.view = r.frame.view /\ s.frame.on = r.frame.on
       /\ s.frame.width = a.frame.width
       /\ \A x \in {"mapped", "width", "pointer"} : s.server[x] = r.server[x]
  BY <1>2, <1>6, <1>7, <1>8, <1>10 DEF Shows, Flags, RecordOK, FrameOK
<1>12. "xhairs" \in Overlays /\ "rband" \in Overlays /\ Over(s, s)
  BY <1>10 DEF Overlays, Over, Shows
<1>13. /\ Over(s, c) /\ c.frame.drawing \subseteq s.frame.drawing \cup r.frame.on
       /\ Tidy(s) => Tidy(c)
  BY <1>10, <1>12, CreateDoes DEF Shows
<1> HIDE DEF c
<1>14. /\ Over(s, t) /\ t.frame.drawing \subseteq s.frame.drawing \cup r.frame.on
       /\ "rband" \notin r.frame.on /\ Tidy(s) => Tidy(t)
  <2>1. CASE "rband" \in r.frame.on
    <3>1. Over(c, t) /\ t.frame.drawing \subseteq c.frame.drawing \cup {"rband"}
      BY <1>12, <1>13, <2>1, CreateDoes DEF Over
    <3> HIDE DEF t
    <3>2. Over(s, t)
      BY <1>10, <1>13, <3>1, OverTwice DEF Shows
    <3> QED BY <1>13, <2>1, <3>1, <3>2
  <2>2. CASE "rband" \notin r.frame.on
    BY <1>13, <2>2
  <2> QED BY <2>1, <2>2
<1> HIDE DEF t
<1>15. /\ t.later = s.later /\ RecordOK(t)
       /\ \A x \in {"alive", "mapped", "tkWidth", "width", "prevWidth", "initted", "refresh",
                    "resize", "redraw", "area", "view", "early", "on"} : t.frame[x] = s.frame[x]
       /\ \A x \in {"mapped", "width", "pointer", "drawn", "blank", "shown"} : t.server[x] = s.server[x]
  BY <1>10, <1>14 DEF Over, Shows, RecordOK, FrameOK, ServerOK
<1>16. ViewKept(r) => ViewKept(t)
  BY <1>9, <1>10, <1>15 DEF ViewKept
<1>17. ~ r.frame.redraw /\ SizeKept(r) => SizeKept(t)
  BY <1>8, <1>9, <1>10, <1>15 DEF SizeKept
<1>18. CrossKept(r) /\ Plain(r) /\ "rband" \notin r.frame.on => CrossKept(t)
  BY <1>9, <1>10, <1>14, <1>15 DEF CrossKept
<1>19. /\ t.server.blank => r.server.blank /\ r.frame.initted
       /\ t.server.blank => t.frame.area = r.frame.area
       /\ t.server.blank /\ r.frame.mapped /\ r.frame.area => t.frame.refresh
  BY <1>2, <1>6, <1>8, <1>10, <1>15
<1>20. /\ ~ r.frame.redraw /\ r.frame.mapped => t.frame.refresh \/ t.frame.width = t.frame.prevWidth
       /\ r.frame.width = r.frame.tkWidth => t.frame.width = t.frame.tkWidth
  BY <1>2, <1>8, <1>10, <1>11, <1>15
<1>21. /\ t.later = << >> \/ (t.later = << "display" >> /\ r.frame.resize /\ ~ t.frame.resize)
       /\ t.frame.resize => r.frame.resize
       /\ t.frame.refresh => t.later # << >>
       /\ t.frame.redraw => r.frame.redraw
       /\ r.frame.mapped /\ t.frame.redraw => t.frame.refresh
  BY <1>8, <1>10, <1>15
<1>22. /\ t.frame.initted /\ t.frame.drawing \subseteq r.frame.drawing \cup r.frame.on
       /\ \A x \in {"alive", "mapped", "tkWidth", "view", "on"} : t.frame[x] = r.frame[x]
       /\ \A x \in {"mapped", "width", "pointer"} : t.server[x] = r.server[x]
  BY <1>8, <1>10, <1>11, <1>14, <1>15
<1> QED BY <1>4, <1>15, <1>16, <1>17, <1>18, <1>19, <1>20, <1>21, <1>22

-----------------------------------------------------------------------------
(* Events that come, and events that are handled.                          *)

\* An event behind the others.
LEMMA Arrives ==
  ASSUME NEW q \in Seq(Event), NEW e \in Event
  PROVE  LET p == Append(q, e)
         IN  /\ p \in Seq(Event) /\ Len(p) = Len(q) + 1
             /\ \A T : Coming(p, T) <=> Coming(q, T) \/ e.type \in T
             /\ \A T, i : IsLast(p, T, i) =>
                  \/ p[i] = e /\ e.type \in T
                  \/ i \in DOMAIN q /\ IsLast(q, T, i) /\ p[i] = q[i] /\ e.type \notin T
<1> DEFINE p == Append(q, e)
           n == Len(q)
<1>1. /\ p \in Seq(Event) /\ Len(p) = n + 1 /\ p[n + 1] = e /\ n \in Nat
      /\ \A k \in 1..n : p[k] = q[k]
      /\ DOMAIN q = 1..n /\ DOMAIN p = 1..n + 1
  BY AppendProperties, LenProperties
<1> HIDE DEF p, n
<1>2. DOMAIN p = DOMAIN q \cup {n + 1} /\ n + 1 \notin DOMAIN q /\ \A k \in DOMAIN q : k < n + 1
  BY <1>1
<1>3. ASSUME NEW T PROVE Coming(p, T) <=> Coming(q, T) \/ e.type \in T
  BY <1>1, <1>2 DEF Coming
<1>4. ASSUME NEW T, NEW i, IsLast(p, T, i)
      PROVE  \/ p[i] = e /\ e.type \in T
             \/ i \in DOMAIN q /\ IsLast(q, T, i) /\ p[i] = q[i] /\ e.type \notin T
  BY <1>1, <1>2, <1>4 DEF IsLast
<1> QED BY <1>1, <1>3, <1>4 DEF p, n

\* The first event is handled.
LEMMA Handled ==
  ASSUME NEW q \in Seq(Event), q # << >>
  PROVE  LET p == Tail(q)
             e == Head(q)
         IN  /\ p \in Seq(Event) /\ Len(p) = Len(q) - 1 /\ Len(q) \in Nat /\ e \in Event
             /\ \A T : /\ Coming(p, T) => Coming(q, T)
                       /\ Coming(q, T) => e.type \in T \/ Coming(p, T)
                       /\ e.type \in T /\ ~ Coming(p, T) => 1 \in DOMAIN q /\ IsLast(q, T, 1) /\ q[1] = e
             /\ \A T, i : IsLast(p, T, i) => i + 1 \in DOMAIN q /\ IsLast(q, T, i + 1) /\ p[i] = q[i + 1]
<1> DEFINE p == Tail(q)
           e == Head(q)
           n == Len(q)
<1>1. /\ p \in Seq(Event) /\ Len(p) = n - 1 /\ n \in Nat \ {0} /\ e = q[1] /\ e \in Event
      /\ \A k \in 1..(n - 1) : p[k] = q[k + 1]
      /\ DOMAIN q = 1..n /\ DOMAIN p = 1..(n - 1)
  BY HeadTailProperties, LenProperties, EmptySeq
<1> HIDE DEF p, n, e
<1>2. ASSUME NEW T
      PROVE  /\ Coming(p, T) => Coming(q, T)
             /\ Coming(q, T) => e.type \in T \/ Coming(p, T)
             /\ e.type \in T /\ ~ Coming(p, T) => 1 \in DOMAIN q /\ IsLast(q, T, 1) /\ q[1] = e
  <2>1. ASSUME Coming(p, T) PROVE Coming(q, T)
    <3>1. PICK k \in 1..(n - 1) : p[k].type \in T
      BY <1>1, <2>1 DEF Coming
    <3>2. k + 1 \in 1..n /\ q[k + 1].type \in T
      BY <1>1, <3>1
    <3> QED BY <1>1, <3>2 DEF Coming
  <2>2. ASSUME NEW k \in 1..n, k # 1, q[k].type \in T PROVE Coming(p, T)
    <3>1. k - 1 \in 1..(n - 1) /\ (k - 1) + 1 = k
      BY <1>1, <2>2
    <3>2. p[k - 1].type \in T
      BY <1>1, <2>2, <3>1
    <3> QED BY <1>1, <3>1, <3>2 DEF Coming
  <2> QED BY <1>1, <2>1, <2>2 DEF Coming, IsLast
<1>3. ASSUME NEW T, NEW i, IsLast(p, T, i)
      PROVE  i + 1 \in DOMAIN q /\ IsLast(q, T, i + 1) /\ p[i] = q[i + 1]
  <2>1. i \in 1..(n - 1) /\ p[i] = q[i + 1] /\ i + 1 \in 1..n /\ p[i].type \in T
    BY <1>1, <1>3 DEF IsLast
  <2>2. ASSUME NEW k \in 1..n, i + 1 < k PROVE q[k].type \notin T
    <3>1. k - 1 \in 1..(n - 1) /\ i < k - 1 /\ (k - 1) + 1 = k
      BY <1>1, <2>1, <2>2
    <3>2. p[k - 1].type \notin T /\ p[k - 1] = q[k]
      BY <1>1, <1>3, <3>1 DEF IsLast
    <3> QED BY <3>2
  <2> QED BY <1>1, <2>1, <2>2 DEF IsLast
<1> QED BY <1>1, <1>2, <1>3 DEF p, e, n

\* What Tk was told, and what it will be told, when an event comes.
LEMMA ToldArrives ==
  ASSUME NEW q \in Seq(Event), NEW e \in Event, NEW known, NEW actual, NEW now
  PROVE  LET p == Append(q, e)
         IN  /\ e.type \notin Mapping /\ ToldMapped(q, known, actual) => ToldMapped(p, known, actual)
             /\ e.type \in Mapping /\ (e.type = "map" <=> now) => ToldMapped(p, known, now)
             /\ e.type \notin Sizing /\ ToldSize(q, known, actual) => ToldSize(p, known, actual)
             /\ e.type \in Sizing /\ e.n = now => ToldSize(p, known, now)
<1> DEFINE p == Append(q, e)
<1>1. /\ \A T : Coming(p, T) <=> Coming(q, T) \/ e.type \in T
      /\ \A T, i : IsLast(p, T, i) =>
           \/ p[i] = e /\ e.type \in T
           \/ i \in DOMAIN q /\ IsLast(q, T, i) /\ p[i] = q[i] /\ e.type \notin T
  BY Arrives
<1> HIDE DEF p
<1>2. e.type \notin Mapping /\ ToldMapped(q, known, actual) => ToldMapped(p, known, actual)
  BY <1>1 DEF ToldMapped
<1>3. e.type \in Mapping /\ (e.type = "map" <=> now) => ToldMapped(p, known, now)
  BY <1>1 DEF ToldMapped
<1>4. e.type \notin Sizing /\ ToldSize(q, known, actual) => ToldSize(p, known, actual)
  BY <1>1 DEF ToldSize
<1>5. e.type \in Sizing /\ e.n = now => ToldSize(p, known, now)
  BY <1>1 DEF ToldSize
<1> QED BY <1>2, <1>3, <1>4, <1>5 DEF p

\* And when one is handled.
LEMMA ToldHandled ==
  ASSUME NEW q \in Seq(Event), q # << >>, NEW known, NEW actual, NEW now
  PROVE  LET p == Tail(q)
             e == Head(q)
         IN  /\ e.type \notin Mapping /\ ToldMapped(q, known, actual) => ToldMapped(p, known, actual)
             /\ e.type \in Mapping /\ (e.type = "map" <=> now) /\ ToldMapped(q, known, actual) =>
                  ToldMapped(p, now, actual)
             /\ e.type \notin Sizing /\ ToldSize(q, known, actual) => ToldSize(p, known, actual)
             /\ e.type \in Sizing /\ e.n = now /\ ToldSize(q, known, actual) => ToldSize(p, now, actual)
<1> DEFINE p == Tail(q)
           e == Head(q)
<1>1. /\ \A T : /\ Coming(p, T) => Coming(q, T)
                /\ Coming(q, T) => e.type \in T \/ Coming(p, T)
                /\ e.type \in T /\ ~ Coming(p, T) => 1 \in DOMAIN q /\ IsLast(q, T, 1) /\ q[1] = e
      /\ \A T, i : IsLast(p, T, i) => i + 1 \in DOMAIN q /\ IsLast(q, T, i + 1) /\ p[i] = q[i + 1]
  BY Handled
<1> HIDE DEF p, e
<1>2. e.type \notin Mapping /\ ToldMapped(q, known, actual) => ToldMapped(p, known, actual)
  BY <1>1 DEF ToldMapped
<1>3. e.type \in Mapping /\ (e.type = "map" <=> now) /\ ToldMapped(q, known, actual) =>
        ToldMapped(p, now, actual)
  BY <1>1 DEF ToldMapped
<1>4. e.type \notin Sizing /\ ToldSize(q, known, actual) => ToldSize(p, known, actual)
  BY <1>1 DEF ToldSize
<1>5. e.type \in Sizing /\ e.n = now /\ ToldSize(q, known, actual) => ToldSize(p, now, actual)
  BY <1>1 DEF ToldSize
<1> QED BY <1>2, <1>3, <1>4, <1>5 DEF p, e

-----------------------------------------------------------------------------
(* Idle callbacks.                                                         *)

\* Their lengths.
LEMMA Lengths == ASSUME NEW i, IdleOK(i) PROVE Len(i.now) \in Nat /\ Len(i.later) \in Nat
BY LenProperties DEF IdleOK

\* What is queued behind what waits.
LEMMA Behind ==
  ASSUME NEW i, IdleOK(i), NEW procs \in Seq(Procs),
         NEW j, j = [now |-> j.now, later |-> j.later], j.now = i.now, j.later = i.later \o procs
  PROVE  /\ IdleOK(j)
         /\ Len(i.later) \in Nat /\ Len(procs) \in Nat /\ Len(j.later) = Len(i.later) + Len(procs)
         /\ \A x : Waits(i, x) => Waits(j, x)
         /\ \A k \in DOMAIN procs : Waits(j, procs[k])
<1> DEFINE q == i.later
           p == q \o procs
<1>1. /\ p \in Seq(Procs) /\ Len(p) = Len(q) + Len(procs) /\ Len(q) \in Nat /\ Len(procs) \in Nat
      /\ \A k \in 1..Len(q) : p[k] = q[k]
      /\ \A k \in 1..Len(procs) : p[Len(q) + k] = procs[k]
      /\ DOMAIN q = 1..Len(q) /\ DOMAIN procs = 1..Len(procs) /\ DOMAIN p = 1..Len(q) + Len(procs)
  <2>1. q \in Seq(Procs)
    BY DEF IdleOK
  <2> HIDE DEF q
  <2>2. p \in Seq(Procs)
    BY <2>1, ConcatProperties
  <2> QED BY <2>1, <2>2, ConcatProperties, LenProperties
<1>2. j = [now |-> j.now, later |-> j.later] /\ DOMAIN j = {"now", "later"} /\ j.now = i.now /\ j.later = p
  OBVIOUS
<1> HIDE DEF p
<1>3. IdleOK(j)
  BY <1>1, <1>2 DEF IdleOK
<1>4. ASSUME NEW x, Waits(i, x) PROVE Waits(j, x)
  <2>1. CASE \E k \in DOMAIN i.now : i.now[k] = x
    BY <1>2, <2>1 DEF Waits
  <2>2. CASE \E k \in DOMAIN i.later : i.later[k] = x
    <3>1. PICK k \in 1..Len(q) : q[k] = x
      BY <1>1, <2>2
    <3> HIDE DEF q
    <3>2. k \in 1..Len(q) + Len(procs)
      BY <1>1
    <3>3. p[k] = x
      BY <1>1, <3>1
    <3> QED BY <1>1, <1>2, <3>2, <3>3 DEF Waits
  <2> QED BY <1>4, <2>1, <2>2 DEF Waits
<1>5. ASSUME NEW k \in DOMAIN procs PROVE Waits(j, procs[k])
  <2> HIDE DEF q
  <2>1. k \in 1..Len(procs) /\ Len(q) + k \in 1..Len(q) + Len(procs)
    BY <1>1
  <2>2. p[Len(q) + k] = procs[k]
    BY <1>1, <2>1
  <2> QED BY <1>1, <1>2, <2>1, <2>2 DEF Waits
<1> QED BY <1>1, <1>2, <1>3, <1>4, <1>5

\* Queued puts them there.
LEMMA QueuedDoes ==
  ASSUME NEW i, IdleOK(i), NEW procs \in Seq(Procs)
  PROVE  LET j == Queued(i, procs)
         IN  /\ IdleOK(j) /\ j.now = i.now
             /\ Len(i.later) \in Nat /\ Len(procs) \in Nat /\ Len(j.later) = Len(i.later) + Len(procs)
             /\ \A x : Waits(i, x) => Waits(j, x)
             /\ \A k \in DOMAIN procs : Waits(j, procs[k])
<1> DEFINE j == Queued(i, procs)
<1>1. j = [now |-> j.now, later |-> j.later] /\ j.now = i.now /\ j.later = i.later \o procs
  <2> DEFINE l == i.later \o procs
  <2>1. j = [i EXCEPT !.later = l]
    BY DEF Queued
  <2> HIDE DEF l, j
  <2>2. j = [now |-> j.now, later |-> j.later] /\ j.now = i.now /\ j.later = l
    BY <2>1 DEF IdleOK
  <2> QED BY <2>2 DEF l
<1> HIDE DEF j
<1> QED BY <1>1, Behind DEF j

\* One callback, or none.
LEMMA QueuedOne ==
  ASSUME NEW i, IdleOK(i), NEW x \in Procs
  PROVE  LET j == Queued(i, << x >>)
         IN  /\ IdleOK(j) /\ j.now = i.now /\ Len(i.later) \in Nat
             /\ Len(j.later) = Len(i.later) + 1 /\ Waits(j, x)
             /\ \A y : Waits(i, y) => Waits(j, y)
<1> DEFINE p == << x >>
<1>1. p \in Seq(Procs) /\ Len(p) = 1 /\ 1 \in DOMAIN p /\ p[1] = x
  OBVIOUS
<1> HIDE DEF p
<1> QED BY <1>1, QueuedDoes DEF p

\* Only a display is cancelled.
LEMMA InitsDoes ==
  ASSUME NEW q \in Seq(Procs)
  PROVE  /\ Inits(q) \in Seq(Procs) /\ Len(q) \in Nat /\ Len(Inits(q)) \in Nat /\ Len(Inits(q)) <= Len(q)
         /\ \A k \in DOMAIN q : q[k] = "init" => \E l \in DOMAIN Inits(q) : Inits(q)[l] = "init"
<1> DEFINE S == {k \in DOMAIN q : q[k] # "display"}
           n == Cardinality(S)
           p == [k \in 1..n |-> "init"]
<1>1. Len(q) \in Nat /\ DOMAIN q = 1..Len(q)
  BY LenProperties
<1>2. IsFiniteSet(1..Len(q)) /\ Cardinality(1..Len(q)) = Len(q)
  <2> DEFINE l == Len(q)
  <2>1. l \in Nat
    BY <1>1
  <2> HIDE DEF l
  <2>2. 1 \in Int /\ l \in Int /\ (IF 1 > l THEN 0 ELSE l - 1 + 1) = l
    BY <2>1
  <2>3. IsFiniteSet(1..l) /\ Cardinality(1..l) = IF 1 > l THEN 0 ELSE l - 1 + 1
    BY <2>2, FS_Interval
  <2> QED BY <2>2, <2>3 DEF l
<1>3. S \subseteq 1..Len(q)
  BY <1>1
<1> HIDE DEF S
<1>4. IsFiniteSet(S) /\ n <= Len(q) /\ n \in Nat
  BY <1>2, <1>3, FS_Subset, FS_CardinalityType
<1>5. Inits(q) = p
  BY DEF Inits, S
<1> HIDE DEF n
<1>6. p \in Seq(Procs) /\ Len(p) = n /\ DOMAIN p = 1..n
  <2>1. \A k \in 1..n : "init" \in Procs
    BY DEF Procs
  <2>2. p \in [1..n -> Procs]
    BY <2>1
  <2>3. p \in Seq(Procs)
    BY <1>4, <2>2, SeqDef
  <2>4. DOMAIN p = 1..n
    OBVIOUS
  <2> HIDE DEF p
  <2>5. Len(p) = n
    BY <1>4, <2>3, <2>4, LenProperties
  <2> QED BY <2>3, <2>4, <2>5
<1>7. ASSUME NEW k \in DOMAIN q, q[k] = "init" PROVE \E l \in DOMAIN p : p[l] = "init"
  <2>1. k \in S
    BY <1>7 DEF S
  <2>2. n # 0
    BY <1>4, <2>1, FS_EmptySet DEF n
  <2>3. 1 \in 1..n
    BY <1>4, <2>2
  <2> QED BY <2>3
<1> HIDE DEF p
<1> QED BY <1>1, <1>4, <1>5, <1>6, <1>7

\* What is left when displays are cancelled.
LEMMA CancelledDoes ==
  ASSUME IdleOK(idle)
  PROVE  /\ IdleOK(Cancelled)
         /\ Len(idle.now) \in Nat /\ Len(idle.later) \in Nat
         /\ Len(Cancelled.now) \in Nat /\ Len(Cancelled.now) <= Len(idle.now)
         /\ Len(Cancelled.later) \in Nat /\ Len(Cancelled.later) <= Len(idle.later)
         /\ Waits(idle, "init") => Waits(Cancelled, "init")
<1>1. /\ Cancelled = [now |-> Cancelled.now, later |-> Cancelled.later] /\ DOMAIN Cancelled = {"now", "later"}
      /\ Cancelled.now = Inits(idle.now) /\ Cancelled.later = Inits(idle.later)
  BY DEF Cancelled
<1>2. /\ Inits(idle.now) \in Seq(Procs) /\ Len(idle.now) \in Nat
      /\ Len(Inits(idle.now)) \in Nat /\ Len(Inits(idle.now)) <= Len(idle.now)
      /\ \A k \in DOMAIN idle.now : idle.now[k] = "init" =>
           \E l \in DOMAIN Inits(idle.now) : Inits(idle.now)[l] = "init"
  BY InitsDoes DEF IdleOK
<1>3. /\ Inits(idle.later) \in Seq(Procs) /\ Len(idle.later) \in Nat
      /\ Len(Inits(idle.later)) \in Nat /\ Len(Inits(idle.later)) <= Len(idle.later)
      /\ \A k \in DOMAIN idle.later : idle.later[k] = "init" =>
           \E l \in DOMAIN Inits(idle.later) : Inits(idle.later)[l] = "init"
  BY InitsDoes DEF IdleOK
<1> QED BY <1>1, <1>2, <1>3 DEF IdleOK, Waits

\* A callback is run: the others wait, and those that it queues.
LEMMA RunDoes ==
  ASSUME NEW i, IdleOK(i), i.now # << >>, NEW procs \in Seq(Procs),
         NEW j, j = [now |-> j.now, later |-> j.later], j.now = Tail(i.now), j.later = i.later \o procs
  PROVE  /\ IdleOK(j) /\ Head(i.now) \in Procs
         /\ Len(i.now) \in Nat /\ Len(j.now) = Len(i.now) - 1
         /\ Len(i.later) \in Nat /\ Len(procs) \in Nat /\ Len(j.later) = Len(i.later) + Len(procs)
         /\ \A x : Waits(i, x) /\ x # Head(i.now) => Waits(j, x)
         /\ \A k \in DOMAIN procs : Waits(j, procs[k])
<1> DEFINE n == i.now
           l == Len(n)
           t == Tail(n)
           u == [i EXCEPT !.now = t]
<1>1. n \in Seq(Procs) /\ n # << >>
  BY DEF IdleOK
<1> HIDE DEF n
<1>2. /\ t \in Seq(Procs) /\ Len(t) = l - 1 /\ l \in Nat \ {0} /\ Head(n) = n[1] /\ Head(n) \in Procs
      /\ \A k \in 1..(l - 1) : t[k] = n[k + 1]
      /\ DOMAIN n = 1..l /\ DOMAIN t = 1..(l - 1)
  BY <1>1, HeadTailProperties, LenProperties, EmptySeq
<1> HIDE DEF t, l
<1>3. u = [now |-> u.now, later |-> u.later] /\ DOMAIN u = {"now", "later"} /\ u.now = t /\ u.later = i.later
  BY DEF IdleOK
<1> HIDE DEF u
<1>4. IdleOK(u)
  BY <1>2, <1>3 DEF IdleOK
<1>5. ASSUME NEW x, Waits(i, x), x # Head(n) PROVE Waits(u, x)
  <2>1. ASSUME NEW k \in 1..l, n[k] = x PROVE Waits(u, x)
    <3>1. k - 1 \in 1..(l - 1) /\ (k - 1) + 1 = k
      BY <1>2, <1>5, <2>1
    <3> QED BY <1>2, <1>3, <2>1, <3>1 DEF Waits
  <2> QED BY <1>2, <1>3, <1>5, <2>1 DEF Waits, n
<1>6. /\ IdleOK(j) /\ j.now = t
      /\ Len(u.later) \in Nat /\ Len(procs) \in Nat /\ Len(j.later) = Len(u.later) + Len(procs)
      /\ \A x : Waits(u, x) => Waits(j, x)
      /\ \A k \in DOMAIN procs : Waits(j, procs[k])
  BY <1>3, <1>4, Behind DEF t, n
<1> QED BY <1>2, <1>3, <1>5, <1>6 DEF n, l

-----------------------------------------------------------------------------
(* What a step of the event loop takes away from the work, and adds.       *)

\* Of queue, "update"s, callbacks of now and later, and a resize put off.
LEMMA Sum ==
  ASSUME NEW q \in Nat, NEW u \in Nat, NEW n \in Nat, NEW l \in Nat, NEW z \in 0..3,
         NEW e \in Nat, NEW v \in Nat, NEW m \in Nat, NEW k \in Nat, NEW y \in 0..3,
         \/ e = q - 1 /\ v = u /\ m <= n /\ k <= l + 1
         \/ e = q - 1 /\ v <= u + 1 /\ m <= n /\ k <= l /\ y <= z
         \/ e = q /\ v = u - 1 /\ m = n /\ k = l + 1 /\ y <= z
         \/ e = q /\ v = u /\ m = n - 1 /\ k = l /\ y <= z
         \/ e = q /\ v = u /\ m = n - 1 /\ k = l + 1 /\ y = 0 /\ z = 3
         \/ e = q /\ v = u /\ n = 0 /\ l > 0 /\ m = l /\ k = 0 /\ y <= z
  PROVE  6 * e + 3 * v + m + 2 * k + y < 6 * q + 3 * u + n + 2 * l + z
OBVIOUS

\* A resize that is to be put off.
PutOff == IF frame.resize THEN 3 ELSE 0

\* Said of the state.
LEMMA WorkFalls ==
  ASSUME TypesInv, TypesInv',
         \/ /\ Len(queue') = Len(queue) - 1 /\ updating' = updating
            /\ Len(idle'.now) <= Len(idle.now) /\ Len(idle'.later) <= Len(idle.later) + 1
         \/ /\ Len(queue') = Len(queue) - 1 /\ updating' <= updating + 1
            /\ Len(idle'.now) <= Len(idle.now) /\ Len(idle'.later) <= Len(idle.later)
            /\ frame'.resize => frame.resize
         \/ /\ Len(queue') = Len(queue) /\ updating' = updating - 1
            /\ Len(idle'.now) = Len(idle.now) /\ Len(idle'.later) = Len(idle.later) + 1
            /\ frame'.resize => frame.resize
         \/ /\ Len(queue') = Len(queue) /\ updating' = updating
            /\ Len(idle'.now) = Len(idle.now) - 1
            /\ \/ Len(idle'.later) = Len(idle.later) /\ (frame'.resize => frame.resize)
               \/ Len(idle'.later) = Len(idle.later) + 1 /\ frame.resize /\ ~ frame'.resize
         \/ /\ Len(queue') = Len(queue) /\ updating' = updating /\ frame' = frame
            /\ Len(idle.now) = 0 /\ Len(idle.later) > 0
            /\ Len(idle'.now) = Len(idle.later) /\ Len(idle'.later) = 0
  PROVE  Work' < Work
<1> DEFINE q == Len(queue)
           u == updating
           n == Len(idle.now)
           l == Len(idle.later)
           z == PutOff
           e == Len(queue')
           v == updating'
           m == Len(idle'.now)
           k == Len(idle'.later)
           y == PutOff'
<1>1. Work = 6 * q + 3 * u + n + 2 * l + z
  BY DEF Work, PutOff
<1>2. Work' = 6 * e + 3 * v + m + 2 * k + y
  BY DEF Work, PutOff
<1>3. /\ z \in 0..3 /\ y \in 0..3 /\ ((frame'.resize => frame.resize) => y <= z)
      /\ frame.resize /\ ~ frame'.resize => y = 0 /\ z = 3
  BY DEF PutOff
<1>4. q \in Nat /\ n \in Nat /\ l \in Nat /\ u \in Nat
  BY Lengths, LenProperties DEF TypesInv
<1>5. e \in Nat /\ m \in Nat /\ k \in Nat /\ v \in Nat
  BY Lengths, LenProperties DEF TypesInv
<1>6. \/ e = q - 1 /\ v = u /\ m <= n /\ k <= l + 1
      \/ e = q - 1 /\ v <= u + 1 /\ m <= n /\ k <= l /\ y <= z
      \/ e = q /\ v = u - 1 /\ m = n /\ k = l + 1 /\ y <= z
      \/ e = q /\ v = u /\ m = n - 1 /\ k = l /\ y <= z
      \/ e = q /\ v = u /\ m = n - 1 /\ k = l + 1 /\ y = 0 /\ z = 3
      \/ e = q /\ v = u /\ n = 0 /\ l > 0 /\ m = l /\ k = 0 /\ y <= z
  BY <1>3
<1> HIDE DEF q, u, n, l, z, e, v, m, k, y
<1>7. 6 * e + 3 * v + m + 2 * k + y < 6 * q + 3 * u + n + 2 * l + z
  BY <1>3, <1>4, <1>5, <1>6, Sum
<1> QED BY <1>1, <1>2, <1>7

-----------------------------------------------------------------------------
(* The steps of the user.                                                  *)

\* Two events behind the others are one behind the other.
LEMMA Both ==
  ASSUME NEW q \in Seq(Event), NEW a \in Event, NEW b \in Event
  PROVE  q \o << a, b >> = Append(Append(q, a), b)
<1> DEFINE u == q \o << a, b >>
           v == Append(Append(q, a), b)
<1>1. << a, b >> \in Seq(Event) /\ Len(<< a, b >>) = 2 /\ << a, b >>[1] = a /\ << a, b >>[2] = b
  OBVIOUS
<1>2. /\ u \in Seq(Event) /\ Len(u) = Len(q) + 2 /\ Len(q) \in Nat
      /\ \A k \in 1..Len(q) : u[k] = q[k]
      /\ u[Len(q) + 1] = a /\ u[Len(q) + 2] = b
  BY <1>1, ConcatProperties
<1> DEFINE p == Append(q, a)
<1>3. /\ p \in Seq(Event) /\ Len(p) = Len(q) + 1 /\ p[Len(q) + 1] = a
      /\ \A k \in 1..Len(q) : p[k] = q[k]
  BY AppendProperties
<1>4. v = Append(p, b)
  OBVIOUS
<1> HIDE DEF p
<1>5. /\ v \in Seq(Event) /\ Len(v) = Len(p) + 1 /\ v[Len(p) + 1] = b
      /\ \A k \in 1..Len(p) : v[k] = p[k]
  BY <1>3, <1>4, AppendProperties
<1> HIDE DEF u, v
<1> DEFINE l == Len(q)
<1>6. l \in Nat /\ Len(u) = l + 2 /\ Len(v) = l + 2
  BY <1>2, <1>3, <1>5
<1>7. ASSUME NEW k \in 1..(l + 2) PROVE u[k] = v[k]
  <2>1. /\ \A m \in 1..l : u[m] = q[m]
        /\ \A m \in 1..l : p[m] = q[m]
        /\ \A m \in 1..(l + 1) : v[m] = p[m]
        /\ u[l + 1] = a /\ u[l + 2] = b /\ p[l + 1] = a /\ v[l + 2] = b
    BY <1>2, <1>3, <1>5
  <2> HIDE DEF l
  <2>2. k \in 1..l \/ k = l + 1 \/ k = l + 2
    BY <1>6
  <2>3. 1..l \subseteq 1..(l + 1) /\ l + 1 \in 1..(l + 1)
    BY <1>6
  <2>4. CASE k \in 1..l
    BY <2>1, <2>3, <2>4
  <2>5. CASE k = l + 1
    BY <2>1, <2>3, <2>5
  <2>6. CASE k = l + 2
    BY <2>1, <2>6
  <2> QED BY <2>2, <2>4, <2>5, <2>6
<1> HIDE DEF l
<1>8. u = v
  BY <1>2, <1>5, <1>6, <1>7, SeqEqual
<1> QED BY <1>8 DEF u, v

\* What happens to the window alone, with the events that tell of it.
LEMMA WindowKeeps ==
  ASSUME IInv, UNCHANGED << world, frame, idle, link, updating, used >>,
         steps' \in 0..MaxSteps, ServerOK(server'), queue' \in Seq(Event), Told',
         server'.shown = server.shown, server'.drawn = server.drawn,
         server'.blank => Coming(queue', {"expose"}) \/ (server.blank /\ ~ Coming(queue, {"expose"})),
         Coming(queue', Pointer) => Coming(queue, Pointer) \/ frame.watched,
         server'.mapped /\ ~ server'.blank => server.mapped /\ ~ server.blank /\ server'.seen = server.seen
  PROVE  IInv'
<1> USE DEF IInv
<1>1. TypesInv' /\ Served' /\ Started' /\ Within'
  BY DEF TypesInv, Served, Started, Within, Waiting
<1>2. Viewed'
  BY DEF Viewed, Due, Waiting
<1>3. Covered'
  BY DEF Covered, Due, Waiting
<1>4. Sized'
  BY DEF Sized, Due, Waiting
<1>5. Crossed'
  <2>1. server'.mapped /\ ~ server'.blank => (Tidy(State) => Tidy(State)')
    BY DEF Tidy, State
  <2> QED BY <2>1 DEF Crossed
<1> QED BY <1>1, <1>2, <1>3, <1>4, <1>5

\* An act is counted.
LEMMA ActCounts == ASSUME TypesInv, Act PROVE steps' \in 0..MaxSteps /\ frame.alive
BY PlFrameAssumption DEF TypesInv, Act

\* The events are events.
LEMMA EventsAre ==
  /\ \A t \in Kinds \ {"configure", "enter", "motion"} : Ev(t, 0) \in Event /\ Ev(t, 0).type = t
  /\ \A w \in Sizes : Ev("configure", w) \in Event /\ Ev("configure", w).type = "configure"
                      /\ Ev("configure", w).n = w
  /\ \A t \in {"enter", "motion"}, p \in Spots : Ev(t, p) \in Event /\ Ev(t, p).type = t
BY DEF Ev, Event, EventOK, Kinds

\* The user's acts.
LEMMA UserKeeps == IInv /\ User => IInv'
<1> SUFFICES ASSUME IInv, User PROVE IInv'
  OBVIOUS
<1>1. /\ TypesInv /\ Told /\ ServerOK(server) /\ queue \in Seq(Event)
      /\ frame.tkWidth \in Sizes
  BY DEF IInv, TypesInv, FrameOK
<1>2. CASE MapWindow
  <2> DEFINE a == Ev("map", 0)
             b == Ev("expose", 0)
             q == Append(queue, a)
  <2>1. a \in Event /\ a.type = "map" /\ b \in Event /\ b.type = "expose"
    BY EventsAre DEF Kinds
  <2>2. queue' = queue \o << a, b >> /\ X /\ Act
    BY <1>2 DEF MapWindow
  <2>3. /\ ServerOK(server') /\ server'.mapped /\ server'.blank /\ server'.width = server.width
        /\ server'.shown = server.shown /\ server'.drawn = server.drawn
    BY <1>1, <1>2 DEF MapWindow, Blanked, None, ServerOK
  <2> HIDE DEF a, b
  <2>4. queue' = Append(q, b)
    BY <1>1, <2>1, <2>2, Both
  <2>5. /\ q \in Seq(Event)
        /\ frame.alive => ToldMapped(q, frame.mapped, server'.mapped) /\ ToldSize(q, frame.tkWidth, server.width)
    BY <1>1, <2>1, <2>3, Arrives, ToldArrives DEF Told, Mapping, Sizing
  <2>6. /\ q \in Seq(Event) /\ \A T : Coming(q, T) <=> Coming(queue, T) \/ a.type \in T
    BY <1>1, <2>1, Arrives
  <2> HIDE DEF q
  <2>7. Told'
    BY <2>1, <2>2, <2>3, <2>4, <2>5, ToldArrives DEF Told, Mapping, Sizing, X
  <2>8. queue' \in Seq(Event) /\ \A T : Coming(queue', T) <=> Coming(q, T) \/ b.type \in T
    BY <2>1, <2>4, <2>6, Arrives
  <2>9. Coming(queue', {"expose"}) /\ (Coming(queue', Pointer) => Coming(queue, Pointer))
    BY <2>1, <2>6, <2>8 DEF Pointer
  <2> QED BY <1>1, <2>2, <2>3, <2>7, <2>8, <2>9, WindowKeeps, ActCounts DEF X
<1>3. CASE UnmapWindow
  <2> DEFINE a == Ev("unmap", 0)
  <2>1. a \in Event /\ a.type = "unmap"
    BY EventsAre DEF Kinds
  <2>2. queue' = Append(queue, a) /\ X /\ Act
    BY <1>3 DEF UnmapWindow
  <2>3. /\ ServerOK(server') /\ ~ server'.mapped /\ server'.blank = server.blank
        /\ server'.width = server.width
        /\ server'.shown = server.shown /\ server'.drawn = server.drawn
    BY <1>1, <1>3 DEF UnmapWindow, None, ServerOK
  <2> HIDE DEF a
  <2>4. queue' \in Seq(Event) /\ \A T : Coming(queue', T) <=> Coming(queue, T) \/ a.type \in T
    BY <1>1, <2>1, <2>2, Arrives
  <2>5. Told'
    BY <1>1, <2>1, <2>2, <2>3, ToldArrives DEF Told, Mapping, Sizing, X
  <2>6. (Coming(queue', {"expose"}) <=> Coming(queue, {"expose"}))
        /\ (Coming(queue', Pointer) => Coming(queue, Pointer))
    BY <2>1, <2>4 DEF Pointer
  <2> QED BY <1>1, <2>2, <2>3, <2>4, <2>5, <2>6, WindowKeeps, ActCounts DEF X
<1>4. CASE ResizeWindow
  <2> PICK w \in Sizes \ {server.width} :
         LET s == [server EXCEPT !.width = w]
         IN  /\ server' = IF s.mapped THEN Blanked(s) ELSE s
             /\ queue' = queue \o IF s.mapped THEN << Ev("configure", w), Ev("expose", 0) >>
                                  ELSE << Ev("configure", w) >>
    BY <1>4 DEF ResizeWindow
  <2> DEFINE a == Ev("configure", w)
             b == Ev("expose", 0)
             q == Append(queue, a)
             s == [server EXCEPT !.width = w]
  <2>1. a \in Event /\ a.type = "configure" /\ a.n = w /\ b \in Event /\ b.type = "expose"
    BY EventsAre DEF Kinds
  <2>2. X /\ Act
    BY <1>4 DEF ResizeWindow
  <2>3. /\ ServerOK(s) /\ s.mapped = server.mapped /\ s.width = w /\ s.seen = server.seen
        /\ s.shown = server.shown /\ s.drawn = server.drawn /\ s.blank = server.blank
    BY <1>1 DEF ServerOK
  <2>4. /\ server' = IF s.mapped THEN Blanked(s) ELSE s
        /\ queue' = queue \o IF s.mapped THEN << a, b >> ELSE << a >>
    OBVIOUS
  <2> HIDE DEF s
  <2>5. /\ ServerOK(server') /\ server'.mapped = server.mapped /\ server'.width = w
        /\ server'.shown = server.shown /\ server'.drawn = server.drawn
        /\ server'.mapped => server'.blank
        /\ ~ server'.mapped => server'.blank = server.blank
    BY <2>3, <2>4 DEF Blanked, None, ServerOK
  <2> HIDE DEF a, b
  <2>6. server.mapped => queue' = Append(q, b)
    BY <1>1, <2>1, <2>3, <2>4, Both
  <2>7. ~ server.mapped => queue' = q
    BY <1>1, <2>1, <2>3, <2>4
  <2>8. /\ q \in Seq(Event)
        /\ frame.alive => ToldMapped(q, frame.mapped, server.mapped) /\ ToldSize(q, frame.tkWidth, w)
    <3>1. q \in Seq(Event)
      BY <1>1, <2>1, Arrives
    <3>2. frame.alive => ToldMapped(q, frame.mapped, server.mapped)
      BY <1>1, <2>1, ToldArrives DEF Told, Mapping
    <3>3. ToldSize(q, frame.tkWidth, w)
      BY <1>1, <2>1, ToldArrives DEF Sizing
    <3> QED BY <3>1, <3>2, <3>3
  <2>9. \A T : Coming(q, T) <=> Coming(queue, T) \/ a.type \in T
    BY <1>1, <2>1, Arrives
  <2> HIDE DEF q
  <2>10. Told'
    BY <2>1, <2>2, <2>5, <2>6, <2>7, <2>8, ToldArrives DEF Told, Mapping, Sizing, X
  <2>11. queue' \in Seq(Event) /\ \A T : Coming(queue', T) <=> Coming(q, T) \/ (server.mapped /\ b.type \in T)
    <3>1. CASE server.mapped
      <4> DEFINE p == Append(q, b)
      <4>1. p \in Seq(Event) /\ \A T : Coming(p, T) <=> Coming(q, T) \/ b.type \in T
        BY <2>1, <2>8, Arrives
      <4>2. queue' = p
        BY <2>6, <3>1
      <4> HIDE DEF p
      <4> QED BY <3>1, <4>1, <4>2
    <3>2. CASE ~ server.mapped
      BY <2>7, <2>8, <3>2
    <3> QED BY <3>1, <3>2
  <2>12. /\ server.mapped => Coming(queue', {"expose"})
         /\ ~ server.mapped => (Coming(queue', {"expose"}) <=> Coming(queue, {"expose"}))
         /\ Coming(queue', Pointer) => Coming(queue, Pointer)
    BY <2>1, <2>9, <2>11 DEF Pointer
  <2>13. server.mapped \in BOOLEAN
    BY <1>1 DEF ServerOK
  <2> QED BY <1>1, <2>2, <2>5, <2>10, <2>11, <2>12, <2>13, WindowKeeps, ActCounts DEF X
<1>5. CASE Uncover
  <2> DEFINE a == Ev("expose", 0)
  <2>1. a \in Event /\ a.type = "expose"
    BY EventsAre DEF Kinds
  <2>2. queue' = Append(queue, a) /\ X /\ Act
    BY <1>5 DEF Uncover
  <2>3. /\ ServerOK(server') /\ server'.blank /\ server'.mapped = server.mapped
        /\ server'.width = server.width
        /\ server'.shown = server.shown /\ server'.drawn = server.drawn
    BY <1>1, <1>5 DEF Uncover, Blanked, None, ServerOK
  <2> HIDE DEF a
  <2>4. queue' \in Seq(Event) /\ \A T : Coming(queue', T) <=> Coming(queue, T) \/ a.type \in T
    BY <1>1, <2>1, <2>2, Arrives
  <2>5. Told'
    BY <1>1, <2>1, <2>2, <2>3, ToldArrives DEF Told, Mapping, Sizing, X
  <2>6. Coming(queue', {"expose"}) /\ (Coming(queue', Pointer) => Coming(queue, Pointer))
    BY <2>1, <2>4 DEF Pointer
  <2> QED BY <1>1, <2>2, <2>3, <2>4, <2>5, <2>6, WindowKeeps, ActCounts DEF X
<1>6. CASE MovePointer
  <2> PICK p \in (Places \cup {Outside}) \ {server.pointer} :
         /\ server' = [server EXCEPT !.pointer = p]
         /\ queue' = IF ~ frame.watched THEN queue
                     ELSE Append(queue, IF p = Outside THEN Ev("leave", 0)
                                        ELSE IF server.pointer = Outside THEN Ev("enter", p)
                                        ELSE Ev("motion", p))
    BY <1>6 DEF MovePointer
  <2> DEFINE a == IF p = Outside THEN Ev("leave", 0)
                  ELSE IF server.pointer = Outside THEN Ev("enter", p)
                  ELSE Ev("motion", p)
  <2>1. a \in Event /\ a.type \in Pointer
    BY EventsAre DEF Kinds, Pointer, Spots
  <2>2. (queue' = IF ~ frame.watched THEN queue ELSE Append(queue, a)) /\ X /\ Act
    BY <1>6 DEF MovePointer
  <2>3. /\ ServerOK(server') /\ server'.blank = server.blank /\ server'.mapped = server.mapped
        /\ server'.width = server.width /\ server'.seen = server.seen
        /\ server'.shown = server.shown /\ server'.drawn = server.drawn
    BY <1>1 DEF ServerOK, Spots
  <2> HIDE DEF a
  <2>4. queue' \in Seq(Event) /\ \A T : Coming(queue', T) <=> Coming(queue, T) \/ (frame.watched /\ a.type \in T)
    BY <1>1, <2>1, <2>2, Arrives
  <2>5. Told'
    BY <1>1, <2>1, <2>2, <2>3, ToldArrives DEF Told, Mapping, Sizing, Pointer, X
  <2>6. (Coming(queue', {"expose"}) <=> Coming(queue, {"expose"}))
        /\ (Coming(queue', Pointer) => Coming(queue, Pointer) \/ frame.watched)
    BY <2>1, <2>4 DEF Pointer
  <2> QED BY <1>1, <2>2, <2>3, <2>4, <2>5, <2>6, WindowKeeps, ActCounts DEF X
<1> QED BY <1>2, <1>3, <1>4, <1>5, <1>6 DEF User

-----------------------------------------------------------------------------
(* The steps that note what is to be done.                                 *)

\* A display is asked for.
LEMMA AskDoes ==
  ASSUME NEW f, FrameOK(f), NEW i, IdleOK(i), Ask(f, i)
  PROVE  /\ FrameOK(frame') /\ frame'.refresh /\ \A x \in DOMAIN f \ {"refresh"} : frame'[x] = f[x]
         /\ IdleOK(idle') /\ idle'.now = i.now
         /\ Len(i.later) \in Nat /\ Len(idle'.later) \in Nat /\ Len(idle'.later) <= Len(i.later) + 1
         /\ \A x : Waits(i, x) => Waits(idle', x)
         /\ ~ f.refresh => Waits(idle', "display")
<1>1. FrameOK(frame') /\ frame'.refresh /\ \A x \in DOMAIN f \ {"refresh"} : frame'[x] = f[x]
  BY DEF Ask, FrameOK
<1>2. idle' = IF f.refresh THEN i ELSE Queued(i, << "display" >>)
  BY DEF Ask
<1>3. "display" \in Procs
  BY DEF Procs
<1>4. CASE f.refresh
  <2>1. Len(i.later) \in Nat
    BY LenProperties DEF IdleOK
  <2>2. idle' = i
    BY <1>2, <1>4
  <2> QED BY <1>1, <1>4, <2>1, <2>2
<1>5. CASE ~ f.refresh
  <2> DEFINE j == Queued(i, << "display" >>)
  <2>1. /\ IdleOK(j) /\ j.now = i.now /\ Len(i.later) \in Nat
        /\ Len(j.later) = Len(i.later) + 1 /\ Waits(j, "display")
        /\ \A y : Waits(i, y) => Waits(j, y)
    BY <1>3, QueuedOne
  <2>2. idle' = j
    BY <1>2, <1>5
  <2> HIDE DEF j
  <2> QED BY <1>1, <1>5, <2>1, <2>2
<1> QED BY <1>4, <1>5

\* What an event leaves, and the next events.
LEMMA HandleDoes ==
  ASSUME TypesInv, NEW t, Handle(t)
  PROVE  /\ frame.alive /\ queue # << >> /\ queue' = Tail(queue) /\ Head(queue).type = t /\ EventOK(Head(queue))
         /\ queue' \in Seq(Event) /\ Len(queue) \in Nat /\ Len(queue') = Len(queue) - 1
         /\ world' = world /\ link' = link /\ used' = used /\ steps' = steps /\ idle.now = << >>
         /\ \A T : /\ Coming(queue', T) => Coming(queue, T)
                   /\ t \notin T /\ Coming(queue, T) => Coming(queue', T)
<1>1. queue \in Seq(Event) /\ queue # << >> /\ queue' = Tail(queue) /\ Head(queue).type = t
  BY DEF TypesInv, Handle
<1>2. /\ Tail(queue) \in Seq(Event) /\ Len(Tail(queue)) = Len(queue) - 1 /\ Len(queue) \in Nat
      /\ Head(queue) \in Event
      /\ \A T : /\ Coming(Tail(queue), T) => Coming(queue, T)
                /\ Coming(queue, T) => Head(queue).type \in T \/ Coming(Tail(queue), T)
  BY <1>1, Handled
<1>3. EventOK(Head(queue))
  BY <1>2 DEF Event
<1> QED BY <1>1, <1>2, <1>3 DEF Handle

\* What is noted in the flags, but for a redraw, and in the idle callbacks.
LEMMA NotedKeeps ==
  ASSUME IInv, TypesInv', Served', Told', UNCHANGED << world, server >>,
         \A x \in {"alive", "initted", "redraw", "prevWidth", "drawing", "at", "watched", "view",
                   "early", "on"} : frame'[x] = frame[x],
         frame'.mapped => Waiting' \/ (frame.mapped /\ (Waiting => Waiting')),
         frame'.mapped => Due' \/ (frame.mapped /\ frame'.width = frame.width /\ (Due => Due')),
         world \cap Overlays = {} /\ Coming(queue, {"expose"}) =>
           Coming(queue', {"expose"}) \/ (frame'.area /\ (frame'.mapped => Due')),
         frame.area => frame'.area,
         frame.width = frame.tkWidth => frame'.width = frame'.tkWidth,
         Coming(queue', Pointer) => Coming(queue, Pointer)
  PROVE  IInv'
<1> USE DEF IInv
<1>1. Started' /\ Within'
  BY DEF Started, Within
<1>2. Viewed'
  BY DEF Viewed
<1>3. Covered'
  BY DEF Covered
<1>4. Sized'
  BY DEF Sized
<1>5. Crossed'
  <2>1. Tidy(State) => Tidy(State)'
    BY DEF Tidy, State
  <2> QED BY <2>1 DEF Crossed
<1> QED BY <1>1, <1>2, <1>3, <1>4, <1>5

\* An event that was not told of the window.
LEMMA ToldOn ==
  ASSUME TypesInv, Told, NEW t, Handle(t), server' = server,
         frame'.alive = frame.alive,
         t \notin Mapping => frame'.mapped = frame.mapped,
         t \in Mapping => (t = "map" <=> frame'.mapped),
         t \notin Sizing => frame'.tkWidth = frame.tkWidth,
         t \in Sizing => Head(queue).n = frame'.tkWidth
  PROVE  Told'
<1>1. queue \in Seq(Event) /\ queue # << >> /\ queue' = Tail(queue) /\ Head(queue).type = t /\ frame.alive
  BY DEF TypesInv, Handle
<1>2. ToldMapped(queue, frame.mapped, server.mapped) /\ ToldSize(queue, frame.tkWidth, server.width)
  BY <1>1 DEF Told
<1>3. ToldMapped(queue', frame'.mapped, server.mapped)
  BY <1>1, <1>2, ToldHandled
<1>4. ToldSize(queue', frame'.tkWidth, server.width)
  BY <1>1, <1>2, ToldHandled
<1> QED BY <1>3, <1>4 DEF Told

\* The window has another size.
LEMMA ConfigureNotifyKeeps == IInv /\ ConfigureNotify => IInv' /\ Work' < Work
<1> SUFFICES ASSUME IInv, ConfigureNotify PROVE IInv' /\ Work' < Work
  OBVIOUS
<1> DEFINE w == Head(queue).n
           f == [frame EXCEPT !.tkWidth = w, !.width = w, !.resize = TRUE]
<1>1. TypesInv /\ Told /\ Served /\ Handle("configure") /\ Ask(f, idle) /\ server' = server /\ updating' = updating
  BY DEF IInv, ConfigureNotify
<1>2. /\ frame.alive /\ EventOK(Head(queue)) /\ Head(queue).type = "configure" /\ queue' \in Seq(Event)
      /\ world' = world /\ link' = link /\ used' = used /\ steps' = steps
      /\ Len(queue) \in Nat /\ Len(queue') = Len(queue) - 1
      /\ \A T : /\ Coming(queue', T) => Coming(queue, T)
                /\ "configure" \notin T /\ Coming(queue, T) => Coming(queue', T)
  BY <1>1, HandleDoes
<1>3. w \in Sizes
  BY <1>2 DEF EventOK
<1> HIDE DEF w
<1>4. /\ FrameOK(f) /\ f.tkWidth = w /\ f.width = w
      /\ \A x \in DOMAIN frame \ {"tkWidth", "width", "resize"} : f[x] = frame[x]
  BY <1>1, <1>3 DEF TypesInv, FrameOK
<1> HIDE DEF f
<1>5. /\ FrameOK(frame') /\ frame'.refresh /\ \A x \in DOMAIN f \ {"refresh"} : frame'[x] = f[x]
      /\ IdleOK(idle') /\ \A x : Waits(idle, x) => Waits(idle', x)
      /\ ~ f.refresh => Waits(idle', "display")
      /\ idle'.now = idle.now /\ Len(idle'.later) \in Nat /\ Len(idle'.later) <= Len(idle.later) + 1
  BY <1>1, <1>4, AskDoes DEF TypesInv
<1>6. /\ \A x \in {"alive", "mapped", "initted", "redraw", "prevWidth", "drawing", "at", "watched", "view",
                   "early", "on", "area"} : frame'[x] = frame[x]
      /\ frame'.tkWidth = w /\ frame'.width = w /\ f.refresh = frame.refresh
  BY <1>1, <1>4, <1>5 DEF TypesInv, FrameOK
<1>7. TypesInv'
  BY <1>1, <1>2, <1>5 DEF TypesInv
<1>8. Served' /\ Due' /\ (Waiting => Waiting')
  BY <1>1, <1>2, <1>5, <1>6 DEF Served, Due, Waiting
<1>9. Told'
  BY <1>1, <1>6, ToldOn DEF Mapping, Sizing, w
<1>10. IInv'
  BY <1>1, <1>2, <1>6, <1>7, <1>8, <1>9, NotedKeeps DEF Sizing, Pointer
<1>11. Work' < Work
  BY <1>1, <1>2, <1>5, <1>7, WorkFalls
<1> QED BY <1>10, <1>11

\* The window is mapped.
LEMMA MapNotifyKeeps == IInv /\ MapNotify => IInv' /\ Work' < Work
<1> SUFFICES ASSUME IInv, MapNotify PROVE IInv' /\ Work' < Work
  OBVIOUS
<1> DEFINE i == IF frame.refresh THEN Cancelled ELSE idle
<1>1. /\ TypesInv /\ Told /\ Served /\ Handle("map") /\ server' = server
      /\ frame' = [frame EXCEPT !.mapped = TRUE]
      /\ IF frame.initted THEN idle' = Queued(i, << "init" >>) /\ updating' = updating
         ELSE idle' = i /\ updating' = updating + 1
  BY DEF IInv, MapNotify
<1>2. /\ frame.alive /\ queue' \in Seq(Event)
      /\ world' = world /\ link' = link /\ used' = used /\ steps' = steps
      /\ Len(queue) \in Nat /\ Len(queue') = Len(queue) - 1
      /\ \A T : /\ Coming(queue', T) => Coming(queue, T)
                /\ "map" \notin T /\ Coming(queue, T) => Coming(queue', T)
  BY <1>1, HandleDoes
<1>3. /\ IdleOK(i) /\ Len(i.now) \in Nat /\ Len(i.now) <= Len(idle.now) /\ Len(idle.now) \in Nat
      /\ Len(i.later) \in Nat /\ Len(i.later) <= Len(idle.later) /\ Len(idle.later) \in Nat
  BY <1>1, CancelledDoes, Lengths DEF TypesInv
<1> HIDE DEF i
<1>4. /\ FrameOK(frame') /\ frame'.mapped
      /\ \A x \in DOMAIN frame \ {"mapped"} : frame'[x] = frame[x]
  BY <1>1 DEF TypesInv, FrameOK
<1>5. /\ \A x \in {"alive", "initted", "redraw", "prevWidth", "drawing", "at", "watched", "view",
                   "early", "on", "area", "tkWidth", "width", "resize"} : frame'[x] = frame[x]
  BY <1>1, <1>4 DEF TypesInv, FrameOK
<1>6. /\ IdleOK(idle') /\ updating' \in Nat /\ (Waits(idle', "init") \/ updating' > 0)
      /\ idle'.now = i.now /\ Len(idle'.later) \in Nat
      /\ \/ Len(idle'.later) = Len(i.later) + 1 /\ updating' = updating
         \/ Len(idle'.later) = Len(i.later) /\ updating' = updating + 1
  <2>1. CASE frame.initted
    <3>1. "init" \in Procs
      BY DEF Procs
    <3> DEFINE j == Queued(i, << "init" >>)
    <3>2. IdleOK(j) /\ Waits(j, "init") /\ j.now = i.now /\ Len(j.later) = Len(i.later) + 1
      BY <1>3, <3>1, QueuedOne
    <3>3. idle' = j /\ updating' = updating
      BY <1>1, <2>1
    <3> HIDE DEF j
    <3> QED BY <1>1, <1>3, <3>2, <3>3 DEF TypesInv
  <2>2. CASE ~ frame.initted
    BY <1>1, <1>3, <2>2 DEF TypesInv
  <2> QED BY <2>1, <2>2
<1>7. TypesInv'
  BY <1>1, <1>2, <1>4, <1>6 DEF TypesInv
<1>8. Served' /\ Due' /\ Waiting'
  BY <1>6 DEF Served, Due, Waiting
<1>9. Told'
  BY <1>1, <1>4, <1>5, ToldOn DEF Mapping, Sizing
<1>10. IInv'
  BY <1>1, <1>2, <1>5, <1>7, <1>8, <1>9, NotedKeeps DEF Pointer
<1>11. Work' < Work
  BY <1>1, <1>2, <1>3, <1>5, <1>6, <1>7, WorkFalls DEF TypesInv
<1> QED BY <1>10, <1>11

\* The window is unmapped.
LEMMA UnmapNotifyKeeps == IInv /\ UnmapNotify => IInv' /\ Work' < Work
<1> SUFFICES ASSUME IInv, UnmapNotify PROVE IInv' /\ Work' < Work
  OBVIOUS
<1>1. /\ TypesInv /\ Told /\ Served /\ Handle("unmap") /\ server' = server
      /\ frame' = [frame EXCEPT !.mapped = FALSE] /\ idle' = idle /\ updating' = updating
  BY DEF IInv, UnmapNotify
<1>2. /\ frame.alive /\ queue' \in Seq(Event)
      /\ world' = world /\ link' = link /\ used' = used /\ steps' = steps
      /\ Len(queue) \in Nat /\ Len(queue') = Len(queue) - 1
      /\ \A T : /\ Coming(queue', T) => Coming(queue, T)
                /\ "unmap" \notin T /\ Coming(queue, T) => Coming(queue', T)
  BY <1>1, HandleDoes
<1>3. /\ FrameOK(frame') /\ ~ frame'.mapped
      /\ \A x \in DOMAIN frame \ {"mapped"} : frame'[x] = frame[x]
  BY <1>1 DEF TypesInv, FrameOK
<1>4. /\ \A x \in {"alive", "initted", "redraw", "prevWidth", "drawing", "at", "watched", "view",
                   "early", "on", "area", "tkWidth", "width", "refresh", "resize"} : frame'[x] = frame[x]
  BY <1>1, <1>3 DEF TypesInv, FrameOK
<1>5. TypesInv'
  BY <1>1, <1>2, <1>3 DEF TypesInv
<1>6. Served'
  BY <1>1, <1>4 DEF Served
<1>7. Told'
  BY <1>1, <1>3, <1>4, ToldOn DEF Mapping, Sizing
<1>8. IInv'
  BY <1>1, <1>2, <1>3, <1>4, <1>5, <1>6, <1>7, NotedKeeps DEF Pointer
<1>9. Work' < Work
  BY <1>1, <1>2, <1>4, <1>5, Lengths, WorkFalls DEF TypesInv
<1> QED BY <1>8, <1>9

\* The window is exposed.
LEMMA ExposeKeeps == IInv /\ Expose => IInv' /\ Work' < Work
<1> SUFFICES ASSUME IInv, Expose PROVE IInv' /\ Work' < Work
  OBVIOUS
<1> DEFINE a == frame.area \/ frame.drawing = {}
           g == [frame EXCEPT !.area = a]
           f == IF g.refresh THEN g ELSE [g EXCEPT !.width = g.tkWidth]
<1>1. /\ TypesInv /\ Told /\ Served /\ Within /\ Handle("expose") /\ server' = server /\ updating' = updating
      /\ Ask(f, idle)
  BY DEF IInv, Expose
<1>2. /\ frame.alive /\ queue' \in Seq(Event)
      /\ world' = world /\ link' = link /\ used' = used /\ steps' = steps
      /\ Len(queue) \in Nat /\ Len(queue') = Len(queue) - 1
      /\ \A T : /\ Coming(queue', T) => Coming(queue, T)
                /\ "expose" \notin T /\ Coming(queue, T) => Coming(queue', T)
  BY <1>1, HandleDoes
<1>3. a \in BOOLEAN
  OBVIOUS
<1>4. frame.area => a
  OBVIOUS
<1>5. world \cap Overlays = {} => a
  BY <1>1 DEF Within, TypesInv, FrameOK
<1> HIDE DEF a
<1>6. /\ FrameOK(g) /\ g.area = a /\ \A x \in DOMAIN frame \ {"area"} : g[x] = frame[x]
  BY <1>1, <1>3 DEF TypesInv, FrameOK
<1> HIDE DEF g
<1>7. /\ FrameOK(f) /\ (f.width = g.width \/ f.width = g.tkWidth)
      /\ \A x \in DOMAIN g \ {"width"} : f[x] = g[x]
  BY <1>6 DEF FrameOK
<1> HIDE DEF f
<1>8. /\ FrameOK(frame') /\ frame'.refresh /\ \A x \in DOMAIN f \ {"refresh"} : frame'[x] = f[x]
      /\ IdleOK(idle') /\ \A x : Waits(idle, x) => Waits(idle', x)
      /\ ~ f.refresh => Waits(idle', "display")
      /\ idle'.now = idle.now /\ Len(idle'.later) \in Nat /\ Len(idle'.later) <= Len(idle.later) + 1
  BY <1>1, <1>7, AskDoes DEF TypesInv
<1>9. /\ \A x \in {"alive", "mapped", "initted", "redraw", "prevWidth", "drawing", "at", "watched", "view",
                   "early", "on", "tkWidth", "resize"} : frame'[x] = frame[x]
      /\ frame'.area = a /\ (frame'.width = frame.width \/ frame'.width = frame.tkWidth)
      /\ f.refresh = frame.refresh
  BY <1>1, <1>6, <1>7, <1>8 DEF TypesInv, FrameOK
<1>10. TypesInv'
  BY <1>1, <1>2, <1>8 DEF TypesInv
<1>11. Served' /\ Due' /\ (Waiting => Waiting')
  BY <1>1, <1>2, <1>8, <1>9 DEF Served, Due, Waiting
<1>12. Told'
  BY <1>1, <1>9, ToldOn DEF Mapping, Sizing
<1>13. IInv'
  BY <1>1, <1>2, <1>4, <1>5, <1>9, <1>10, <1>11, <1>12, NotedKeeps DEF Pointer
<1>14. Work' < Work
  BY <1>1, <1>2, <1>8, <1>9, <1>10, WorkFalls
<1> QED BY <1>13, <1>14

\* An "update" ends, and PlFrameInit is queued.
LEMMA UpdateEndsKeeps == IInv /\ UpdateEnds => IInv' /\ Work' < Work
<1> SUFFICES ASSUME IInv, UpdateEnds PROVE IInv' /\ Work' < Work
  OBVIOUS
<1>1. /\ TypesInv /\ Told /\ Served /\ idle' = Queued(idle, << "init" >>) /\ updating > 0 /\ updating' = updating - 1
      /\ used' = (used \/ ~ frame.alive)
      /\ UNCHANGED << world, server, queue, frame, link, steps >>
  BY DEF IInv, UpdateEnds
<1>2. /\ IdleOK(idle') /\ Waits(idle', "init") /\ idle'.now = idle.now
      /\ Len(idle.later) \in Nat /\ Len(idle'.later) = Len(idle.later) + 1
  BY <1>1, QueuedOne DEF TypesInv, Procs
<1>3. TypesInv'
  BY <1>1, <1>2 DEF TypesInv
<1>4. Served' /\ Due' /\ Waiting' /\ Told'
  BY <1>1, <1>2 DEF Served, Due, Waiting, Told
<1>5. IInv'
  BY <1>1, <1>3, <1>4, NotedKeeps
<1>6. Len(queue) \in Nat /\ Len(idle.now) \in Nat
  BY <1>1, Lengths, LenProperties DEF TypesInv
<1>7. Work' < Work
  BY <1>1, <1>2, <1>3, <1>6, WorkFalls
<1> QED BY <1>5, <1>7

\* The callbacks that wait are the ones to be run.
LEMMA IdleBeginsKeeps == IInv /\ IdleBegins => IInv' /\ Work' < Work
<1> SUFFICES ASSUME IInv, IdleBegins PROVE IInv' /\ Work' < Work
  OBVIOUS
<1>1. /\ TypesInv /\ Told /\ Served /\ idle' = [now |-> idle.later, later |-> << >>] /\ idle.now = << >> /\ idle.later # << >>
      /\ UNCHANGED << world, server, queue, frame, link, updating, used, steps >>
  BY DEF IInv, IdleBegins
<1>2. idle' = [now |-> idle'.now, later |-> idle'.later] /\ DOMAIN idle' = {"now", "later"} /\ idle'.now = idle.later /\ idle'.later = << >>
  BY <1>1
<1>3. << >> \in Seq(Procs)
  OBVIOUS
<1>4. IdleOK(idle') /\ (\A x : Waits(idle, x) => Waits(idle', x))
  BY <1>1, <1>2, <1>3 DEF TypesInv, IdleOK, Waits
<1>5. TypesInv'
  BY <1>1, <1>4 DEF TypesInv
<1>6. Served' /\ (Due => Due') /\ (Waiting => Waiting') /\ Told'
  BY <1>1, <1>4 DEF Served, Due, Waiting, Told
<1>7. IInv'
  BY <1>1, <1>5, <1>6, NotedKeeps
<1>8. Len(queue) \in Nat /\ Len(idle.later) \in Nat \ {0} /\ Len(idle.now) = 0 /\ Len(idle'.later) = 0
  BY <1>1, <1>2, LenProperties, EmptySeq DEF TypesInv, IdleOK
<1>9. Work' < Work
  BY <1>1, <1>2, <1>5, <1>8, WorkFalls
<1> QED BY <1>7, <1>9

-----------------------------------------------------------------------------
(* The steps that draw over the plot.                                      *)

\* The record of the state.
LEMMA StateIs ==
  ASSUME TypesInv
  PROVE  /\ RecordOK(State) /\ State.frame = frame /\ State.server = server /\ State.later = << >>
         /\ Over(State, State)
<1>1. RecordOK(State) /\ State.frame = frame /\ State.server = server /\ State.later = << >>
  BY DEF State, TypesInv, RecordOK
<1> QED BY <1>1 DEF Over

\* The pointer moved, and what is drawn over the plot with it.
LEMMA PointerKeeps ==
  ASSUME IInv, NEW t \in Pointer, Handle(t), updating' = updating,
         NEW r, Over(State, r), Becomes(r),
         r.frame.drawing \subseteq frame.drawing \cup frame.on,
         world \cap {"rband", "configure"} = {} /\ Tidy(State) => Tidy(r)
  PROVE  IInv' /\ Work' < Work
<1>1. TypesInv /\ Told /\ Served /\ Started /\ Viewed /\ Within /\ Covered /\ Sized /\ Crossed
  BY DEF IInv
<1>2. /\ frame.alive /\ queue # << >> /\ queue' \in Seq(Event) /\ Head(queue).type = t /\ queue' = Tail(queue)
      /\ world' = world /\ link' = link /\ used' = used /\ steps' = steps
      /\ Len(queue) \in Nat /\ Len(queue') = Len(queue) - 1
      /\ \A T : /\ Coming(queue', T) => Coming(queue, T)
                /\ t \notin T /\ Coming(queue, T) => Coming(queue', T)
  BY <1>1, HandleDoes
<1>3. /\ RecordOK(State) /\ State.frame = frame /\ State.server = server /\ State.later = << >>
  BY <1>1, StateIs
<1>4. /\ RecordOK(r) /\ r.later = << >>
      /\ \A x \in {"alive", "mapped", "tkWidth", "width", "prevWidth", "initted", "refresh",
                   "resize", "redraw", "area", "view", "early", "on"} : r.frame[x] = frame[x]
      /\ \A x \in {"mapped", "width", "pointer", "drawn", "blank", "shown"} : r.server[x] = server[x]
  BY <1>3 DEF Over, RecordOK, FrameOK, ServerOK
<1>5. frame' = r.frame /\ server' = r.server /\ idle' = Queued(idle, << >>)
  BY <1>4 DEF Becomes
<1>6. << >> \in Seq(Procs)
  OBVIOUS
<1>7. /\ IdleOK(idle') /\ idle'.now = idle.now /\ Len(idle.later) \in Nat /\ Len(idle'.later) = Len(idle.later)
      /\ \A x : Waits(idle, x) => Waits(idle', x)
  <2>1. Len(<< >>) = 0
    OBVIOUS
  <2> DEFINE j == Queued(idle, << >>)
  <2>2. /\ IdleOK(j) /\ j.now = idle.now /\ Len(idle.later) \in Nat /\ Len(j.later) = Len(idle.later) + Len(<< >>)
        /\ \A x : Waits(idle, x) => Waits(j, x)
    BY <1>1, <1>6, QueuedDoes DEF TypesInv
  <2> HIDE DEF j
  <2>3. idle' = j
    BY <1>5 DEF j
  <2> QED BY <2>1, <2>2, <2>3
<1>8. FrameOK(frame') /\ ServerOK(server')
  BY <1>4, <1>5 DEF RecordOK
<1>9. /\ \A x \in {"alive", "mapped", "tkWidth", "width", "prevWidth", "initted", "refresh",
                   "resize", "redraw", "area", "view", "early", "on"} : frame'[x] = frame[x]
      /\ \A x \in {"mapped", "width", "pointer", "drawn", "blank", "shown"} : server'[x] = server[x]
  BY <1>4, <1>5
<1>10. TypesInv'
  BY <1>1, <1>2, <1>7, <1>8 DEF TypesInv
<1>11. Served' /\ (Due => Due') /\ (Waiting => Waiting')
  BY <1>1, <1>2, <1>7, <1>9 DEF Served, Due, Waiting
<1>12. Told'
  <2>1. t \notin Mapping /\ t \notin Sizing
    BY DEF Mapping, Sizing, Pointer
  <2>2. ToldMapped(queue, frame.mapped, server.mapped) /\ ToldSize(queue, frame.tkWidth, server.width)
    BY <1>1, <1>2 DEF Told
  <2>3. ToldMapped(queue', frame.mapped, server.mapped) /\ ToldSize(queue', frame.tkWidth, server.width)
    BY <1>1, <1>2, <2>1, <2>2, ToldHandled DEF TypesInv
  <2> QED BY <1>9, <2>3 DEF Told
<1>13. Started'
  BY <1>1, <1>9, <1>11 DEF Started
<1>14. Viewed'
  BY <1>1, <1>9, <1>11 DEF Viewed
<1>15. Within'
  BY <1>1, <1>2, <1>5, <1>9 DEF Within
<1>16. Covered'
  <2>1. t \notin {"expose"}
    BY DEF Pointer
  <2> QED BY <1>1, <1>2, <1>9, <1>11, <2>1 DEF Covered
<1>17. Sized'
  BY <1>1, <1>2, <1>9, <1>11 DEF Sized
<1>18. Crossed'
  <2>1. Coming(queue, Pointer)
    <3>1. 1 \in DOMAIN queue /\ queue[1] = Head(queue)
      BY <1>1, <1>2, HeadTailProperties, LenProperties, EmptySeq DEF TypesInv
    <3> QED BY <1>2, <3>1 DEF Coming
  <2>2. Tidy(r) => Tidy(State)'
    BY <1>5 DEF Tidy, State
  <2> QED BY <1>1, <1>2, <1>9, <2>1, <2>2 DEF Crossed
<1>19. Work' < Work
  <2>1. Len(idle'.now) <= Len(idle.now) /\ Len(idle'.later) <= Len(idle.later) + 1
    BY <1>1, <1>7, Lengths DEF TypesInv
  <2> QED BY <1>1, <1>2, <1>10, <2>1, WorkFalls
<1> QED BY <1>10, <1>11, <1>12, <1>13, <1>14, <1>15, <1>16, <1>17, <1>18, <1>19 DEF IInv

\* What moves is erased and drawn where the pointer is.
LEMMA MoveDoes ==
  ASSUME NEW r, RecordOK(r), NEW p \in Spots
  PROVE  LET t == DrawAt(r, "xhairs", p)
         IN  /\ Over(r, t) /\ t.frame.drawing = r.frame.drawing /\ t.frame.at["xhairs"] = p
             /\ t.frame.watched = r.frame.watched
             /\ Tidy(r) => t.server.seen["xhairs"] = {p}
<1> DEFINE t == DrawAt(r, "xhairs", p)
<1>1. "xhairs" \in Overlays
  BY DEF Overlays
<1>2. /\ Over(r, t) /\ t.frame = [r.frame EXCEPT !.at["xhairs"] = p]
      /\ t.server.seen["xhairs"] = Flip(IF "xhairs" \in r.frame.drawing
                                        THEN Flip(r.server.seen["xhairs"], r.frame.at["xhairs"])
                                        ELSE r.server.seen["xhairs"], p)
  BY <1>1, DrawAtDoes
<1> HIDE DEF t
<1>3. t.frame.drawing = r.frame.drawing /\ t.frame.at["xhairs"] = p /\ t.frame.watched = r.frame.watched
  BY <1>1, <1>2 DEF RecordOK, FrameOK
<1>4. Tidy(r) => t.server.seen["xhairs"] = {p}
  BY <1>2 DEF Tidy, Flip
<1> QED BY <1>2, <1>3, <1>4 DEF t

\* More or less is taken for drawn.
LEMMA DrawingDoes ==
  ASSUME NEW r, RecordOK(r), NEW d \in SUBSET Overlays, NEW t, t = [r EXCEPT !.frame.drawing = d]
  PROVE  Over(r, t) /\ t.server = r.server /\ t.frame.drawing = d /\ t.frame.at = r.frame.at
<1>1. /\ DOMAIN t = DOMAIN r /\ t.server = r.server /\ t.later = r.later
      /\ t.frame = [r.frame EXCEPT !.drawing = d]
  BY DEF RecordOK
<1>2. /\ DOMAIN t.frame = DOMAIN r.frame /\ t.frame.watched = r.frame.watched /\ t.frame.drawing = d
      /\ \A x \in DOMAIN r.frame \ {"drawing", "watched"} : t.frame[x] = r.frame[x]
      /\ r.frame.watched \in BOOLEAN /\ t.frame.at = r.frame.at
  BY <1>1 DEF RecordOK, FrameOK
<1> QED BY <1>1, <1>2, Drawn

\* The pointer moved.
LEMMA MotionKeeps == IInv /\ Motion => IInv' /\ Work' < Work
<1> SUFFICES ASSUME IInv, Motion PROVE IInv' /\ Work' < Work
  OBVIOUS
<1> DEFINE p == Head(queue).n
           c == IF "xhairs" \in frame.drawing THEN DrawAt(State, "xhairs", p) ELSE State
           r == IF "rband" \in frame.drawing THEN DrawAt(c, "rband", p) ELSE c
<1>1. TypesInv /\ Within /\ Handle("motion") /\ Becomes(r) /\ updating' = updating
  BY DEF IInv, Motion
<1>2. p \in Spots
  BY <1>1, HandleDoes DEF EventOK
<1>3. RecordOK(State) /\ State.frame = frame /\ Over(State, State)
  BY <1>1, StateIs
<1> HIDE DEF p
<1>4. Over(State, c) /\ c.frame.drawing = frame.drawing /\ (Tidy(State) => Tidy(c))
  <2>1. CASE "xhairs" \in frame.drawing
    <3> DEFINE t == DrawAt(State, "xhairs", p)
    <3>1. /\ Over(State, t) /\ t.frame.drawing = State.frame.drawing /\ t.frame.at["xhairs"] = p
          /\ Tidy(State) => t.server.seen["xhairs"] = {p}
      BY <1>2, <1>3, MoveDoes
    <3>2. c = t
      BY <2>1
    <3> HIDE DEF c, t
    <3> QED BY <1>3, <2>1, <3>1, <3>2 DEF Tidy
  <2>2. CASE "xhairs" \notin frame.drawing
    BY <1>3, <2>2
  <2> QED BY <2>1, <2>2
<1> HIDE DEF c
<1>5. /\ Over(State, r) /\ r.frame.drawing = frame.drawing
      /\ world \cap {"rband", "configure"} = {} /\ Tidy(State) => Tidy(r)
  <2>1. CASE "rband" \in frame.drawing
    <3> DEFINE t == DrawAt(c, "rband", p)
    <3>1. "rband" \in Overlays /\ RecordOK(c)
      BY <1>4 DEF Overlays, Over
    <3>2. Over(c, t) /\ t.frame = [c.frame EXCEPT !.at["rband"] = p]
      BY <1>2, <3>1, DrawAtDoes
    <3>3. r = t
      BY <2>1
    <3> HIDE DEF r, t
    <3>4. t.frame.drawing = c.frame.drawing
      BY <3>1, <3>2 DEF RecordOK, FrameOK
    <3>5. Over(State, t)
      BY <1>3, <1>4, <3>2, OverTwice
    <3> QED BY <1>1, <1>4, <2>1, <3>3, <3>4, <3>5 DEF Within
  <2>2. CASE "rband" \notin frame.drawing
    BY <1>4, <2>2
  <2> QED BY <2>1, <2>2
<1> HIDE DEF r
<1>6. "motion" \in Pointer
  BY DEF Pointer
<1> QED BY <1>1, <1>5, <1>6, PointerKeeps

\* The pointer came.
LEMMA EnterKeeps == IInv /\ Enter => IInv' /\ Work' < Work
<1> SUFFICES ASSUME IInv, Enter PROVE IInv' /\ Work' < Work
  OBVIOUS
<1> DEFINE p == Head(queue).n
           m == DrawAt(State, "xhairs", p)
           n == [m EXCEPT !.frame.drawing = m.frame.drawing \cup {"xhairs"}]
           c == IF "xhairs" \in frame.on THEN n ELSE State
           b == [c EXCEPT !.frame.drawing = c.frame.drawing \cup {"rband"}]
           u == Update(b, "rband")
           r == IF "rband" \in frame.on THEN DrawAt(u, "rband", p) ELSE c
<1>1. TypesInv /\ Within /\ Handle("enter") /\ Becomes(r) /\ updating' = updating
  BY DEF IInv, Enter
<1>2. p \in Spots
  BY <1>1, HandleDoes DEF EventOK
<1>3. RecordOK(State) /\ State.frame = frame /\ Over(State, State)
  BY <1>1, StateIs
<1>4. "xhairs" \in Overlays /\ "rband" \in Overlays
  BY DEF Overlays
<1> HIDE DEF p, c, b, u, r
<1>5. /\ Over(State, m) /\ m.frame.drawing = State.frame.drawing /\ m.frame.at["xhairs"] = p
      /\ Tidy(State) => m.server.seen["xhairs"] = {p}
  BY <1>2, <1>3, MoveDoes
<1> HIDE DEF m
<1>6. m.frame.drawing \cup {"xhairs"} \in SUBSET Overlays /\ RecordOK(m)
  BY <1>3, <1>4, <1>5 DEF Over, RecordOK, FrameOK
<1>7. /\ Over(m, n) /\ n.server = m.server /\ n.frame.at = m.frame.at
      /\ n.frame.drawing = m.frame.drawing \cup {"xhairs"}
  <2> DEFINE d == m.frame.drawing \cup {"xhairs"}
  <2>1. d \in SUBSET Overlays /\ n = [m EXCEPT !.frame.drawing = d]
    BY <1>6
  <2> HIDE DEF d, n
  <2>0. RecordOK(m)
    BY <1>6
  <2>2. Over(m, n)
    BY <2>0, <2>1, DrawingDoes
  <2>3. n.server = m.server /\ n.frame.at = m.frame.at /\ n.frame.drawing = d
    BY <2>0, <2>1, DrawingDoes
  <2> QED BY <2>2, <2>3 DEF d
<1> HIDE DEF n
<1>8. Over(State, n) /\ (Tidy(State) => Tidy(n))
  BY <1>3, <1>5, <1>7, OverTwice DEF Tidy
<1>9. Over(State, c) /\ (Tidy(State) => Tidy(c)) /\ c.frame.drawing \subseteq frame.drawing \cup frame.on
  BY <1>3, <1>5, <1>7, <1>8 DEF c
<1>10. RecordOK(c) /\ c.frame.drawing \cup {"rband"} \in SUBSET Overlays
  BY <1>4, <1>9 DEF Over, RecordOK, FrameOK
<1>11. Over(c, b) /\ b.frame.drawing = c.frame.drawing \cup {"rband"}
  <2> DEFINE d == c.frame.drawing \cup {"rband"}
  <2>1. d \in SUBSET Overlays /\ b = [c EXCEPT !.frame.drawing = d]
    BY <1>10 DEF b
  <2> HIDE DEF d
  <2>2. Over(c, b) /\ b.frame.drawing = d
    BY <1>10, <2>1, DrawingDoes
  <2> QED BY <2>2 DEF d
<1>12. Over(b, u) /\ u.frame = b.frame
  BY <1>4, <1>11, UpdateDoes DEF Over, u
<1> DEFINE d == DrawAt(u, "rband", p)
<1>13. Over(u, d) /\ d.frame = [u.frame EXCEPT !.at["rband"] = p]
  BY <1>2, <1>4, <1>12, DrawAtDoes DEF Over
<1>14. r = IF "rband" \in frame.on THEN d ELSE c
  BY DEF r
<1> HIDE DEF d
<1>15. d.frame.drawing = c.frame.drawing \cup {"rband"}
  BY <1>11, <1>12, <1>13 DEF Over, RecordOK, FrameOK
<1>16. Over(State, d)
  <2>1. Over(State, b)
    BY <1>3, <1>9, <1>11, OverTwice
  <2>2. Over(State, u)
    BY <1>3, <1>12, <2>1, OverTwice
  <2> QED BY <1>3, <1>13, <2>2, OverTwice
<1>17. /\ Over(State, r) /\ r.frame.drawing \subseteq frame.drawing \cup frame.on
       /\ world \cap {"rband", "configure"} = {} /\ Tidy(State) => Tidy(r)
  BY <1>1, <1>9, <1>14, <1>15, <1>16 DEF Within
<1>18. "enter" \in Pointer
  BY DEF Pointer
<1> QED BY <1>1, <1>17, <1>18, PointerKeeps

\* The pointer went.
LEMMA LeaveKeeps == IInv /\ Leave => IInv' /\ Work' < Work
<1> SUFFICES ASSUME IInv, Leave PROVE IInv' /\ Work' < Work
  OBVIOUS
<1> DEFINE t == Overlaid(State)
           r == [t EXCEPT !.frame.drawing = {}]
<1>1. TypesInv /\ Within /\ Handle("leave") /\ Becomes(r) /\ updating' = updating
  BY DEF IInv, Leave
<1>2. RecordOK(State) /\ State.frame = frame /\ Over(State, State)
  BY <1>1, StateIs
<1>3. /\ Over(State, t) /\ t.frame = State.frame
      /\ "rband" \notin State.frame.drawing =>
           t.server.seen["xhairs"] = IF "xhairs" \in State.frame.drawing
                                     THEN Flip(State.server.seen["xhairs"], State.frame.at["xhairs"])
                                     ELSE State.server.seen["xhairs"]
  BY <1>2, OverlaidDoes
<1> HIDE DEF t
<1>4. {} \in SUBSET Overlays /\ RecordOK(t)
  BY <1>3 DEF Over
<1>5. Over(t, r) /\ r.server = t.server /\ r.frame.drawing = {}
  BY <1>4, DrawingDoes
<1> HIDE DEF r
<1>6. Over(State, r)
  BY <1>2, <1>3, <1>5, OverTwice
<1>7. world \cap {"rband", "configure"} = {} /\ Tidy(State) => Tidy(r)
  BY <1>1, <1>2, <1>3, <1>5 DEF Within, Tidy, Flip
<1>8. "leave" \in Pointer
  BY DEF Pointer
<1> QED BY <1>1, <1>5, <1>6, <1>7, <1>8, PointerKeeps

-----------------------------------------------------------------------------
(* The idle callbacks.                                                     *)

\* A callback of the widget has run: what is then to be done is still due.
LEMMA CalledKeeps ==
  ASSUME IInv, frame.alive, NEW r, RecordOK(r), frame' = r.frame, server' = r.server, IdleOK(idle'),
         UNCHANGED << world, queue, link, updating, used, steps >>,
         \A x \in {"alive", "mapped", "tkWidth", "view", "on"} : r.frame[x] = frame[x],
         \A x \in {"mapped", "width", "pointer"} : r.server[x] = server[x],
         r.frame.refresh => Waits(idle', "display"),
         frame.initted \/ Waiting => r.frame.initted \/ Waiting',
         r.frame.redraw => frame.redraw,
         frame.mapped /\ Due /\ r.frame.redraw => r.frame.refresh \/ Waiting',
         ViewKept(State) => ViewKept(r),
         r.server.blank /\ r.frame.initted => server.blank /\ frame.initted /\ r.frame.area = frame.area,
         r.server.blank /\ r.frame.initted /\ frame.mapped /\ frame.area /\ Due => r.frame.refresh \/ Waiting',
         ~ frame.redraw /\ SizeKept(State) => SizeKept(r),
         frame.width = frame.tkWidth => r.frame.width = r.frame.tkWidth,
         ~ frame.redraw /\ frame.mapped /\ r.frame.initted /\ r.frame.width # r.frame.prevWidth =>
           (frame.initted /\ frame.width # frame.prevWidth /\ ~ Due) \/ r.frame.refresh \/ Waiting',
         ~ r.frame.initted => ~ frame.initted /\ r.frame.drawing = frame.drawing /\ r.frame.watched = frame.watched,
         r.frame.drawing \subseteq frame.drawing \cup frame.on,
         CrossKept(State) /\ Plain(State) /\ "rband" \notin frame.on => CrossKept(r)
  PROVE  IInv'
<1>1. TypesInv /\ Told /\ Started /\ Viewed /\ Within /\ Covered /\ Sized /\ Crossed
  BY DEF IInv
<1>2. State.frame = frame /\ State.server = server
  BY DEF State
<1>3. TypesInv'
  BY <1>1 DEF TypesInv, RecordOK
<1>4. Served'
  BY DEF Served
<1>5. Told'
  BY <1>1 DEF Told
<1>6. Started'
  BY <1>1 DEF Started
<1>7. Due' <=> r.frame.refresh \/ Waiting'
  BY DEF Due
<1>8. Viewed'
  BY <1>1, <1>2, <1>7 DEF Viewed, ViewKept
<1>9. Within'
  BY <1>1 DEF Within
<1>10. Covered'
  BY <1>1, <1>7 DEF Covered
<1>11. Sized'
  BY <1>1, <1>2, <1>7 DEF Sized, SizeKept
<1>12. Crossed'
  <2> SUFFICES ASSUME world \cap {"rband", "configure"} = {}
               PROVE  /\ ~ r.frame.initted => r.frame.drawing = {} /\ ~ r.frame.watched /\ ~ Coming(queue, Pointer)
                      /\ r.server.mapped /\ ~ r.server.blank => Tidy(State)'
    BY DEF Crossed
  <2>1. Plain(State) /\ "rband" \notin frame.on /\ (server.mapped => CrossKept(State))
    BY <1>1, <1>2 DEF Plain, CrossKept, Within, Crossed
  <2>2. Tidy(r) => Tidy(State)'
    BY DEF Tidy, State
  <2> QED BY <1>1, <2>1, <2>2 DEF Crossed, CrossKept
<1> QED BY <1>3, <1>4, <1>5, <1>6, <1>8, <1>9, <1>10, <1>11, <1>12 DEF IInv

\* What a callback queues.
LEMMA RunQueues ==
  ASSUME TypesInv, idle.now # << >>, NEW procs, procs \in {<< >>, << "display" >>},
         idle' = [now |-> Tail(idle.now), later |-> idle.later \o procs], updating' = updating
  PROVE  /\ IdleOK(idle') /\ Head(idle.now) \in Procs
         /\ Len(idle.now) \in Nat /\ Len(idle'.now) = Len(idle.now) - 1
         /\ Len(idle.later) \in Nat
         /\ Len(idle'.later) = Len(idle.later) + IF procs = << >> THEN 0 ELSE 1
         /\ Head(idle.now) = "display" /\ Waiting => Waiting'
         /\ procs # << >> => Waits(idle', "display")
<1>1. IdleOK(idle) /\ idle' = [now |-> idle'.now, later |-> idle'.later] /\ idle'.now = Tail(idle.now) /\ idle'.later = idle.later \o procs
  BY DEF TypesInv
<1>2. << >> \in Seq(Procs) /\ << "display" >> \in Seq(Procs) /\ << "display" >> # << >>
      /\ Len(<< >>) = 0 /\ Len(<< "display" >>) = 1 /\ << "display" >>[1] = "display" /\ 1 \in DOMAIN << "display" >>
  BY DEF Procs
<1>3. /\ IdleOK(idle') /\ Head(idle.now) \in Procs
      /\ Len(idle.now) \in Nat /\ Len(idle'.now) = Len(idle.now) - 1
      /\ Len(idle.later) \in Nat /\ Len(idle'.later) = Len(idle.later) + Len(procs)
      /\ \A x : Waits(idle, x) /\ x # Head(idle.now) => Waits(idle', x)
      /\ \A k \in DOMAIN procs : Waits(idle', procs[k])
  <2>1. procs \in Seq(Procs)
    BY <1>2
  <2> DEFINE j == idle'
             i == idle
  <2>2. /\ IdleOK(i) /\ i.now # << >> /\ j = [now |-> j.now, later |-> j.later]
        /\ j.now = Tail(i.now) /\ j.later = i.later \o procs
    BY <1>1
  <2> HIDE DEF i, j
  <2>3. /\ IdleOK(j) /\ Head(i.now) \in Procs
        /\ Len(i.now) \in Nat /\ Len(j.now) = Len(i.now) - 1
        /\ Len(i.later) \in Nat /\ Len(procs) \in Nat /\ Len(j.later) = Len(i.later) + Len(procs)
        /\ \A x : Waits(i, x) /\ x # Head(i.now) => Waits(j, x)
        /\ \A k \in DOMAIN procs : Waits(j, procs[k])
    BY <2>1, <2>2, RunDoes
  <2> QED BY <2>3 DEF i, j
<1>4. Len(procs) = IF procs = << >> THEN 0 ELSE 1
  BY <1>2
<1>5. procs # << >> => Waits(idle', "display")
  BY <1>2, <1>3
<1>6. Head(idle.now) = "display" /\ Waiting => Waiting'
  BY <1>3 DEF Waiting
<1> QED BY <1>3, <1>4, <1>5, <1>6

\* A callback is run.
LEMMA IdleRunsKeeps == IInv /\ IdleRuns => IInv' /\ Work' < Work
<1> SUFFICES ASSUME IInv, IdleRuns PROVE IInv' /\ Work' < Work
  OBVIOUS
<1>1. TypesInv /\ idle.now # << >> /\ UNCHANGED << world, queue, link, updating, steps >>
  BY DEF IInv, IdleRuns
<1>2. RecordOK(State) /\ State.frame = frame /\ State.server = server /\ State.later = << >>
  BY <1>1, StateIs
<1>3. CASE frame.alive /\ Head(idle.now) = "init"
  <2> DEFINE r == FrameInit(State)
  <2>1. /\ frame' = r.frame /\ server' = r.server /\ used' = used
        /\ idle' = [now |-> Tail(idle.now), later |-> idle.later \o r.later]
    BY <1>3 DEF IdleRuns
  <2>2. /\ RecordOK(r) /\ r.frame.initted
        /\ \A x \in {"alive", "mapped", "tkWidth", "view", "on"} : r.frame[x] = State.frame[x]
        /\ \A x \in {"mapped", "width", "pointer"} : r.server[x] = State.server[x]
        /\ r.later = << >> \/ (r.later = << "display" >> /\ State.frame.resize /\ ~ r.frame.resize)
        /\ r.frame.resize => State.frame.resize
        /\ r.frame.refresh => r.later # << >>
        /\ r.frame.redraw => State.frame.redraw
        /\ State.frame.mapped /\ r.frame.redraw => r.frame.refresh
        /\ ViewKept(State) => ViewKept(r)
        /\ r.server.blank => State.server.blank /\ State.frame.initted
        /\ r.server.blank => r.frame.area = State.frame.area
        /\ r.server.blank /\ State.frame.mapped /\ State.frame.area => r.frame.refresh
        /\ ~ State.frame.redraw /\ SizeKept(State) => SizeKept(r)
        /\ ~ State.frame.redraw /\ State.frame.mapped => r.frame.refresh \/ r.frame.width = r.frame.prevWidth
        /\ State.frame.width = State.frame.tkWidth => r.frame.width = r.frame.tkWidth
        /\ r.frame.drawing \subseteq State.frame.drawing \cup State.frame.on
        /\ CrossKept(State) /\ Plain(State) /\ "rband" \notin State.frame.on => CrossKept(r)
    BY <1>2, FrameInitDoes
  <2> HIDE DEF r
  <2>3. /\ IdleOK(idle') /\ (r.later # << >> => Waits(idle', "display"))
        /\ Len(idle.now) \in Nat /\ Len(idle'.now) = Len(idle.now) - 1 /\ Len(idle.later) \in Nat
        /\ Len(idle'.later) = Len(idle.later) + IF r.later = << >> THEN 0 ELSE 1
    BY <1>1, <2>1, <2>2, RunQueues
  <2>4. IInv'
    BY <1>1, <1>2, <1>3, <2>1, <2>2, <2>3, CalledKeeps
  <2>5. Work' < Work
    <3>1. Len(queue') = Len(queue) /\ updating' = updating
      BY <1>1
    <3>2. \/ Len(idle'.later) = Len(idle.later) /\ (frame'.resize => frame.resize)
          \/ Len(idle'.later) = Len(idle.later) + 1 /\ frame.resize /\ ~ frame'.resize
      <4>1. CASE r.later = << >>
        <5>1. Len(idle'.later) = Len(idle.later)
          BY <2>3, <4>1
        <5> QED BY <1>2, <2>1, <2>2, <5>1
      <4>2. CASE r.later # << >>
        <5>1. Len(idle'.later) = Len(idle.later) + 1
          BY <2>3, <4>2
        <5>2. frame.resize /\ ~ frame'.resize
          BY <1>2, <2>1, <2>2, <4>2
        <5> QED BY <5>1, <5>2
      <4> QED BY <4>1, <4>2
    <3> QED BY <1>1, <2>3, <2>4, <3>1, <3>2, WorkFalls DEF IInv
  <2> QED BY <2>4, <2>5
<1>4. CASE frame.alive /\ Head(idle.now) # "init"
  <2> DEFINE r == Display(State)
  <2>1. /\ frame' = r.frame /\ server' = r.server /\ used' = used
        /\ idle' = [now |-> Tail(idle.now), later |-> idle.later \o r.later]
    BY <1>4 DEF IdleRuns
  <2>2. /\ Shows(State, r)
        /\ r.later = << >> \/ (r.later = << "display" >> /\ State.frame.resize /\ ~ r.frame.resize)
        /\ r.frame.resize => State.frame.resize
        /\ r.frame.refresh => r.later # << >>
        /\ r.frame.redraw => State.frame.redraw
        /\ State.frame.mapped /\ State.frame.refresh /\ r.frame.redraw => r.frame.refresh
        /\ ViewKept(State) => ViewKept(r)
        /\ r.server.blank => State.server.blank
        /\ r.server.blank /\ State.frame.initted => r.frame.area = State.frame.area
        /\ r.server.blank /\ State.frame.initted /\ State.frame.mapped /\ State.frame.refresh /\ State.frame.area =>
             r.frame.refresh
        /\ ~ State.frame.redraw /\ SizeKept(State) => SizeKept(r)
        /\ ~ State.frame.redraw /\ State.frame.mapped /\ State.frame.refresh =>
             r.frame.refresh \/ r.frame.width = r.frame.prevWidth
        /\ r.frame.width # r.frame.prevWidth => State.frame.width # State.frame.prevWidth
        /\ r.frame.drawing = State.frame.drawing
        /\ CrossKept(State) /\ Plain(State) => CrossKept(r)
    BY <1>2, DisplayDoes
  <2> HIDE DEF r
  <2>3. /\ IdleOK(idle') /\ (r.later # << >> => Waits(idle', "display"))
        /\ Head(idle.now) = "display" /\ (Waiting => Waiting')
        /\ Len(idle.now) \in Nat /\ Len(idle'.now) = Len(idle.now) - 1 /\ Len(idle.later) \in Nat
        /\ Len(idle'.later) = Len(idle.later) + IF r.later = << >> THEN 0 ELSE 1
    BY <1>1, <1>4, <2>1, <2>2, RunQueues DEF Procs
  <2>4. /\ RecordOK(r) /\ \A x \in {"mapped", "width", "pointer"} : r.server[x] = server[x]
        /\ \A x \in {"alive", "mapped", "tkWidth", "width", "initted", "watched", "view", "early", "on"} :
             r.frame[x] = frame[x]
    BY <1>2, <2>2 DEF Shows, Flags, RecordOK, FrameOK
  <2>5. Due => frame.refresh \/ Waiting'
    BY <2>3 DEF Due
  <2>6. IInv'
    BY <1>1, <1>2, <1>4, <2>1, <2>2, <2>3, <2>4, <2>5, CalledKeeps
  <2>7. Work' < Work
    <3>1. Len(queue') = Len(queue) /\ updating' = updating
      BY <1>1
    <3>2. \/ Len(idle'.later) = Len(idle.later) /\ (frame'.resize => frame.resize)
          \/ Len(idle'.later) = Len(idle.later) + 1 /\ frame.resize /\ ~ frame'.resize
      <4>1. CASE r.later = << >>
        <5>1. Len(idle'.later) = Len(idle.later)
          BY <2>3, <4>1
        <5> QED BY <1>2, <2>1, <2>2, <5>1
      <4>2. CASE r.later # << >>
        <5>1. Len(idle'.later) = Len(idle.later) + 1
          BY <2>3, <4>2
        <5>2. frame.resize /\ ~ frame'.resize
          BY <1>2, <2>1, <2>2, <4>2
        <5> QED BY <5>1, <5>2
      <4> QED BY <4>1, <4>2
    <3> QED BY <1>1, <2>3, <2>6, <3>1, <3>2, WorkFalls DEF IInv
  <2> QED BY <2>6, <2>7
<1>5. CASE ~ frame.alive
  <2>1. idle' = [idle EXCEPT !.now = Tail(@)] /\ used' = TRUE /\ UNCHANGED << frame, server >>
    BY <1>5 DEF IdleRuns
  <2>2. /\ Tail(idle.now) \in Seq(Procs) /\ Len(Tail(idle.now)) = Len(idle.now) - 1
        /\ Len(idle.now) \in Nat /\ Len(idle.later) \in Nat
    BY <1>1, HeadTailProperties, Lengths DEF TypesInv, IdleOK
  <2>3. IdleOK(idle')
    BY <1>1, <2>1, <2>2 DEF TypesInv, IdleOK
  <2>4. TypesInv'
    BY <1>1, <2>1, <2>3 DEF TypesInv
  <2>5. Served' /\ Told' /\ Started' /\ Viewed' /\ Covered'
    BY <1>5, <2>1 DEF Served, Told, Started, Viewed, Covered
  <2>6. Within' /\ Sized'
    BY <1>1, <1>5, <2>1 DEF IInv, Within, Sized
  <2>7. Crossed'
    <3>1. Tidy(State) => Tidy(State)'
      BY <2>1 DEF Tidy, State
    <3> QED BY <1>1, <2>1, <3>1 DEF IInv, Crossed
  <2>8. idle'.now = Tail(idle.now) /\ idle'.later = idle.later
    BY <1>1, <2>1 DEF TypesInv, IdleOK
  <2>9. Work' < Work
    BY <1>1, <2>1, <2>2, <2>4, <2>8, WorkFalls
  <2> QED BY <2>4, <2>5, <2>6, <2>7, <2>9 DEF IInv
<1> QED BY <1>3, <1>4, <1>5

-----------------------------------------------------------------------------
(* The steps of the script.                                                *)

\* A redraw is asked for, of a view that was selected.
LEMMA RedrawKeeps == IInv /\ Redraw => IInv'
<1> SUFFICES ASSUME IInv, Redraw PROVE IInv'
  OBVIOUS
<1> DEFINE v == frame.view + 1
           f == [frame EXCEPT !.redraw = TRUE, !.view = v]
<1>1. /\ TypesInv /\ Told /\ Started /\ Within /\ Covered /\ Crossed /\ Served
      /\ Ask(f, idle) /\ frame.alive /\ steps' \in 0..MaxSteps /\ "redraw" \in world
      /\ UNCHANGED << world, server, queue, link, updating, used >>
  BY ActCounts DEF IInv, Redraw, Script, Tk
<1>0. v \in Nat
  BY <1>1 DEF TypesInv, FrameOK
<1> HIDE DEF v
<1>2. FrameOK(f) /\ f.redraw /\ \A x \in DOMAIN frame \ {"redraw", "view"} : f[x] = frame[x]
  BY <1>0, <1>1 DEF TypesInv, FrameOK
<1> HIDE DEF f
<1>3. /\ FrameOK(frame') /\ frame'.refresh /\ \A x \in DOMAIN f \ {"refresh"} : frame'[x] = f[x]
      /\ IdleOK(idle') /\ \A x : Waits(idle, x) => Waits(idle', x)
      /\ ~ f.refresh => Waits(idle', "display")
  BY <1>1, <1>2, AskDoes DEF TypesInv
<1>4. /\ frame'.redraw /\ f.refresh = frame.refresh
      /\ \A x \in {"alive", "mapped", "tkWidth", "width", "prevWidth", "initted", "resize", "area",
                   "drawing", "at", "watched", "early", "on"} : frame'[x] = frame[x]
  BY <1>1, <1>2, <1>3 DEF TypesInv, FrameOK
<1>5. TypesInv'
  BY <1>1, <1>3 DEF TypesInv
<1>6. Served' /\ Due' /\ (Waiting => Waiting')
  BY <1>1, <1>3, <1>4 DEF Served, Due, Waiting
<1>7. Told' /\ Started' /\ Viewed' /\ Within' /\ Covered' /\ Sized'
  BY <1>1, <1>4, <1>6 DEF Told, Started, Viewed, Within, Covered, Sized
<1>8. Crossed'
  <2>1. Tidy(State) => Tidy(State)'
    BY <1>1, <1>4 DEF Tidy, State
  <2> QED BY <1>1, <1>4, <2>1 DEF Crossed
<1> QED BY <1>5, <1>6, <1>7, <1>8 DEF IInv

\* What a configure command switched is drawn or erased.
LEMMA ConfiguredDoes ==
  ASSUME NEW r, RecordOK(r), NEW o \in Overlays
  PROVE  LET t == Configured(r, o)
         IN  Over(r, t) /\ t.frame.drawing \subseteq r.frame.drawing \cup r.frame.on
<1> DEFINE c == Create(r, o)
           d == Remove(r, o)
           t == Configured(r, o)
<1>1. Over(r, c) /\ c.frame.drawing \subseteq r.frame.drawing \cup {o}
  BY CreateDoes
<1>2. Over(r, d) /\ d.frame.drawing \subseteq r.frame.drawing
  BY RemoveDoes
<1>3. Over(r, r)
  BY DEF Over
<1>4. (t = c /\ o \in r.frame.on) \/ t = d \/ t = r
  BY DEF Configured
<1> HIDE DEF c, d, t
<1> QED BY <1>1, <1>2, <1>3, <1>4 DEF t

\* A configure command.
LEMMA ConfigureKeeps == IInv /\ Configure => IInv'
<1> SUFFICES ASSUME IInv, Configure PROVE IInv'
  OBVIOUS
<1>1. /\ TypesInv /\ Told /\ Started /\ Viewed /\ Within /\ Covered /\ Served
      /\ frame.alive /\ steps' \in 0..MaxSteps /\ "configure" \in world
      /\ UNCHANGED << world, queue, link, updating, used >>
  BY ActCounts DEF IInv, Configure, Script, Tk
<1>2. PICK w \in Sizes \cup {frame.width}, on \in SUBSET (world \cap Overlays) :
         LET asked == [State EXCEPT !.frame.width = w, !.frame.on = on]
             r     == IF frame.mapped THEN Configured(Configured(asked, "xhairs"), "rband") ELSE asked
         IN  /\ server' = r.server
             /\ IF w # frame.prevWidth /\ frame.mapped THEN Ask(r.frame, idle)
                ELSE frame' = r.frame /\ UNCHANGED idle
  BY DEF Configure
<1> DEFINE g == [frame EXCEPT !.width = w, !.on = on]
           a == [State EXCEPT !.frame.width = w, !.frame.on = on]
           b == Configured(a, "xhairs")
           c == Configured(b, "rband")
           r == IF frame.mapped THEN c ELSE a
<1>3. /\ server' = r.server
      /\ Ask(r.frame, idle) \/ (frame' = r.frame /\ UNCHANGED idle)
  BY <1>2
<1> HIDE DEF r
<1>4. RecordOK(State) /\ State.frame = frame /\ State.server = server /\ State.later = << >>
  BY <1>1, StateIs
<1>5. w \in Sizes /\ on \subseteq Overlays /\ on \subseteq world
  BY <1>1 DEF TypesInv, FrameOK
<1>6. /\ FrameOK(g) /\ g.on = on
      /\ \A x \in DOMAIN frame \ {"width", "on"} : g[x] = frame[x]
  BY <1>1, <1>5 DEF TypesInv, FrameOK
<1>7. DOMAIN a = {"frame", "server", "later"} /\ a.frame = g /\ a.server = server /\ a.later = << >>
  BY <1>4 DEF RecordOK
<1> HIDE DEF a, g
<1>8. RecordOK(a) /\ Over(a, a)
  BY <1>4, <1>6, <1>7 DEF RecordOK, Over
<1>9. "xhairs" \in Overlays /\ "rband" \in Overlays
  BY DEF Overlays
<1>10. Over(a, b) /\ b.frame.drawing \subseteq a.frame.drawing \cup a.frame.on
  BY <1>8, <1>9, ConfiguredDoes
<1> HIDE DEF b
<1>11. RecordOK(b) /\ b.frame.on = a.frame.on
  BY <1>8, <1>10 DEF Over, RecordOK, FrameOK
<1>12. Over(b, c) /\ c.frame.drawing \subseteq b.frame.drawing \cup b.frame.on
  BY <1>9, <1>11, ConfiguredDoes
<1> HIDE DEF c
<1>13. Over(a, c)
  BY <1>8, <1>10, <1>12, OverTwice
<1>14. Over(a, r) /\ r.frame.drawing \subseteq a.frame.drawing \cup a.frame.on
  BY <1>8, <1>10, <1>11, <1>12, <1>13 DEF r
<1>15. /\ RecordOK(r)
       /\ \A x \in {"alive", "mapped", "tkWidth", "prevWidth", "initted", "refresh",
                    "resize", "redraw", "area", "view", "early"} : r.frame[x] = frame[x]
       /\ r.frame.on = on /\ r.frame.drawing \subseteq frame.drawing \cup on
       /\ \A x \in {"mapped", "width", "pointer", "drawn", "blank", "shown"} : r.server[x] = server[x]
  BY <1>1, <1>6, <1>7, <1>8, <1>14 DEF Over, RecordOK, FrameOK, ServerOK, TypesInv
<1>16. /\ FrameOK(frame') /\ IdleOK(idle') /\ \A x : Waits(idle, x) => Waits(idle', x)
       /\ \A x \in {"alive", "mapped", "tkWidth", "prevWidth", "initted",
                    "resize", "redraw", "area", "view", "early", "on", "drawing"} : frame'[x] = r.frame[x]
       /\ frame.refresh => frame'.refresh
       /\ frame'.refresh => frame.refresh \/ Waits(idle', "display")
  <2>1. FrameOK(r.frame) /\ r.frame.refresh = frame.refresh
    BY <1>15 DEF RecordOK
  <2>2. CASE Ask(r.frame, idle)
    <3>1. /\ FrameOK(frame') /\ frame'.refresh /\ \A x \in DOMAIN r.frame \ {"refresh"} : frame'[x] = r.frame[x]
          /\ IdleOK(idle') /\ \A x : Waits(idle, x) => Waits(idle', x)
          /\ ~ r.frame.refresh => Waits(idle', "display")
      BY <1>1, <2>1, <2>2, AskDoes DEF TypesInv
    <3> QED BY <2>1, <3>1 DEF FrameOK
  <2>3. CASE frame' = r.frame /\ UNCHANGED idle
    BY <1>1, <2>1, <2>3 DEF TypesInv
  <2> QED BY <1>3, <2>2, <2>3
<1>17. TypesInv'
  BY <1>1, <1>3, <1>15, <1>16 DEF TypesInv, RecordOK
<1>18. Served' /\ (Due => Due') /\ (Waiting => Waiting')
  BY <1>1, <1>15, <1>16 DEF Served, Due, Waiting
<1>19. Told' /\ Started' /\ Viewed'
  BY <1>1, <1>3, <1>15, <1>16, <1>18 DEF Told, Started, Viewed
<1>20. Within'
  BY <1>1, <1>5, <1>15, <1>16 DEF Within
<1>21. Covered' /\ Sized' /\ Crossed'
  BY <1>1, <1>3, <1>15, <1>16, <1>18 DEF Covered, Sized, Crossed
<1> QED BY <1>17, <1>18, <1>19, <1>20, <1>21 DEF IInv

\* The data connection is none of the widget's display.
LEMMA LinkKeeps == IInv /\ (Openlink \/ Closelink \/ ReadData) => IInv'
<1> SUFFICES ASSUME IInv, Openlink \/ Closelink \/ ReadData PROVE IInv'
  OBVIOUS
<1>1. TypesInv /\ Served /\ Told
  BY DEF IInv
<1>2. steps' \in 0..MaxSteps /\ UNCHANGED << world, server, queue, frame, idle, updating >>
  BY <1>1, ActCounts, PlFrameAssumption DEF Openlink, Closelink, ReadData, Script, Tk, TypesInv
<1>3. DOMAIN link' = {"pdfs", "handler"} /\ link'.pdfs \in {"null", "open", "closed"}
      /\ link'.handler \in BOOLEAN /\ used' \in BOOLEAN
  <2>1. CASE Openlink
    BY <1>1, <2>1 DEF Openlink, TypesInv
  <2>2. CASE Closelink
    BY <1>1, <2>2 DEF Closelink, TypesInv
  <2>3. CASE ReadData
    BY <1>1, <2>3 DEF ReadData, TypesInv, FrameOK
  <2> QED BY <2>1, <2>2, <2>3
<1>4. TypesInv' /\ Served' /\ Told' /\ (Waiting => Waiting') /\ (Due => Due')
  BY <1>1, <1>2, <1>3 DEF TypesInv, Served, Told, Waiting, Due
<1> QED BY <1>2, <1>4, NotedKeeps

\* The widget is destroyed.
LEMMA DestroyKeeps == IInv /\ Destroy => IInv'
<1> SUFFICES ASSUME IInv, Destroy PROVE IInv'
  OBVIOUS
<1>1. /\ TypesInv /\ Within /\ Sized /\ Crossed /\ steps' \in 0..MaxSteps
      /\ frame' = [frame EXCEPT !.alive = FALSE, !.mapped = FALSE] /\ queue' = << >>
      /\ idle' = IF frame.refresh THEN Cancelled ELSE idle
      /\ used' = (link.pdfs = "closed") /\ UNCHANGED << world, server, link, updating >>
  BY ActCounts DEF IInv, Destroy, Script
<1>2. /\ FrameOK(frame') /\ ~ frame'.alive
      /\ \A x \in {"tkWidth", "width", "prevWidth", "initted", "redraw", "early", "on", "drawing", "at",
                   "watched"} : frame'[x] = frame[x]
  BY <1>1 DEF TypesInv, FrameOK
<1>3. IdleOK(idle')
  BY <1>1, CancelledDoes DEF TypesInv
<1>4. queue' \in Seq(Event)
  BY <1>1
<1>5. TypesInv'
  BY <1>1, <1>2, <1>3, <1>4 DEF TypesInv
<1>6. Served' /\ Told' /\ Started' /\ Viewed' /\ Covered'
  BY <1>2 DEF Served, Told, Started, Viewed, Covered
<1>7. Within' /\ Sized'
  BY <1>1, <1>2 DEF Within, Sized
<1>8. Crossed'
  <2>1. Tidy(State) => Tidy(State)'
    BY <1>1, <1>2 DEF Tidy, State
  <2>2. ~ Coming(queue', Pointer)
    BY <1>1 DEF Coming
  <2> QED BY <1>1, <1>2, <2>1, <2>2 DEF Crossed
<1> QED BY <1>5, <1>6, <1>7, <1>8 DEF IInv

-----------------------------------------------------------------------------
(* The theorems.                                                           *)

\* The invariant holds at first.
LEMMA InitHolds == Init => IInv
<1> SUFFICES ASSUME Init PROVE IInv
  OBVIOUS
<1>1. PICK w \in Sizes :
       /\ server = [mapped |-> FALSE, width |-> w, pointer |-> Outside, drawn |-> 0, blank |-> FALSE,
                    seen |-> None, shown |-> 0]
       /\ frame = [alive |-> TRUE, mapped |-> FALSE, tkWidth |-> w, width |-> w, prevWidth |-> 0,
                   initted |-> FALSE, refresh |-> FALSE, resize |-> FALSE, redraw |-> FALSE,
                   area |-> FALSE, drawing |-> {}, at |-> [o \in Overlays |-> Outside],
                   watched |-> FALSE, view |-> 0, early |-> FALSE,
                   on |-> world \cap Overlays]
  BY DEF Init
<1>2. /\ world \in Worlds /\ queue = << >> /\ idle = [now |-> << >>, later |-> << >>]
      /\ link = [pdfs |-> "null", handler |-> FALSE] /\ updating = 0 /\ used = FALSE /\ steps = 0
  BY DEF Init
<1>3. FrameOK(frame)
  BY <1>1 DEF FrameOK, Spots
<1>4. ServerOK(server)
  BY <1>1 DEF ServerOK, None, Spots
<1>5. IdleOK(idle) /\ queue \in Seq(Event)
  BY <1>2 DEF IdleOK
<1>6. TypesInv
  <2>1. steps \in 0..MaxSteps /\ updating \in Nat /\ used \in BOOLEAN
    <3>1. MaxSteps \in Nat
      BY PlFrameAssumption
    <3>2. 0 \in 0..MaxSteps
      BY <3>1
    <3> QED BY <1>2, <3>2
  <2>2. DOMAIN link = {"pdfs", "handler"} /\ link.pdfs = "null" /\ link.handler = FALSE
    BY <1>2
  <2> QED BY <1>2, <1>3, <1>4, <1>5, <2>1, <2>2 DEF TypesInv
<1>7. \A T : ~ Coming(queue, T)
  BY <1>2 DEF Coming
<1>8. Told
  BY <1>1, <1>2, <1>7 DEF Told, ToldMapped, ToldSize, IsLast
<1>9. Served /\ Started /\ Viewed /\ Within /\ Covered /\ Sized
  BY <1>1 DEF Served, Started, Viewed, Within, Covered, Sized
<1>10. Crossed
  BY <1>1, <1>7 DEF Crossed
<1> QED BY <1>6, <1>8, <1>9, <1>10 DEF IInv

\* Every step keeps it.
LEMMA NextKeeps == IInv /\ [Next]_vars => IInv'
<1> SUFFICES ASSUME IInv, [Next]_vars PROVE IInv'
  OBVIOUS
<1>1. CASE User
  BY <1>1, UserKeeps
<1>2. CASE Events
  BY <1>2, ConfigureNotifyKeeps, MapNotifyKeeps, UnmapNotifyKeeps, ExposeKeeps, MotionKeeps, EnterKeeps,
     LeaveKeeps DEF Events
<1>3. CASE UpdateEnds \/ IdleBegins \/ IdleRuns
  BY <1>3, UpdateEndsKeeps, IdleBeginsKeeps, IdleRunsKeeps
<1>4. CASE Calls
  BY <1>4, RedrawKeeps, ConfigureKeeps, LinkKeeps, DestroyKeeps DEF Calls
<1>5. CASE UNCHANGED vars
  <2>1. Tidy(State) <=> Tidy(State)'
    BY <1>5 DEF vars, Tidy, State
  <2> QED BY <1>5, <2>1 DEF vars, IInv, TypesInv, Served, Told, Started, Viewed, Within, Covered, Sized,
                            Crossed, Due, Waiting
<1> QED BY <1>1, <1>2, <1>3, <1>4, <1>5 DEF Next, Loop

\* In every state, what happened or was asked for is noted, on its way or done.
THEOREM FrameInvariant == Spec => []IInv
BY InitHolds, NextKeeps, PTL DEF Spec

\* The event loop has less and less to do, and so comes to rest.
THEOREM LoopEndsHolds == Spec => LoopEnds
<1>1. IInv /\ Loop => Work' < Work
  BY ConfigureNotifyKeeps, MapNotifyKeeps, UnmapNotifyKeeps, ExposeKeeps, MotionKeeps, EnterKeeps,
     LeaveKeeps, UpdateEndsKeeps, IdleBeginsKeeps, IdleRunsKeeps DEF Loop, Events
<1>2. IInv /\ [Next]_vars => [Loop => Work' < Work]_vars
  BY <1>1
<1> QED BY <1>2, FrameInvariant, PTL DEF Spec, LoopEnds

\* In a quiet state nothing is due, and Tk knows the window as it is.
LEMMA QuietMeans ==
  ASSUME IInv, Settled
  PROVE  /\ ~ frame.refresh /\ ~ Waiting /\ frame.initted /\ \A T : ~ Coming(queue, T)
         /\ server.mapped /\ frame.tkWidth = server.width
<1>1. /\ idle.now = << >> /\ idle.later = << >> /\ queue = << >> /\ updating = 0
      /\ frame.alive /\ frame.mapped
  BY DEF Settled, Quiet
<1>2. (\A x : ~ Waits(idle, x)) /\ (\A T : ~ Coming(queue, T))
  BY <1>1 DEF Waits, Coming
<1>3. ~ frame.refresh /\ ~ Waiting /\ frame.initted
  BY <1>1, <1>2 DEF IInv, Served, Started, Waiting
<1>4. server.mapped /\ frame.tkWidth = server.width
  BY <1>1, <1>2 DEF IInv, Told, ToldMapped, ToldSize
<1> QED BY <1>2, <1>3, <1>4

\* No refresh that is noted as pending is lost.
THEOREM RefreshServedHolds == Spec => []RefreshServed
<1>1. Served => RefreshServed
  BY DEF Served, RefreshServed, Pending, Waits
<1> QED BY <1>1, FrameInvariant, PTL DEF IInv

\* The crosshairs are seen where they are drawn.
THEOREM CrosshairsTidyHolds == Spec => []CrosshairsTidy
<1>1. IInv => CrosshairsTidy
  <2> SUFFICES ASSUME IInv, Settled, ~ server.blank, world \cap {"rband", "configure"} = {}
               PROVE  server.seen["xhairs"] = IF "xhairs" \in frame.drawing THEN {frame.at["xhairs"]} ELSE {}
    BY DEF CrosshairsTidy
  <2>1. Tidy(State)
    BY QuietMeans DEF IInv, Crossed
  <2> QED BY <2>1 DEF Tidy, State
<1> QED BY <1>1, FrameInvariant, PTL

\* The plot is that of the last view, in the size of its window, and not blank.
THEOREM SettledShowsHolds == Spec => []SettledShows
<1>1. IInv => SettledShows
  <2> SUFFICES ASSUME IInv, Settled
               PROVE  /\ server.shown = frame.view
                      /\ world \cap Overlays = {} => ~ server.blank
                      /\ world \cap {"redraw", "configure"} = {} /\ ~ frame.early => server.drawn = server.width
    BY DEF SettledShows
  <2>1. /\ ~ frame.refresh /\ ~ Waiting /\ frame.initted /\ \A T : ~ Coming(queue, T)
        /\ frame.tkWidth = server.width /\ frame.alive /\ frame.mapped
    BY QuietMeans DEF Settled
  <2>2. ~ Due
    BY <2>1 DEF Due
  <2> QED BY <2>1, <2>2 DEF IInv, Viewed, Covered, Sized, TypesInv, FrameOK, ServerOK
<1> QED BY <1>1, FrameInvariant, PTL

\* The types.
THEOREM TypeHolds == Spec => []TypeOK
<1>1. IInv => TypeOK
  <2> SUFFICES ASSUME TypesInv PROVE TypeOK
    BY DEF IInv
  <2>1. idle = [now |-> idle.now, later |-> idle.later]
    BY DEF TypesInv, IdleOK
  <2>2. idle \in [now : Seq(Procs), later : Seq(Procs)]
    BY <2>1 DEF TypesInv, IdleOK
  <2> QED BY <2>2 DEF TypeOK, TypesInv, FrameOK, ServerOK, Spots
<1> QED BY <1>1, FrameInvariant, PTL
=============================================================================
