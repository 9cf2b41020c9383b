----------------------------- MODULE StripChart ------------------------------
(***************************************************************************)
(* The strip charts of src/plstripc.c: a program adds points to the pens   *)
(* of a chart, each point later than the ones before.  A point inside the  *)
(* window is drawn at once; one that is not makes the chart slide (or, if  *)
(* it accumulates, grow) and be drawn anew from the points it keeps.       *)
(***************************************************************************)
EXTENDS Integers, Sequences

CONSTANTS
  MaxStripc,   \* MAX_STRIPC
  Pens,        \* 0 to PEN - 1
  Kinds,       \* the charts that may be made: acc, y_ascl, xlen and xjump in per cent
  NPtsMax,     \* 100, the points that a pen has room for at first
  Grow,        \* 32
  Xs, Ys,      \* of points; those of a chart begin at 0, and with ymin = 0, ymax = YTop
  YTop,
  MaxPoints    \* bound on the points of a program

ASSUME StripAssumption ==
  /\ MaxStripc \in Nat /\ {NPtsMax, Grow, YTop} \subseteq Nat \ {0}
  /\ \A k \in Kinds : /\ {k.acc, k.y_ascl} \subseteq BOOLEAN
                      /\ k.xlen \in Nat \ {0} /\ k.xjump \in 1..100
  /\ Xs \subseteq Nat /\ Ys \subseteq Int /\ MaxPoints \in Nat

VARIABLES
  strip,     \* the charts, with what the device shows of them
  time,      \* of the last point
  points,    \* how many there were
  overrun    \* whether the search for the points to keep left the points of a pen

vars == << strip, time, points, overrun >>

Ids  == 0..MaxStripc - 1
None == [exists |-> FALSE]

Init ==
  /\ strip = [i \in Ids |-> None]
  /\ time = 0 /\ points = 0 /\ overrun = FALSE

-----------------------------------------------------------------------------
\* The lines that plline draws.
Polyline(pts) == {<< pts[k], pts[k + 1] >> : k \in 1..Len(pts) - 1}

\* Wrong: the window stays as it was.
PlstripGenWindow(s) == [s EXCEPT !.shown = [p \in Pens |-> Polyline(s.pts[p])]]

\* plstrip_gen: the window is cleared and set anew.
PlstripGen(s) ==
  [s EXCEPT !.window = [xmin |-> s.xmin, xmax |-> s.xmax, ymin |-> s.ymin, ymax |-> s.ymax],
            !.shown  = [p \in Pens |-> Polyline(s.pts[p])]]

NewStrip(k) == PlstripGen(
  [exists |-> TRUE, acc |-> k.acc, y_ascl |-> k.y_ascl, xlen |-> k.xlen, xjump |-> k.xjump,
   xmin |-> 0, xmax |-> k.xlen, ymin |-> 0, ymax |-> YTop,
   pts |-> [p \in Pens |-> << >>], nptsmax |-> [p \in Pens |-> NPtsMax],
   window |-> [xmin |-> 0, xmax |-> 0, ymin |-> 0, ymax |-> 0], shown |-> [p \in Pens |-> {}]])

\* A jump, and 1.1 times a length, rounded up.
Jump(len, xjump) == (len * xjump) \div 100
Tenth(len)       == (11 * len + 9) \div 10

\* Wrong: the room is looked at before the point is counted.
AddedLate(s, p, x, y) ==
  LET top == IF y > s.ymax THEN s.ymin + Tenth(y - s.ymin) ELSE s.ymax
  IN  [s EXCEPT !.pts[p] = Append(@, << x, y >>),
                !.nptsmax[p] = IF Len(s.pts[p]) > @ THEN @ + Grow ELSE @,
                !.xmax = x, !.ymax = top,
                !.ymin = IF y < @ THEN top - Tenth(top - y) ELSE @]

\* plstripa: room for the point, the point, and the range of y.
Added(s, p, x, y) ==
  LET top == IF y > s.ymax THEN s.ymin + Tenth(y - s.ymin) ELSE s.ymax
  IN  [s EXCEPT !.pts[p] = Append(@, << x, y >>),
                !.nptsmax[p] = IF Len(s.pts[p]) + 1 > @ THEN @ + Grow ELSE @,
                !.xmax = x, !.ymax = top,
                !.ymin = IF y < @ THEN top - Tenth(top - y) ELSE @]

\* A line from the pen's point before, in the window that there is.
Drawn(s, p) ==
  LET n == Len(s.pts[p])
  IN  [s EXCEPT !.shown[p] = @ \cup {<< s.pts[p][IF n < 2 THEN n ELSE n - 1], s.pts[p][n] >>}]

\* The first point of the pen that is kept; there is none when the pen has
\* no point so late, and the loop goes on behind its points.
From(s)     == s.xmin + Jump(s.xlen, s.xjump)
Late(s, p)  == {k \in 1..Len(s.pts[p]) : s.pts[p][k][1] >= From(s)}
Istart(s, p) == CHOOSE k \in Late(s, p) : \A l \in Late(s, p) : k <= l
Overruns(s) == ~ s.acc /\ \E p \in Pens : s.pts[p] # << >> /\ Late(s, p) = {}

\* Wrong: the window is moved first.
SlidTwice(s) ==
  LET t == [s EXCEPT !.xmin = From(s), !.xmax = @ + Jump(s.xlen, s.xjump)]
  IN  [t EXCEPT !.pts = [p \in Pens |->
         IF Late(t, p) = {} THEN << >>
         ELSE SubSeq(s.pts[p], Istart(t, p), Len(s.pts[p]))]]

\* memcpy is taken to copy forward where the pieces overlap.
Slid(s) ==
  [s EXCEPT !.pts = [p \in Pens |-> IF s.pts[p] = << >> THEN << >>
                                    ELSE SubSeq(s.pts[p], Istart(s, p), Len(s.pts[p]))],
            !.xmin = From(s), !.xmax = @ + Jump(s.xlen, s.xjump)]

\* A chart that accumulates begins with the first point of the pen.
Accumulated(s, p) ==
  LET len == s.xlen + Jump(s.xlen, s.xjump)
  IN  [s EXCEPT !.xlen = len, !.xmin = s.pts[p][1][1], !.xmax = @ + Jump(len, s.xjump)]

Rescales(s, y) == s.y_ascl /\ (y > s.ymax \/ y < s.ymin)

Stripa(s, p, x, y) ==
  LET a == Added(s, p, x, y)
  IN  IF x - s.xmin >= s.xlen THEN PlstripGen(IF s.acc THEN Accumulated(a, p) ELSE Slid(a))
      ELSE IF Rescales(s, y) THEN PlstripGen([a EXCEPT !.xmax = s.xmin + s.xlen])
      ELSE Drawn(a, p)

-----------------------------------------------------------------------------
\* The first id that is free, if there is one and the memory for its chart.
Plstripc == \E k \in Kinds :
  /\ ~ overrun
  /\ LET free == {i \in Ids : ~ strip[i].exists}
     IN  \/ UNCHANGED strip
         \/ /\ free # {}
            /\ strip' = [strip EXCEPT ![CHOOSE i \in free : \A j \in free : i <= j] = NewStrip(k)]
  /\ UNCHANGED << time, points, overrun >>

\* A search that leaves the points of a pen reads what was there before, or
\* behind the array: nothing is known of what follows.
Plstripa == \E i \in Ids, p \in Pens, x \in Xs, y \in Ys :
  /\ ~ overrun /\ points < MaxPoints
  /\ strip[i].exists /\ x >= time
  /\ points' = points + 1 /\ time' = x
  /\ IF x - strip[i].xmin >= strip[i].xlen /\ Overruns(Added(strip[i], p, x, y))
     THEN overrun' = TRUE /\ UNCHANGED strip
     ELSE strip' = [strip EXCEPT ![i] = Stripa(@, p, x, y)] /\ UNCHANGED overrun

\* The pen has no room left and there is no memory: the chart is deleted.
PlstripaNoMemory == \E i \in Ids, p \in Pens, x \in Xs :
  /\ ~ overrun /\ points < MaxPoints
  /\ strip[i].exists /\ x >= time
  /\ Len(strip[i].pts[p]) = strip[i].nptsmax[p]
  /\ points' = points + 1 /\ time' = x
  /\ strip' = [strip EXCEPT ![i] = None]
  /\ UNCHANGED overrun

Plstripd == \E i \in Ids :
  /\ ~ overrun
  /\ strip' = [strip EXCEPT ![i] = None]
  /\ UNCHANGED << time, points, overrun >>

Next == Plstripc \/ Plstripa \/ PlstripaNoMemory \/ Plstripd

Spec == Init /\ [][Next]_vars
-----------------------------------------------------------------------------
(* Properties.                                                             *)

Charts == {i \in Ids : strip[i].exists}
Point  == Xs \X Ys

\* A pen never has more points than it has room for.
TypeOK ==
  /\ time \in Xs \cup {0} /\ points \in 0..MaxPoints /\ overrun \in BOOLEAN
  /\ \A i \in Charts : \A p \in Pens :
       /\ strip[i].pts[p] \in Seq(Point) /\ Len(strip[i].pts[p]) <= strip[i].nptsmax[p]
       /\ {strip[i].xmin, strip[i].xmax, strip[i].ymin, strip[i].ymax} \subseteq Int

\* The pens of a chart that accumulates begin at its beginning.
Together(s) == \A p \in Pens : s.pts[p] # << >> => s.pts[p][1][1] = 0

\* Every point that a chart keeps is in its window, along x at least, with
\* y_ascl along y too, and the lines that are drawn as points come are those
\* that plstrip_gen would draw.
PointsShown == \A i \in Charts :
  LET s == strip[i]
  IN  \A p \in Pens :
        /\ Polyline(s.pts[p]) \subseteq s.shown[p]
        /\ \A k \in DOMAIN s.pts[p] :
             /\ ~ s.acc \/ Together(s) => s.pts[p][k][1] \in s.window.xmin..s.window.xmax
             /\ s.y_ascl => s.pts[p][k][2] \in s.window.ymin..s.window.ymax

\* A point is dropped only when it lies before the window, and those that are
\* kept keep their order.
Behind(s, t, p) ==
  \E k \in 0..Len(s.pts[p]) :
    /\ \A l \in 1..k : s.pts[p][l][1] < t.xmin
    /\ \E q \in 0..1 : Len(t.pts[p]) = Len(s.pts[p]) - k + q
    /\ \A l \in k + 1..Len(s.pts[p]) : t.pts[p][l - k] = s.pts[p][l]
KeepsPoints == [][
  \A i \in Charts : strip'[i].exists => \A p \in Pens : Behind(strip[i], strip'[i], p) ]_vars

\* "There is no need for all pens to have the same number of points or to be
\* equally sampled in the x coordinate" (api.xml): no search leaves its pen.
PensApart == ~ overrun
=============================================================================
