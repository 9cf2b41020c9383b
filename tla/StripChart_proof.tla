-------------------------- MODULE StripChart_proof ---------------------------
(***************************************************************************)
(* Proofs about strip charts, for every length, jump, growth, number of    *)
(* pens and charts, and every sequence of points.                          *)
(***************************************************************************)
EXTENDS StripChart, WellFoundedInduction, TLAPS

\* A set of natural numbers that is not empty has a first one, which CHOOSE finds:
\* the free id of plstripc, the first point that is kept.
LEMMA FirstOf ==
  ASSUME NEW T, T \subseteq Nat, T # {}
  PROVE  LET n == CHOOSE i \in T : \A j \in T : i <= j IN n \in T /\ \A j \in T : n <= j
<1> DEFINE R == OpToRel(<, Nat)
<1>1. IsWellFoundedOn(R, Nat)
  BY NatLessThanWellFounded
<1>2. \A x, y \in Nat : << y, x >> \in R <=> y < x
  BY DEF OpToRel
<1> HIDE DEF R
<1>3. PICK x \in T : \A y \in T : ~ (<< y, x >> \in R)
  BY <1>1, WFMin
<1>4. ASSUME NEW y \in T PROVE x <= y
  <2>1. x \in Nat /\ y \in Nat
    OBVIOUS
  <2>2. ~ (y < x)
    BY <1>2, <1>3, <2>1, Zenon
  <2> QED BY <2>1, <2>2
<1> QED BY <1>4

Window == [xmin : Int, xmax : Int, ymin : Int, ymax : Int]
Line   == Point \X Point
Parts  == {"exists", "acc", "y_ascl", "xlen", "xjump", "xmin", "xmax", "ymin", "ymax",
           "pts", "nptsmax", "window", "shown"}

\* The fields of a chart, of which the pens are never without room.
Shaped(s) ==
  /\ DOMAIN s = Parts /\ s.exists = TRUE /\ {s.acc, s.y_ascl} \subseteq BOOLEAN
  /\ s.xlen \in Nat \ {0} /\ s.xjump \in 1..100 /\ s.xmin \in Nat /\ s.xmax \in Nat
  /\ {s.ymin, s.ymax} \subseteq Int /\ s.ymin <= s.ymax
  /\ s.window \in Window
  /\ DOMAIN s.pts = Pens /\ DOMAIN s.nptsmax = Pens /\ DOMAIN s.shown = Pens
  /\ \A p \in Pens : /\ s.pts[p] \in Seq(Point) /\ s.nptsmax[p] \in Nat
                     /\ Len(s.pts[p]) <= s.nptsmax[p]

\* The points of a pen are in order, and none is later than the last one, t.
Ordered(s, t) == \A p \in Pens :
  /\ \A k, l \in DOMAIN s.pts[p] : k <= l => s.pts[p][k][1] <= s.pts[p][l][1]
  /\ \A k \in DOMAIN s.pts[p] : s.pts[p][k][1] <= t

\* The window begins where the chart does, and is as long at least.
InX(s, t) == ~ s.acc \/ Together(s) =>
  /\ s.window.xmin = s.xmin /\ s.xmin + s.xlen <= s.window.xmax /\ s.xmin <= t
  /\ s.acc => s.xmin = 0
  /\ \A p \in Pens : \A k \in DOMAIN s.pts[p] :
       s.window.xmin <= s.pts[p][k][1] /\ s.pts[p][k][1] <= s.window.xmax

InY(s) == s.y_ascl =>
  /\ s.window.ymin = s.ymin /\ s.window.ymax = s.ymax
  /\ \A p \in Pens : \A k \in DOMAIN s.pts[p] :
       s.ymin <= s.pts[p][k][2] /\ s.pts[p][k][2] <= s.ymax

AllDrawn(s) == \A p \in Pens : Polyline(s.pts[p]) \subseteq s.shown[p]

Fit(s, t) == Shaped(s) /\ Ordered(s, t) /\ InX(s, t) /\ InY(s) /\ AllDrawn(s)
-----------------------------------------------------------------------------
(* Numbers.                                                                *)

\* A jump is a natural number, never longer than the chart.
LEMMA JumpNat ==
  ASSUME NEW len \in Nat, NEW j \in 1..100
  PROVE  Jump(len, j) \in Nat /\ Jump(len, j) <= len
<1>1. len * j \in Nat /\ len * j <= len * 100
  OBVIOUS
<1> DEFINE n == len * j
<1>2. n \in Nat /\ n <= len * 100
  BY <1>1
<1> HIDE DEF n
<1>3. n \div 100 \in Nat /\ n \div 100 <= len
  BY <1>2
<1> QED BY <1>3 DEF Jump, n

\* The jump of a longer chart is longer, or the same.
LEMMA JumpMonotonic ==
  ASSUME NEW a \in Nat, NEW b \in Nat, a <= b, NEW j \in 1..100
  PROVE  Jump(a, j) <= Jump(b, j)
<1> DEFINE m == a * j
           n == b * j
<1>1. m \in Nat /\ n \in Nat /\ m <= n
  OBVIOUS
<1> HIDE DEF m, n
<1>2. m \div 100 <= n \div 100
  BY <1>1
<1> QED BY <1>2 DEF Jump, m, n

\* 1.1 times a length is not shorter.
LEMMA TenthLonger == ASSUME NEW l \in Nat PROVE Tenth(l) \in Nat /\ Tenth(l) >= l
BY DEF Tenth

\* The coordinates of a point.
LEMMA PointType == \A q \in Point : q[1] \in Nat /\ q[2] \in Int
BY StripAssumption DEF Point
-----------------------------------------------------------------------------
(* What the steps of plstripa change.                                      *)

\* A point appended to a pen.
LEMMA AppendPoint ==
  ASSUME NEW s \in Seq(Point), NEW q \in Point
  PROVE  LET t == Append(s, q)
         IN  /\ t \in Seq(Point) /\ Len(t) = Len(s) + 1 /\ t[Len(t)] = q /\ DOMAIN t = 1..Len(s) + 1
             /\ \A k \in 1..Len(s) : t[k] = s[k]
OBVIOUS

\* The lines of the point and of the pen's points before.
LEMMA AppendLine ==
  ASSUME NEW s \in Seq(Point), NEW q \in Point
  PROVE  LET t == Append(s, q)
             n == Len(t)
         IN  Polyline(t) \subseteq Polyline(s) \cup {<< t[IF n < 2 THEN n ELSE n - 1], t[n] >>}
<1> DEFINE t == Append(s, q)
           n == Len(t)
<1>1. /\ Len(s) \in Nat /\ n = Len(s) + 1 /\ \A k \in 1..Len(s) : t[k] = s[k]
  BY AppendPoint
<1> HIDE DEF t
<1>2. ASSUME NEW k \in 1..n - 1
      PROVE  << t[k], t[k + 1] >> \in Polyline(s) \cup {<< t[IF n < 2 THEN n ELSE n - 1], t[n] >>}
  <2>1. CASE k = n - 1
    BY <1>1, <2>1
  <2>2. CASE k # n - 1
    <3>1. k \in 1..Len(s) - 1 /\ k \in 1..Len(s) /\ k + 1 \in 1..Len(s)
      BY <1>1, <2>2
    <3>2. << t[k], t[k + 1] >> = << s[k], s[k + 1] >>
      BY <1>1, <3>1
    <3> QED BY <3>1, <3>2 DEF Polyline
  <2> QED BY <2>1, <2>2
<1> QED BY <1>2 DEF Polyline, t

\* a is the chart s with a point more.
More(s, a, p, x, y) ==
  /\ DOMAIN a = Parts /\ DOMAIN a.pts = Pens /\ DOMAIN a.nptsmax = Pens
  /\ a.pts[p] = Append(s.pts[p], << x, y >>) /\ \A r \in Pens \ {p} : a.pts[r] = s.pts[r]
  /\ a.nptsmax[p] = IF Len(s.pts[p]) + 1 > s.nptsmax[p] THEN s.nptsmax[p] + Grow ELSE s.nptsmax[p]
  /\ \A r \in Pens \ {p} : a.nptsmax[r] = s.nptsmax[r]
  /\ a.xmax = x /\ a.xmin = s.xmin /\ a.xlen = s.xlen /\ a.xjump = s.xjump
  /\ a.ymax = IF y > s.ymax THEN s.ymin + Tenth(y - s.ymin) ELSE s.ymax
  /\ a.ymin = IF y < s.ymin THEN a.ymax - Tenth(a.ymax - y) ELSE s.ymin
  /\ a.exists = TRUE /\ a.acc = s.acc /\ a.y_ascl = s.y_ascl
  /\ a.window = s.window /\ a.shown = s.shown

\* Added is a chart with a point more.
LEMMA AddedMore ==
  ASSUME NEW s, Shaped(s), NEW p \in Pens, NEW x \in Xs, NEW y \in Ys
  PROVE  More(s, Added(s, p, x, y), p, x, y)
BY DEF Added, Shaped, Parts, More

\* The room grows before the point is stored, and the range of y takes it in.
LEMMA AddedShaped ==
  ASSUME NEW s, Shaped(s), NEW p \in Pens, NEW x \in Xs, NEW y \in Ys, NEW a, More(s, a, p, x, y)
  PROVE  /\ Shaped(a) /\ a.ymin <= s.ymin /\ s.ymax <= a.ymax /\ a.ymin <= y /\ y <= a.ymax
         /\ ~ Rescales(s, y) /\ s.y_ascl => a.ymin = s.ymin /\ a.ymax = s.ymax
<1>0. x \in Nat /\ y \in Int /\ << x, y >> \in Point /\ Grow \in Nat \ {0}
  BY StripAssumption DEF Point
<1>1. s.ymin \in Int /\ s.ymax \in Int /\ s.ymin <= s.ymax
  BY DEF Shaped
<1>2. a.ymax \in Int /\ s.ymax <= a.ymax /\ y <= a.ymax
  <2>1. CASE y > s.ymax
    <3>1. y - s.ymin \in Nat
      BY <1>0, <1>1, <2>1
    <3>2. Tenth(y - s.ymin) \in Nat /\ Tenth(y - s.ymin) >= y - s.ymin
      BY <3>1, TenthLonger
    <3>3. a.ymax = s.ymin + Tenth(y - s.ymin)
      BY <2>1 DEF More
    <3> QED BY <1>0, <1>1, <2>1, <3>2, <3>3
  <2>2. CASE ~ (y > s.ymax)
    <3>1. a.ymax = s.ymax
      BY <2>2 DEF More
    <3> QED BY <1>0, <1>1, <2>2, <3>1
  <2> QED BY <2>1, <2>2
<1>3. a.ymin \in Int /\ a.ymin <= s.ymin /\ a.ymin <= y
  <2>1. CASE y < s.ymin
    <3>1. a.ymax - y \in Nat
      BY <1>0, <1>1, <1>2, <2>1
    <3>2. Tenth(a.ymax - y) \in Nat /\ Tenth(a.ymax - y) >= a.ymax - y
      BY <3>1, TenthLonger
    <3>3. a.ymin = a.ymax - Tenth(a.ymax - y)
      BY <2>1 DEF More
    <3> QED BY <1>0, <1>1, <1>2, <2>1, <3>2, <3>3
  <2>2. CASE ~ (y < s.ymin)
    <3>1. a.ymin = s.ymin
      BY <2>2 DEF More
    <3> QED BY <1>0, <1>1, <2>2, <3>1
  <2> QED BY <2>1, <2>2
<1>4. ~ Rescales(s, y) /\ s.y_ascl => a.ymin = s.ymin /\ a.ymax = s.ymax
  BY DEF Rescales, More
<1>5. \A r \in Pens : a.pts[r] \in Seq(Point) /\ a.nptsmax[r] \in Nat /\ Len(a.pts[r]) <= a.nptsmax[r]
  <2>1. s.pts[p] \in Seq(Point) /\ s.nptsmax[p] \in Nat /\ Len(s.pts[p]) <= s.nptsmax[p]
    BY DEF Shaped
  <2>2. a.pts[p] \in Seq(Point) /\ Len(a.pts[p]) = Len(s.pts[p]) + 1
    BY <1>0, <2>1, AppendPoint DEF More
  <2>3. a.nptsmax[p] = IF Len(s.pts[p]) + 1 > s.nptsmax[p] THEN s.nptsmax[p] + Grow ELSE s.nptsmax[p]
    BY DEF More
  <2>4. Len(s.pts[p]) \in Nat
    BY <2>1
  <2>5. a.nptsmax[p] \in Nat /\ Len(a.pts[p]) <= a.nptsmax[p]
    BY <1>0, <2>1, <2>2, <2>3, <2>4
  <2>6. \A r \in Pens \ {p} : a.pts[r] = s.pts[r] /\ a.nptsmax[r] = s.nptsmax[r]
    BY DEF More
  <2> QED BY <2>2, <2>5, <2>6 DEF Shaped
<1>6. Shaped(a)
  BY <1>0, <1>1, <1>2, <1>3, <1>5 DEF Shaped, More
<1> QED BY <1>2, <1>3, <1>4, <1>6

\* The point comes after the others, which are as they were.
LEMMA MoreOrdered ==
  ASSUME NEW s, NEW t \in Nat, Shaped(s), Ordered(s, t), NEW p \in Pens, NEW x \in Xs, t <= x, NEW y \in Ys,
         NEW a, More(s, a, p, x, y)
  PROVE  /\ Ordered(a, x) /\ Len(a.pts[p]) \in DOMAIN a.pts[p] /\ 1 \in DOMAIN a.pts[p]
         /\ \A r \in Pens : \A k \in DOMAIN a.pts[r] :
              \/ k \in DOMAIN s.pts[r] /\ a.pts[r][k] = s.pts[r][k]
              \/ r = p /\ k = Len(a.pts[p]) /\ a.pts[r][k] = << x, y >>
         /\ \A r \in Pens : \A k \in DOMAIN s.pts[r] : k \in DOMAIN a.pts[r] /\ a.pts[r][k] = s.pts[r][k]
<1>0. x \in Nat /\ << x, y >> \in Point /\ << x, y >>[1] = x
  BY StripAssumption DEF Point
<1>1. /\ s.pts[p] \in Seq(Point) /\ Len(s.pts[p]) \in Nat /\ DOMAIN s.pts[p] = 1..Len(s.pts[p])
      /\ Len(a.pts[p]) = Len(s.pts[p]) + 1 /\ DOMAIN a.pts[p] = 1..Len(s.pts[p]) + 1
      /\ a.pts[p][Len(a.pts[p])] = << x, y >> /\ \A k \in 1..Len(s.pts[p]) : a.pts[p][k] = s.pts[p][k]
  BY <1>0, AppendPoint DEF More, Shaped
<1>2. \A r \in Pens \ {p} : a.pts[r] = s.pts[r]
  BY DEF More
<1>3. \A r \in Pens : \A k \in DOMAIN a.pts[r] :
        \/ k \in DOMAIN s.pts[r] /\ a.pts[r][k] = s.pts[r][k]
        \/ r = p /\ k = Len(a.pts[p]) /\ a.pts[r][k] = << x, y >>
  <2> SUFFICES ASSUME NEW r \in Pens, NEW k \in DOMAIN a.pts[r]
               PROVE  \/ k \in DOMAIN s.pts[r] /\ a.pts[r][k] = s.pts[r][k]
                      \/ r = p /\ k = Len(a.pts[p]) /\ a.pts[r][k] = << x, y >>
    OBVIOUS
  <2>1. CASE r # p
    BY <1>2, <2>1
  <2>2. CASE r = p
    <3>1. k \in 1..Len(s.pts[p]) + 1
      BY <1>1, <2>2
    <3>2. CASE k = Len(s.pts[p]) + 1
      BY <1>1, <2>2, <3>2
    <3>3. CASE k # Len(s.pts[p]) + 1
      <4>1. k \in 1..Len(s.pts[p])
        BY <1>1, <3>1, <3>3
      <4> QED BY <1>1, <2>2, <4>1
    <3> QED BY <3>2, <3>3
  <2> QED BY <2>1, <2>2
<1>4. \A r \in Pens : \A k \in DOMAIN s.pts[r] : k \in DOMAIN a.pts[r] /\ a.pts[r][k] = s.pts[r][k]
  <2> SUFFICES ASSUME NEW r \in Pens, NEW k \in DOMAIN s.pts[r]
               PROVE  k \in DOMAIN a.pts[r] /\ a.pts[r][k] = s.pts[r][k]
    OBVIOUS
  <2>1. CASE r # p
    BY <1>2, <2>1
  <2>2. CASE r = p
    <3>1. k \in 1..Len(s.pts[p]) /\ k \in 1..Len(s.pts[p]) + 1
      BY <1>1, <2>2
    <3> QED BY <1>1, <2>2, <3>1
  <2> QED BY <2>1, <2>2
<1>5. \A r \in Pens : \A k \in DOMAIN s.pts[r] : s.pts[r][k] \in Point /\ s.pts[r][k][1] \in Nat /\ s.pts[r][k][1] <= x
  <2> SUFFICES ASSUME NEW r \in Pens, NEW k \in DOMAIN s.pts[r]
               PROVE  s.pts[r][k] \in Point /\ s.pts[r][k][1] \in Nat /\ s.pts[r][k][1] <= x
    OBVIOUS
  <2>1. s.pts[r][k] \in Point
    BY DEF Shaped
  <2>2. s.pts[r][k][1] \in Nat /\ s.pts[r][k][1] <= t
    BY <2>1, PointType DEF Ordered
  <2> QED BY <1>0, <2>1, <2>2
<1>6. Ordered(a, x)
  <2>1. ASSUME NEW r \in Pens, NEW k \in DOMAIN a.pts[r] PROVE a.pts[r][k][1] <= x
    BY <1>0, <1>3, <1>5, <2>1
  <2>2. ASSUME NEW r \in Pens, NEW k \in DOMAIN a.pts[r], NEW l \in DOMAIN a.pts[r], k <= l
        PROVE  a.pts[r][k][1] <= a.pts[r][l][1]
    <3>1. CASE r = p /\ l = Len(a.pts[p])
      BY <1>0, <1>1, <2>1, <3>1
    <3>2. CASE ~ (r = p /\ l = Len(a.pts[p]))
      <4>1. l \in DOMAIN s.pts[r] /\ a.pts[r][l] = s.pts[r][l]
        BY <1>3, <3>2
      <4>2. k \in DOMAIN s.pts[r] /\ a.pts[r][k] = s.pts[r][k]
        BY <1>1, <1>2, <1>3, <2>2, <3>2, <4>1
      <4> QED BY <2>2, <4>1, <4>2 DEF Ordered
    <3> QED BY <3>1, <3>2
  <2> QED BY <2>1, <2>2 DEF Ordered
<1>7. Len(a.pts[p]) \in DOMAIN a.pts[p] /\ 1 \in DOMAIN a.pts[p]
  BY <1>1
<1> QED BY <1>3, <1>4, <1>6, <1>7

\* plstrip_gen: the window is that of the chart, with all of its lines.
Generated(s, g) ==
  /\ DOMAIN g = Parts /\ g.exists = s.exists /\ g.acc = s.acc /\ g.y_ascl = s.y_ascl
  /\ g.xlen = s.xlen /\ g.xjump = s.xjump /\ g.xmin = s.xmin /\ g.xmax = s.xmax
  /\ g.ymin = s.ymin /\ g.ymax = s.ymax /\ g.pts = s.pts /\ g.nptsmax = s.nptsmax
  /\ g.window = [xmin |-> s.xmin, xmax |-> s.xmax, ymin |-> s.ymin, ymax |-> s.ymax]
  /\ g.shown = [p \in Pens |-> Polyline(s.pts[p])]

\* PlstripGen is that.
LEMMA GenDrawn ==
  ASSUME NEW s, DOMAIN s = Parts
  PROVE  Generated(s, PlstripGen(s))
BY DEF PlstripGen, Generated, Parts

\* A chart whose range holds its points fits them once it is drawn anew.
LEMMA GenFit ==
  ASSUME NEW s, NEW t \in Nat, Shaped(s), Ordered(s, t),
         ~ s.acc \/ Together(s) =>
           /\ s.xmin + s.xlen <= s.xmax /\ s.xmin <= t /\ (s.acc => s.xmin = 0)
           /\ \A p \in Pens : \A k \in DOMAIN s.pts[p] : s.xmin <= s.pts[p][k][1] /\ s.pts[p][k][1] <= s.xmax,
         s.y_ascl => \A p \in Pens : \A k \in DOMAIN s.pts[p] : s.ymin <= s.pts[p][k][2] /\ s.pts[p][k][2] <= s.ymax
  PROVE  Fit(PlstripGen(s), t) /\ PlstripGen(s).pts = s.pts /\ PlstripGen(s).xmin = s.xmin
<1> DEFINE g == PlstripGen(s)
<1>1. Generated(s, g)
  BY GenDrawn DEF Shaped
<1> HIDE DEF g
<1>2. /\ g.window.xmin = s.xmin /\ g.window.xmax = s.xmax /\ g.window.ymin = s.ymin /\ g.window.ymax = s.ymax
      /\ g.window \in Window
  BY <1>1 DEF Generated, Shaped, Window
<1>3. Shaped(g)
  BY <1>1, <1>2 DEF Generated, Shaped
<1>4. Ordered(g, t)
  BY <1>1 DEF Generated, Ordered
<1>5. InX(g, t)
  BY <1>1, <1>2 DEF Generated, InX, Together
<1>6. InY(g)
  BY <1>1, <1>2 DEF Generated, InY
<1>7. AllDrawn(g)
  BY <1>1 DEF Generated, AllDrawn
<1> QED BY <1>1, <1>3, <1>4, <1>5, <1>6, <1>7 DEF Fit, Generated, g
-----------------------------------------------------------------------------
(* The four ways of plstripa.  A chart s has got a point at x, y: it is a. *)

\* The points of each pen are those that were there, and the new one.
LEMMA MoreBehind ==
  ASSUME NEW s, Shaped(s), NEW p \in Pens, NEW x \in Xs, NEW y \in Ys,
         NEW a, More(s, a, p, x, y), NEW g, g.pts = a.pts, NEW r \in Pens
  PROVE  Behind(s, g, r)
<1>0. s.pts[r] \in Seq(Point) /\ Len(s.pts[r]) \in Nat /\ << x, y >> \in Point
  BY DEF Shaped, Point
<1>1. \E q \in 0..1 : Len(g.pts[r]) = Len(s.pts[r]) - 0 + q
  <2>1. CASE r = p
    <3>1. Len(g.pts[r]) = Len(s.pts[r]) + 1
      BY <1>0, <2>1, AppendPoint DEF More
    <3> QED BY <1>0, <3>1
  <2>2. CASE r # p
    BY <1>0, <2>2 DEF More
  <2> QED BY <2>1, <2>2
<1>2. \A l \in 0 + 1..Len(s.pts[r]) : g.pts[r][l - 0] = s.pts[r][l]
  <2>1. CASE r = p
    BY <1>0, <2>1, AppendPoint DEF More
  <2>2. CASE r # p
    BY <1>0, <2>2 DEF More
  <2> QED BY <2>1, <2>2
<1>3. 0 \in 0..Len(s.pts[r]) /\ \A l \in 1..0 : s.pts[r][l][1] < g.xmin
  BY <1>0
<1> QED BY <1>1, <1>2, <1>3 DEF Behind

\* The pens that begin at 0 did so before.
LEMMA MoreTogether ==
  ASSUME NEW s, NEW t \in Nat, Shaped(s), Ordered(s, t), NEW p \in Pens, NEW x \in Xs, t <= x, NEW y \in Ys,
         NEW a, More(s, a, p, x, y), Together(a)
  PROVE  Together(s)
<1> SUFFICES ASSUME NEW r \in Pens, s.pts[r] # << >> PROVE s.pts[r][1][1] = 0
  BY DEF Together
<1>1. s.pts[r] \in Seq(Point) /\ 1 \in DOMAIN s.pts[r]
  BY DEF Shaped
<1>2. 1 \in DOMAIN a.pts[r] /\ a.pts[r][1] = s.pts[r][1]
  BY <1>1, MoreOrdered
<1>3. a.pts[r] # << >>
  BY <1>2
<1> QED BY <1>2, <1>3 DEF Together

\* What is known of a before its window is looked at.
LEMMA MoreKnown ==
  ASSUME NEW s, NEW t \in Nat, Fit(s, t), NEW p \in Pens, NEW x \in Xs, t <= x, NEW y \in Ys,
         NEW a, More(s, a, p, x, y)
  PROVE  /\ x \in Nat /\ Shaped(a) /\ Ordered(a, x)
         /\ ~ a.acc \/ Together(a) =>
              /\ s.window.xmin = s.xmin /\ s.xmin + s.xlen <= s.window.xmax /\ s.xmin <= x
              /\ (s.acc => s.xmin = 0)
              /\ \A r \in Pens : \A k \in DOMAIN a.pts[r] : a.xmin <= a.pts[r][k][1]
         /\ a.y_ascl => \A r \in Pens : \A k \in DOMAIN a.pts[r] : a.ymin <= a.pts[r][k][2] /\ a.pts[r][k][2] <= a.ymax
<1>0. x \in Nat /\ << x, y >>[1] = x /\ << x, y >>[2] = y /\ y \in Int
  BY StripAssumption
<1>1. Shaped(s) /\ Ordered(s, t) /\ InX(s, t) /\ InY(s)
  BY DEF Fit
<1>2. /\ Shaped(a) /\ a.ymin <= s.ymin /\ s.ymax <= a.ymax /\ a.ymin <= y /\ y <= a.ymax
  BY <1>1, AddedShaped
<1>3. /\ Ordered(a, x)
      /\ \A r \in Pens : \A k \in DOMAIN a.pts[r] :
              \/ k \in DOMAIN s.pts[r] /\ a.pts[r][k] = s.pts[r][k]
              \/ r = p /\ k = Len(a.pts[p]) /\ a.pts[r][k] = << x, y >>
  BY <1>1, MoreOrdered
<1>4. ASSUME ~ a.acc \/ Together(a)
      PROVE  /\ s.window.xmin = s.xmin /\ s.xmin + s.xlen <= s.window.xmax /\ s.xmin <= x
             /\ (s.acc => s.xmin = 0)
             /\ \A r \in Pens : \A k \in DOMAIN a.pts[r] : a.xmin <= a.pts[r][k][1]
  <2>1. ~ s.acc \/ Together(s)
    <3>1. a.acc = s.acc
      BY DEF More
    <3>2. Together(a) => Together(s)
      BY <1>1, MoreTogether
    <3> QED BY <1>4, <3>1, <3>2
  <2>2. s.xmin \in Nat /\ s.xmin <= t /\ a.xmin = s.xmin
    BY <1>1, <2>1 DEF InX, Shaped, More
  <2>3. s.xmin <= x
    BY <1>0, <2>2
  <2> QED BY <1>0, <1>1, <1>3, <2>1, <2>2, <2>3 DEF InX
<1>5. ASSUME a.y_ascl, NEW r \in Pens, NEW k \in DOMAIN a.pts[r]
      PROVE  a.ymin <= a.pts[r][k][2] /\ a.pts[r][k][2] <= a.ymax
  <2>1. CASE r = p /\ k = Len(a.pts[p]) /\ a.pts[r][k] = << x, y >>
    BY <1>0, <1>2, <2>1
  <2>2. CASE k \in DOMAIN s.pts[r] /\ a.pts[r][k] = s.pts[r][k]
    <3>1. s.ymin <= s.pts[r][k][2] /\ s.pts[r][k][2] <= s.ymax
      BY <1>1, <1>5, <2>2 DEF InY, More
    <3>2. s.pts[r][k][2] \in Int
      BY <1>1, <2>2, PointType DEF Shaped
    <3>3. {s.ymin, s.ymax, a.ymin, a.ymax} \subseteq Int
      BY <1>1, <1>2 DEF Shaped
    <3> QED BY <1>2, <2>2, <3>1, <3>2, <3>3
  <2> QED BY <1>3, <2>1, <2>2
<1> QED BY <1>0, <1>2, <1>3, <1>4, <1>5

\* A line is drawn in the window that there is.
LEMMA DrawnFit ==
  ASSUME NEW s, NEW t \in Nat, Fit(s, t), NEW p \in Pens, NEW x \in Xs, t <= x, NEW y \in Ys,
         NEW a, More(s, a, p, x, y), x - s.xmin < s.xlen, ~ Rescales(s, y)
  PROVE  Fit(Drawn(a, p), x) /\ Drawn(a, p).pts = a.pts
<1> DEFINE d    == Drawn(a, p)
           n    == Len(a.pts[p])
           line == << a.pts[p][IF n < 2 THEN n ELSE n - 1], a.pts[p][n] >>
<1>1. /\ x \in Nat /\ Shaped(a) /\ Ordered(a, x)
      /\ ~ a.acc \/ Together(a) =>
           /\ s.window.xmin = s.xmin /\ s.xmin + s.xlen <= s.window.xmax /\ s.xmin <= x
           /\ (s.acc => s.xmin = 0)
           /\ \A r \in Pens : \A k \in DOMAIN a.pts[r] : a.xmin <= a.pts[r][k][1]
      /\ a.y_ascl => \A r \in Pens : \A k \in DOMAIN a.pts[r] : a.ymin <= a.pts[r][k][2] /\ a.pts[r][k][2] <= a.ymax
  BY MoreKnown
<1>2. /\ a.xmin = s.xmin /\ a.xlen = s.xlen /\ a.xmax = x /\ a.window = s.window /\ a.acc = s.acc
      /\ a.shown = s.shown /\ a.y_ascl = s.y_ascl
  BY DEF More
<1>3. /\ DOMAIN d = Parts /\ d.exists = a.exists /\ d.acc = a.acc /\ d.y_ascl = a.y_ascl
      /\ d.xlen = a.xlen /\ d.xjump = a.xjump /\ d.xmin = a.xmin /\ d.xmax = a.xmax
      /\ d.ymin = a.ymin /\ d.ymax = a.ymax /\ d.pts = a.pts /\ d.nptsmax = a.nptsmax
      /\ d.window = a.window /\ DOMAIN d.shown = Pens
      /\ d.shown[p] = a.shown[p] \cup {line} /\ \A r \in Pens \ {p} : d.shown[r] = a.shown[r]
  BY <1>1 DEF Drawn, Shaped, Parts
<1> HIDE DEF d
<1>4. Shaped(d)
  BY <1>1, <1>3 DEF Shaped
<1>5. Ordered(d, x)
  BY <1>1, <1>3 DEF Ordered
<1>6. InX(d, x)
  <2> SUFFICES ASSUME ~ d.acc \/ Together(d)
               PROVE  /\ d.window.xmin = d.xmin /\ d.xmin + d.xlen <= d.window.xmax /\ d.xmin <= x
                      /\ d.acc => d.xmin = 0
                      /\ \A r \in Pens : \A k \in DOMAIN d.pts[r] :
                           d.window.xmin <= d.pts[r][k][1] /\ d.pts[r][k][1] <= d.window.xmax
    BY DEF InX
  <2>1. ~ a.acc \/ Together(a)
    BY <1>3 DEF Together
  <2>2. s.xmin \in Nat /\ s.xlen \in Nat /\ s.window.xmax \in Int
    BY DEF Fit, Shaped, Window
  <2>3. x <= s.window.xmax
    BY <1>1, <2>1, <2>2
  <2>4. ASSUME NEW r \in Pens, NEW k \in DOMAIN d.pts[r] PROVE d.pts[r][k][1] <= d.window.xmax
    <3>1. d.pts[r][k][1] \in Nat
      BY <1>4, PointType DEF Shaped
    <3>2. d.pts[r][k][1] <= x
      BY <1>5 DEF Ordered
    <3> QED BY <1>1, <1>2, <1>3, <2>2, <2>3, <3>1, <3>2
  <2> QED BY <1>1, <1>2, <1>3, <2>1, <2>4
<1>7. InY(d)
  <2>1. s.y_ascl => a.ymin = s.ymin /\ a.ymax = s.ymax /\ s.window.ymin = s.ymin /\ s.window.ymax = s.ymax
    BY AddedShaped DEF Fit, InY
  <2> QED BY <1>1, <1>2, <1>3, <2>1 DEF InY
<1>8. AllDrawn(d)
  <2> SUFFICES ASSUME NEW r \in Pens PROVE Polyline(d.pts[r]) \subseteq d.shown[r]
    BY DEF AllDrawn
  <2>1. Polyline(s.pts[r]) \subseteq s.shown[r] /\ s.pts[r] \in Seq(Point) /\ << x, y >> \in Point
    BY DEF Fit, AllDrawn, Shaped, Point
  <2>2. CASE r = p
    <3>1. a.pts[p] = Append(s.pts[p], << x, y >>)
      BY DEF More
    <3>2. Polyline(a.pts[p]) \subseteq Polyline(s.pts[p]) \cup {line}
      BY <2>1, <2>2, <3>1, AppendLine
    <3> HIDE DEF line
    <3> QED BY <1>2, <1>3, <2>1, <2>2, <3>2
  <2>3. CASE r # p
    BY <1>2, <1>3, <2>1, <2>3 DEF More
  <2> QED BY <2>2, <2>3
<1> QED BY <1>3, <1>4, <1>5, <1>6, <1>7, <1>8 DEF Fit, d

\* The chart is drawn again with another range of y.
LEMMA RescaledFit ==
  ASSUME NEW s, NEW t \in Nat, Fit(s, t), NEW p \in Pens, NEW x \in Xs, t <= x, NEW y \in Ys,
         NEW a, More(s, a, p, x, y), x - s.xmin < s.xlen
  PROVE  LET u == PlstripGen([a EXCEPT !.xmax = s.xmin + s.xlen]) IN Fit(u, x) /\ u.pts = a.pts
<1> DEFINE b == [a EXCEPT !.xmax = s.xmin + s.xlen]
<1>1. /\ x \in Nat /\ Shaped(a) /\ Ordered(a, x)
      /\ ~ a.acc \/ Together(a) =>
           /\ s.window.xmin = s.xmin /\ s.xmin + s.xlen <= s.window.xmax /\ s.xmin <= x
           /\ (s.acc => s.xmin = 0)
           /\ \A r \in Pens : \A k \in DOMAIN a.pts[r] : a.xmin <= a.pts[r][k][1]
      /\ a.y_ascl => \A r \in Pens : \A k \in DOMAIN a.pts[r] : a.ymin <= a.pts[r][k][2] /\ a.pts[r][k][2] <= a.ymax
  BY MoreKnown
<1>2. /\ a.xmin = s.xmin /\ a.xlen = s.xlen /\ a.acc = s.acc
  BY DEF More
<1>3. s.xmin \in Nat /\ s.xlen \in Nat
  BY DEF Fit, Shaped
<1>4. /\ DOMAIN b = Parts /\ b.exists = a.exists /\ b.acc = a.acc /\ b.y_ascl = a.y_ascl
      /\ b.xlen = a.xlen /\ b.xjump = a.xjump /\ b.xmin = a.xmin /\ b.xmax = s.xmin + s.xlen
      /\ b.ymin = a.ymin /\ b.ymax = a.ymax /\ b.pts = a.pts /\ b.nptsmax = a.nptsmax
      /\ b.window = a.window /\ b.shown = a.shown
  BY <1>1 DEF Shaped, Parts
<1> HIDE DEF b
<1>5. Shaped(b) /\ Ordered(b, x)
  BY <1>1, <1>3, <1>4 DEF Shaped, Ordered
<1>6. \A r \in Pens : \A k \in DOMAIN b.pts[r] : b.pts[r][k][1] <= b.xmax
  <2> SUFFICES ASSUME NEW r \in Pens, NEW k \in DOMAIN b.pts[r] PROVE b.pts[r][k][1] <= b.xmax
    OBVIOUS
  <2>1. b.pts[r][k][1] \in Nat
    BY <1>5, PointType DEF Shaped
  <2>2. b.pts[r][k][1] <= x
    BY <1>5 DEF Ordered
  <2> QED BY <1>1, <1>3, <1>4, <2>1, <2>2
<1>7. ~ b.acc \/ Together(b) =>
        /\ b.xmin + b.xlen <= b.xmax /\ b.xmin <= x /\ (b.acc => b.xmin = 0)
        /\ \A r \in Pens : \A k \in DOMAIN b.pts[r] : b.xmin <= b.pts[r][k][1] /\ b.pts[r][k][1] <= b.xmax
  BY <1>1, <1>2, <1>3, <1>4, <1>6 DEF Together
<1>8. b.y_ascl => \A r \in Pens : \A k \in DOMAIN b.pts[r] : b.ymin <= b.pts[r][k][2] /\ b.pts[r][k][2] <= b.ymax
  BY <1>1, <1>4
<1> QED BY <1>1, <1>4, <1>5, <1>7, <1>8, GenFit DEF b

\* A chart that accumulates grows: it begins where its points do.
LEMMA AccumulatedFit ==
  ASSUME NEW s, NEW t \in Nat, Fit(s, t), NEW p \in Pens, NEW x \in Xs, t <= x, NEW y \in Ys,
         NEW a, More(s, a, p, x, y), s.acc, x - s.xmin >= s.xlen
  PROVE  LET u == PlstripGen(Accumulated(a, p)) IN Fit(u, x) /\ u.pts = a.pts
<1> DEFINE len == a.xlen + Jump(a.xlen, a.xjump)
           b   == Accumulated(a, p)
<1>1. /\ x \in Nat /\ Shaped(a) /\ Ordered(a, x)
      /\ (~ a.acc \/ Together(a)) /\ s.acc => s.xmin = 0
      /\ a.y_ascl => \A r \in Pens : \A k \in DOMAIN a.pts[r] : a.ymin <= a.pts[r][k][2] /\ a.pts[r][k][2] <= a.ymax
  BY MoreKnown
<1>2. /\ a.xmin = s.xmin /\ a.xlen = s.xlen /\ a.acc = s.acc /\ a.xmax = x
  BY DEF More
<1>3. a.xlen \in Nat \ {0} /\ a.xjump \in 1..100
  BY <1>1 DEF Shaped
<1>4. /\ Jump(a.xlen, a.xjump) \in Nat /\ len \in Nat \ {0} /\ Jump(len, a.xjump) \in Nat
      /\ Jump(a.xlen, a.xjump) <= Jump(len, a.xjump)
  <2>1. Jump(a.xlen, a.xjump) \in Nat
    BY <1>3, JumpNat
  <2>2. len \in Nat \ {0} /\ a.xlen <= len
    BY <1>3, <2>1
  <2> HIDE DEF len
  <2> QED BY <1>3, <2>1, <2>2, JumpNat, JumpMonotonic
<1>5. 1 \in DOMAIN a.pts[p] /\ a.pts[p] # << >>
  <2>1. 1 \in DOMAIN a.pts[p]
    BY MoreOrdered DEF Fit
  <2> QED BY <2>1
<1>6. a.pts[p][1][1] \in Nat /\ a.pts[p][1][1] <= x
  <2>1. a.pts[p][1] \in Point
    BY <1>1, <1>5 DEF Shaped
  <2> QED BY <1>1, <1>5, <2>1, PointType DEF Ordered
<1>7. /\ DOMAIN b = Parts /\ b.exists = a.exists /\ b.acc = a.acc /\ b.y_ascl = a.y_ascl
      /\ b.xlen = len /\ b.xjump = a.xjump /\ b.xmin = a.pts[p][1][1] /\ b.xmax = x + Jump(len, a.xjump)
      /\ b.ymin = a.ymin /\ b.ymax = a.ymax /\ b.pts = a.pts /\ b.nptsmax = a.nptsmax
      /\ b.window = a.window /\ b.shown = a.shown
  BY <1>1, <1>2 DEF Shaped, Parts, Accumulated
<1> HIDE DEF b, len
<1>8. Shaped(b) /\ Ordered(b, x)
  BY <1>1, <1>4, <1>6, <1>7 DEF Shaped, Ordered
<1>9. ASSUME ~ b.acc \/ Together(b)
      PROVE  /\ b.xmin + b.xlen <= b.xmax /\ b.xmin <= x /\ (b.acc => b.xmin = 0)
             /\ \A r \in Pens : \A k \in DOMAIN b.pts[r] : b.xmin <= b.pts[r][k][1] /\ b.pts[r][k][1] <= b.xmax
  <2>1. Together(a)
    BY <1>2, <1>7, <1>9 DEF Together
  <2>2. b.xmin = 0 /\ s.xmin = 0
    BY <1>1, <1>5, <1>7, <2>1 DEF Together
  <2>3. x >= a.xlen
    BY <1>1, <1>2, <1>3, <2>2
  <2>4. len <= x + Jump(len, a.xjump)
    BY <1>1, <1>3, <1>4, <2>3 DEF len
  <2>5. ASSUME NEW r \in Pens, NEW k \in DOMAIN b.pts[r] PROVE b.xmin <= b.pts[r][k][1] /\ b.pts[r][k][1] <= b.xmax
    <3>1. b.pts[r][k][1] \in Nat
      BY <1>8, PointType DEF Shaped
    <3>2. b.pts[r][k][1] <= x
      BY <1>8 DEF Ordered
    <3> QED BY <1>1, <1>4, <1>7, <2>2, <3>1, <3>2
  <2> QED BY <1>1, <1>4, <1>7, <2>2, <2>4, <2>5
<1>10. b.y_ascl => \A r \in Pens : \A k \in DOMAIN b.pts[r] : b.ymin <= b.pts[r][k][2] /\ b.pts[r][k][2] <= b.ymax
  BY <1>1, <1>7
<1> QED BY <1>1, <1>7, <1>8, <1>9, <1>10, GenFit DEF b

\* The end of a sequence, from its place c + 1.
LEMMA EndOf ==
  ASSUME NEW w \in Seq(Point), NEW i \in 1..Len(w)
  PROVE  LET e == SubSeq(w, i, Len(w))
         IN  /\ e \in Seq(Point) /\ Len(e) = Len(w) - (i - 1)
             /\ \A k \in 1..Len(w) - (i - 1) : e[k] = w[(i - 1) + k]
<1>1. Len(w) \in Nat /\ i \in Nat /\ i >= 1 /\ i <= Len(w) /\ Len(w) + 1 - i = Len(w) - (i - 1)
  OBVIOUS
<1>2. \A k \in i..Len(w) : w[k] \in Point
  BY <1>1
<1> QED BY <1>1, <1>2

\* e has the points of w from the place c + 1: those from the time x0.
Cut(w, e, c, x0) ==
  /\ c \in 0..Len(w) /\ (w # << >> => c < Len(w))
  /\ e \in Seq(Point) /\ Len(e) = Len(w) - c /\ \A k \in 1..Len(w) - c : e[k] = w[c + k]
  /\ \A l \in 1..c : w[l][1] < x0
  /\ \A l \in c + 1..Len(w) : w[l][1] >= x0

\* The search finds, for each pen, the first point that is late enough.
LEMMA SlidCuts ==
  ASSUME NEW a, NEW x \in Nat, Shaped(a), Ordered(a, x), ~ a.acc, ~ Overruns(a), NEW r \in Pens
  PROVE  \E c \in Nat : Cut(a.pts[r], Slid(a).pts[r], c, From(a))
<1> DEFINE w == a.pts[r]
           e == IF w = << >> THEN << >> ELSE SubSeq(w, Istart(a, r), Len(w))
<1>1. Slid(a).pts[r] = e
  BY DEF Slid, Shaped, Parts
<1>2. w \in Seq(Point) /\ Len(w) \in Nat
  BY DEF Shaped
<1>3. From(a) \in Nat
  <2>1. a.xlen \in Nat /\ a.xjump \in 1..100 /\ a.xmin \in Nat
    BY DEF Shaped
  <2>2. Jump(a.xlen, a.xjump) \in Nat
    BY <2>1, JumpNat
  <2> QED BY <2>1, <2>2 DEF From
<1>4. CASE w = << >>
  BY <1>1, <1>2, <1>4 DEF Cut
<1>5. CASE w # << >>
  <2>1. Late(a, r) # {} /\ Late(a, r) \subseteq Nat /\ Late(a, r) \subseteq 1..Len(w)
    BY <1>2, <1>5 DEF Overruns, Late
  <2> DEFINE i == Istart(a, r)
  <2>2. i \in Late(a, r) /\ \A l \in Late(a, r) : i <= l
    BY <2>1, FirstOf DEF Istart
  <2> HIDE DEF i
  <2>3. i \in 1..Len(w) /\ w[i][1] >= From(a)
    BY <2>2 DEF Late
  <2>4. i - 1 \in 0..Len(w) /\ i - 1 < Len(w) /\ i - 1 \in Nat
    BY <1>2, <2>3
  <2>5. \A k \in 1..Len(w) : w[k][1] \in Nat
    BY <1>2, PointType
  <2>6. ASSUME NEW l \in 1..i - 1 PROVE w[l][1] < From(a)
    <3>1. l \in 1..Len(w) /\ l < i
      BY <1>2, <2>3
    <3>2. ~ (w[l][1] >= From(a))
      BY <1>2, <2>2, <2>3, <3>1 DEF Late
    <3>3. w[l][1] \in Nat
      BY <2>5, <3>1
    <3> HIDE DEF w
    <3> QED BY <1>3, <3>2, <3>3
  <2>7. ASSUME NEW l \in (i - 1) + 1..Len(w) PROVE w[l][1] >= From(a)
    <3>1. l \in DOMAIN w /\ i \in DOMAIN w /\ i <= l
      BY <1>2, <2>3
    <3>2. w[i][1] <= w[l][1]
      BY <3>1 DEF Ordered
    <3>3. w[i][1] \in Nat /\ w[l][1] \in Nat
      BY <1>2, <2>5, <3>1
    <3> HIDE DEF w
    <3> QED BY <1>3, <2>3, <3>2, <3>3
  <2>8. /\ e \in Seq(Point) /\ Len(e) = Len(w) - (i - 1)
        /\ \A k \in 1..Len(w) - (i - 1) : e[k] = w[(i - 1) + k]
    BY <1>2, <1>5, <2>3, EndOf DEF i
  <2> HIDE DEF e
  <2>9. Cut(w, e, i - 1, From(a))
    BY <2>4, <2>6, <2>7, <2>8 DEF Cut
  <2> QED BY <1>1, <2>4, <2>9
<1> QED BY <1>4, <1>5

\* A chart that slides keeps the points from where its window begins.
LEMMA SlidFit ==
  ASSUME NEW s, NEW t \in Nat, Fit(s, t), NEW p \in Pens, NEW x \in Xs, t <= x, NEW y \in Ys,
         NEW a, More(s, a, p, x, y), ~ s.acc, x - s.xmin >= s.xlen, ~ Overruns(a)
  PROVE  LET u == PlstripGen(Slid(a))
         IN  Fit(u, x) /\ \A r \in Pens : Behind(s, u, r)
<1> DEFINE b == Slid(a)
           j == Jump(a.xlen, a.xjump)
<1>1. /\ x \in Nat /\ Shaped(a) /\ Ordered(a, x)
      /\ a.y_ascl => \A r \in Pens : \A k \in DOMAIN a.pts[r] : a.ymin <= a.pts[r][k][2] /\ a.pts[r][k][2] <= a.ymax
  BY MoreKnown
<1>2. /\ a.xmin = s.xmin /\ a.xlen = s.xlen /\ a.acc = s.acc /\ a.xmax = x
  BY DEF More
<1>3. a.xlen \in Nat \ {0} /\ a.xjump \in 1..100 /\ a.xmin \in Nat
  BY <1>1 DEF Shaped
<1>4. j \in Nat /\ j <= a.xlen /\ From(a) = a.xmin + j
  BY <1>3, JumpNat DEF From
<1>5. /\ DOMAIN b = Parts /\ b.exists = a.exists /\ b.acc = a.acc /\ b.y_ascl = a.y_ascl
      /\ b.xlen = a.xlen /\ b.xjump = a.xjump /\ b.xmin = From(a) /\ b.xmax = x + j
      /\ b.ymin = a.ymin /\ b.ymax = a.ymax /\ DOMAIN b.pts = Pens /\ b.nptsmax = a.nptsmax
      /\ b.window = a.window /\ b.shown = a.shown
  BY <1>1, <1>2 DEF Shaped, Parts, Slid
<1>6. \A r \in Pens : \E c \in Nat : Cut(a.pts[r], b.pts[r], c, From(a))
  BY <1>1, <1>2, SlidCuts
<1> HIDE DEF b, j
<1>7. \A r \in Pens : \A k, l \in DOMAIN b.pts[r] : k <= l =>
        \E m, n \in DOMAIN a.pts[r] : m <= n /\ b.pts[r][k] = a.pts[r][m] /\ b.pts[r][l] = a.pts[r][n]
                                      /\ a.pts[r][m][1] >= From(a)
  <2> SUFFICES ASSUME NEW r \in Pens, NEW k \in DOMAIN b.pts[r], NEW l \in DOMAIN b.pts[r], k <= l
               PROVE  \E m, n \in DOMAIN a.pts[r] : m <= n /\ b.pts[r][k] = a.pts[r][m] /\ b.pts[r][l] = a.pts[r][n]
                                      /\ a.pts[r][m][1] >= From(a)
    OBVIOUS
  <2>1. PICK c \in Nat : Cut(a.pts[r], b.pts[r], c, From(a))
    BY <1>6
  <2>2. a.pts[r] \in Seq(Point) /\ Len(a.pts[r]) \in Nat /\ DOMAIN a.pts[r] = 1..Len(a.pts[r])
    BY <1>1 DEF Shaped
  <2>3. k \in 1..Len(a.pts[r]) - c /\ l \in 1..Len(a.pts[r]) - c
    <3>1. b.pts[r] \in Seq(Point) /\ Len(b.pts[r]) = Len(a.pts[r]) - c
      BY <2>1 DEF Cut
    <3>2. DOMAIN b.pts[r] = 1..Len(b.pts[r])
      BY <3>1
    <3> QED BY <3>1, <3>2
  <2>4. c + k \in DOMAIN a.pts[r] /\ c + l \in DOMAIN a.pts[r] /\ c + k <= c + l /\ c + k \in c + 1..Len(a.pts[r])
    BY <2>2, <2>3
  <2>5. b.pts[r][k] = a.pts[r][c + k] /\ b.pts[r][l] = a.pts[r][c + l] /\ a.pts[r][c + k][1] >= From(a)
    BY <2>1, <2>3, <2>4 DEF Cut
  <2> QED BY <2>4, <2>5
<1>8. Ordered(b, x)
  <2>1. ASSUME NEW r \in Pens, NEW k \in DOMAIN b.pts[r], NEW l \in DOMAIN b.pts[r], k <= l
        PROVE  b.pts[r][k][1] <= b.pts[r][l][1]
    BY <1>1, <1>7, <2>1 DEF Ordered
  <2>2. ASSUME NEW r \in Pens, NEW k \in DOMAIN b.pts[r] PROVE b.pts[r][k][1] <= x
    <3>1. b.pts[r] \in Seq(Point) /\ k \in Nat
      BY <1>6 DEF Cut
    <3>2. k <= k
      BY <3>1
    <3> QED BY <1>1, <1>7, <3>2 DEF Ordered
  <2> QED BY <2>1, <2>2 DEF Ordered
<1>9. Shaped(b)
  <2>1. ASSUME NEW r \in Pens
        PROVE  b.pts[r] \in Seq(Point) /\ b.nptsmax[r] \in Nat /\ Len(b.pts[r]) <= b.nptsmax[r]
    <3>1. PICK c \in Nat : Cut(a.pts[r], b.pts[r], c, From(a))
      BY <1>6
    <3>2. a.pts[r] \in Seq(Point) /\ Len(a.pts[r]) \in Nat /\ a.nptsmax[r] \in Nat /\ Len(a.pts[r]) <= a.nptsmax[r]
      BY <1>1 DEF Shaped
    <3>3. b.pts[r] \in Seq(Point) /\ Len(b.pts[r]) = Len(a.pts[r]) - c /\ b.nptsmax[r] = a.nptsmax[r]
      BY <1>5, <3>1 DEF Cut
    <3> QED BY <3>2, <3>3
  <2>2. b.xmin \in Nat /\ b.xmax \in Nat
    BY <1>1, <1>3, <1>4, <1>5
  <2> QED BY <1>1, <1>5, <2>1, <2>2 DEF Shaped
<1>10. /\ b.xmin + b.xlen <= b.xmax /\ b.xmin <= x /\ ~ b.acc
  BY <1>1, <1>2, <1>3, <1>4, <1>5
<1>11. ASSUME NEW r \in Pens, NEW k \in DOMAIN b.pts[r]
       PROVE  /\ b.xmin <= b.pts[r][k][1] /\ b.pts[r][k][1] <= b.xmax
              /\ b.y_ascl => b.ymin <= b.pts[r][k][2] /\ b.pts[r][k][2] <= b.ymax
  <2>1. b.pts[r][k] \in Point /\ k \in Nat
    BY <1>9 DEF Shaped
  <2>2. k <= k
    BY <2>1
  <2>3. PICK m \in DOMAIN a.pts[r] : b.pts[r][k] = a.pts[r][m] /\ a.pts[r][m][1] >= From(a)
    BY <1>7, <2>2
  <2>4. b.pts[r][k][1] \in Nat /\ b.pts[r][k][1] <= x
    BY <1>8, <2>1, PointType DEF Ordered
  <2>5. b.xmin <= b.pts[r][k][1]
    BY <1>3, <1>4, <1>5, <2>3, <2>4
  <2>6. b.pts[r][k][1] <= b.xmax
    BY <1>1, <1>4, <1>5, <2>4
  <2>7. b.y_ascl => b.ymin <= b.pts[r][k][2] /\ b.pts[r][k][2] <= b.ymax
    BY <1>1, <1>5, <2>3
  <2> QED BY <2>5, <2>6, <2>7
<1> DEFINE u == PlstripGen(b)
<1>12. Fit(u, x) /\ u.pts = b.pts /\ u.xmin = b.xmin
  BY <1>1, <1>8, <1>9, <1>10, <1>11, GenFit
<1> HIDE DEF u
<1>13. ASSUME NEW r \in Pens PROVE Behind(s, u, r)
  <2>1. PICK c \in Nat : Cut(a.pts[r], b.pts[r], c, From(a))
    BY <1>6
  <2>2. /\ s.pts[r] \in Seq(Point) /\ Len(s.pts[r]) \in Nat /\ DOMAIN s.pts[r] = 1..Len(s.pts[r])
        /\ a.pts[r] \in Seq(Point)
    BY <1>1 DEF Fit, Shaped
  <2>3. PICK q \in 0..1 : Len(a.pts[r]) = Len(s.pts[r]) + q /\ (q = 1 => a.pts[r] # << >>)
    <3>1. CASE r = p
      <4>1. Len(a.pts[r]) = Len(s.pts[r]) + 1 /\ 1 \in DOMAIN a.pts[r]
        BY <2>2, <3>1, AppendPoint, MoreOrdered DEF More, Fit, Point
      <4>2. a.pts[r] # << >>
        BY <4>1
      <4> QED BY <4>1, <4>2
    <3>2. CASE r # p
      <4>1. Len(a.pts[r]) = Len(s.pts[r]) + 0
        BY <2>2, <3>2 DEF More
      <4> QED BY <4>1
    <3> QED BY <3>1, <3>2
  <2>4. c \in 0..Len(s.pts[r])
    BY <2>1, <2>2, <2>3 DEF Cut
  <2>5. \A k \in DOMAIN s.pts[r] : k \in DOMAIN a.pts[r] /\ a.pts[r][k] = s.pts[r][k]
    BY MoreOrdered DEF Fit
  <2>6. \A l \in 1..c : s.pts[r][l][1] < u.xmin
    <3> SUFFICES ASSUME NEW l \in 1..c PROVE s.pts[r][l][1] < u.xmin
      OBVIOUS
    <3>1. l \in DOMAIN s.pts[r]
      BY <2>2, <2>4
    <3> QED BY <1>5, <1>12, <2>1, <2>5, <3>1 DEF Cut
  <2>7. Len(u.pts[r]) = Len(s.pts[r]) - c + q
    BY <1>12, <2>1, <2>2, <2>3, <2>4 DEF Cut
  <2>8. \A l \in c + 1..Len(s.pts[r]) : u.pts[r][l - c] = s.pts[r][l]
    <3> SUFFICES ASSUME NEW l \in c + 1..Len(s.pts[r]) PROVE u.pts[r][l - c] = s.pts[r][l]
      OBVIOUS
    <3>1. l \in DOMAIN s.pts[r] /\ l - c \in 1..Len(a.pts[r]) - c /\ c + (l - c) = l
      BY <2>2, <2>3, <2>4
    <3>2. b.pts[r][l - c] = a.pts[r][c + (l - c)]
      BY <2>1, <3>1 DEF Cut
    <3> QED BY <1>12, <2>5, <3>1, <3>2
  <2> QED BY <2>4, <2>6, <2>7, <2>8 DEF Behind
<1> QED BY <1>12, <1>13 DEF b, u

\* plstripa, whichever way it takes.
LEMMA StripaFit ==
  ASSUME NEW s, NEW t \in Nat, Fit(s, t), NEW p \in Pens, NEW x \in Xs, t <= x, NEW y \in Ys,
         x - s.xmin >= s.xlen => ~ Overruns(Added(s, p, x, y))
  PROVE  Fit(Stripa(s, p, x, y), x) /\ \A r \in Pens : Behind(s, Stripa(s, p, x, y), r)
<1> DEFINE a == Added(s, p, x, y)
<1>1. More(s, a, p, x, y)
  BY AddedMore DEF Fit
<1>2. s.xlen \in Nat /\ s.xmin \in Nat /\ x \in Nat
  BY StripAssumption DEF Fit, Shaped
<1> SUFFICES ASSUME NEW g, g = Stripa(s, p, x, y)
             PROVE  Fit(g, x) /\ \A r \in Pens : Behind(s, g, r)
  OBVIOUS
<1> HIDE DEF a
<1>3. CASE x - s.xmin >= s.xlen
  <2>1. g = PlstripGen(IF s.acc THEN Accumulated(a, p) ELSE Slid(a))
    BY <1>3 DEF Stripa, a
  <2>2. CASE s.acc
    <3>1. g = PlstripGen(Accumulated(a, p))
      BY <2>1, <2>2
    <3>2. Fit(g, x) /\ g.pts = a.pts
      BY <1>1, <1>3, <2>2, <3>1, AccumulatedFit
    <3> QED BY <1>1, <3>2, MoreBehind DEF Fit
  <2>3. CASE ~ s.acc
    <3>1. g = PlstripGen(Slid(a)) /\ ~ Overruns(a)
      BY <1>3, <2>1, <2>3 DEF a
    <3> QED BY <1>1, <1>3, <2>3, <3>1, SlidFit
  <2> QED BY <2>2, <2>3
<1>4. CASE ~ (x - s.xmin >= s.xlen) /\ Rescales(s, y)
  <2>1. g = PlstripGen([a EXCEPT !.xmax = s.xmin + s.xlen])
    BY <1>4 DEF Stripa, a
  <2>2. x - s.xmin < s.xlen
    BY <1>2, <1>4
  <2>3. Fit(g, x) /\ g.pts = a.pts
    BY <1>1, <2>1, <2>2, RescaledFit
  <2> QED BY <1>1, <2>3, MoreBehind DEF Fit
<1>5. CASE ~ (x - s.xmin >= s.xlen) /\ ~ Rescales(s, y)
  <2>1. g = Drawn(a, p)
    BY <1>5 DEF Stripa, a
  <2>2. x - s.xmin < s.xlen
    BY <1>2, <1>5
  <2>3. Fit(g, x) /\ g.pts = a.pts
    BY <1>1, <1>5, <2>1, <2>2, DrawnFit
  <2> QED BY <1>1, <2>3, MoreBehind DEF Fit
<1> QED BY <1>3, <1>4, <1>5

\* The other charts stay as they are while time goes on.
LEMMA FitLater ==
  ASSUME NEW s, NEW t \in Nat, Fit(s, t), NEW x \in Nat, t <= x
  PROVE  Fit(s, x)
<1>1. Ordered(s, x)
  <2>1. ASSUME NEW p \in Pens, NEW k \in DOMAIN s.pts[p] PROVE s.pts[p][k][1] <= x
    <3>1. s.pts[p][k] \in Point
      BY DEF Fit, Shaped
    <3>2. s.pts[p][k][1] \in Nat /\ s.pts[p][k][1] <= t
      BY <3>1, PointType DEF Fit, Ordered
    <3> QED BY <3>2
  <2> QED BY <2>1 DEF Fit, Ordered
<1>2. InX(s, x)
  <2>1. s.xmin \in Nat
    BY DEF Fit, Shaped
  <2>2. s.xmin <= t => s.xmin <= x
    BY <2>1
  <2> QED BY <2>2 DEF Fit, InX
<1> QED BY <1>1, <1>2 DEF Fit

\* The points of a chart that stays as it is.
LEMMA SameBehind ==
  ASSUME NEW s, Shaped(s), NEW p \in Pens
  PROVE  Behind(s, s, p)
<1>1. Len(s.pts[p]) \in Nat
  BY DEF Shaped
<1>2. 0 \in 0..Len(s.pts[p]) /\ \A l \in 1..0 : s.pts[p][l][1] < s.xmin
  BY <1>1
<1>3. \E q \in 0..1 : Len(s.pts[p]) = Len(s.pts[p]) - 0 + q
  <2>1. Len(s.pts[p]) = Len(s.pts[p]) - 0 + 0
    BY <1>1
  <2> QED BY <2>1
<1>4. \A l \in 0 + 1..Len(s.pts[p]) : s.pts[p][l - 0] = s.pts[p][l]
  BY <1>1
<1> QED BY <1>2, <1>3, <1>4 DEF Behind

\* A chart that plstripc makes has no points yet.
LEMMA NewStripFit ==
  ASSUME NEW k \in Kinds, NEW t \in Nat
  PROVE  Fit(NewStrip(k), t)
<1> DEFINE s == [exists |-> TRUE, acc |-> k.acc, y_ascl |-> k.y_ascl, xlen |-> k.xlen, xjump |-> k.xjump,
                 xmin |-> 0, xmax |-> k.xlen, ymin |-> 0, ymax |-> YTop,
                 pts |-> [p \in Pens |-> << >>], nptsmax |-> [p \in Pens |-> NPtsMax],
                 window |-> [xmin |-> 0, xmax |-> 0, ymin |-> 0, ymax |-> 0], shown |-> [p \in Pens |-> {}]]
<1>1. /\ {k.acc, k.y_ascl} \subseteq BOOLEAN /\ k.xlen \in Nat \ {0} /\ k.xjump \in 1..100
      /\ NPtsMax \in Nat \ {0} /\ YTop \in Nat \ {0}
  BY StripAssumption
<1>2. \A p \in Pens : s.pts[p] = << >> /\ s.nptsmax[p] = NPtsMax
  OBVIOUS
<1>3. /\ DOMAIN s = Parts /\ s.exists = TRUE /\ s.acc = k.acc /\ s.y_ascl = k.y_ascl
      /\ s.xlen = k.xlen /\ s.xjump = k.xjump /\ s.xmin = 0 /\ s.xmax = k.xlen
      /\ s.ymin = 0 /\ s.ymax = YTop /\ DOMAIN s.pts = Pens /\ DOMAIN s.nptsmax = Pens
      /\ DOMAIN s.shown = Pens /\ s.window \in Window
  BY DEF Parts, Window
<1>4. NewStrip(k) = PlstripGen(s)
  BY DEF NewStrip
<1> HIDE DEF s
<1>5. Shaped(s)
  <2>1. << >> \in Seq(Point) /\ Len(<< >>) = 0
    OBVIOUS
  <2>2. \A p \in Pens : s.pts[p] \in Seq(Point) /\ s.nptsmax[p] \in Nat /\ Len(s.pts[p]) <= s.nptsmax[p]
    <3> SUFFICES ASSUME NEW p \in Pens
                 PROVE  s.pts[p] \in Seq(Point) /\ s.nptsmax[p] \in Nat /\ Len(s.pts[p]) <= s.nptsmax[p]
      OBVIOUS
    <3>1. NPtsMax \in Nat /\ 0 <= NPtsMax
      BY <1>1
    <3>2. s.pts[p] = << >> /\ s.nptsmax[p] = NPtsMax
      BY <1>2
    <3>3. Len(s.pts[p]) = 0
      BY <2>1, <3>2
    <3> QED BY <2>1, <3>1, <3>2, <3>3
  <2>3. s.xmin \in Nat /\ s.xmax \in Nat /\ {s.ymin, s.ymax} \subseteq Int /\ s.ymin <= s.ymax
    BY <1>1, <1>3
  <2> QED BY <1>1, <1>3, <2>2, <2>3 DEF Shaped
<1>6. \A p \in Pens : DOMAIN s.pts[p] = {}
  BY <1>2
<1>7. Ordered(s, t)
  BY <1>6 DEF Ordered
<1>8. s.xmin + s.xlen <= s.xmax /\ s.xmin <= t /\ s.xmin = 0
  BY <1>1, <1>3
<1> QED BY <1>4, <1>5, <1>6, <1>7, <1>8, GenFit
-----------------------------------------------------------------------------
(* The specification.                                                      *)

\* Every chart fits its points.
IInv ==
  /\ time \in Xs \cup {0} /\ points \in 0..MaxPoints /\ overrun \in BOOLEAN
  /\ DOMAIN strip = Ids
  /\ \A i \in Ids : strip[i] = None \/ Fit(strip[i], time)

\* The time of the last point is a natural number.
LEMMA TimeNat == ASSUME time \in Xs \cup {0} PROVE time \in Nat
BY StripAssumption

\* A chart that exists is one that fits.
LEMMA Exists ==
  ASSUME NEW s, s = None \/ Fit(s, time)
  PROVE  s.exists <=> s # None
BY DEF None, Fit, Shaped

\* At first there is no chart.
LEMMA Initially == Init => IInv
<1> SUFFICES ASSUME Init PROVE IInv
  OBVIOUS
<1>1. 0 \in 0..MaxPoints
  BY StripAssumption
<1> QED BY <1>1 DEF Init, IInv

\* One step keeps every chart fit, and the points that have to be kept.
LEMMA Steps ==
  ASSUME IInv, [Next]_vars
  PROVE  /\ IInv'
         /\ \A i \in Charts : strip'[i].exists => \A p \in Pens : Behind(strip[i], strip'[i], p)
<1> USE DEF IInv
<1>1. time \in Nat
  BY TimeNat
<1>2. \A i \in Charts : i \in Ids /\ Fit(strip[i], time) /\ Shaped(strip[i])
  BY Exists DEF Charts, None, Fit
<1>3. CASE Plstripc
  <2>1. PICK k \in Kinds :
          LET free == {i \in Ids : ~ strip[i].exists}
          IN  \/ UNCHANGED strip
              \/ /\ free # {}
                 /\ strip' = [strip EXCEPT ![CHOOSE i \in free : \A j \in free : i <= j] = NewStrip(k)]
    BY <1>3 DEF Plstripc
  <2>2. UNCHANGED << time, points, overrun >>
    BY <1>3 DEF Plstripc
  <2> DEFINE free == {i \in Ids : ~ strip[i].exists}
             n    == CHOOSE i \in free : \A j \in free : i <= j
  <2>3. CASE strip' = strip
    BY <1>2, <2>2, <2>3, SameBehind
  <2>4. CASE strip' # strip
    <3>1. free \subseteq Nat /\ free # {}
      BY <2>1, <2>4, StripAssumption DEF Ids
    <3>2. n \in free
      BY <3>1, FirstOf
    <3>3. strip' = [strip EXCEPT ![n] = NewStrip(k)]
      BY <2>1, <2>4
    <3>4. n \in Ids /\ n \notin Charts
      BY <3>2 DEF Charts
    <3> HIDE DEF n, free
    <3>5. DOMAIN strip' = Ids /\ strip'[n] = NewStrip(k) /\ \A i \in Ids \ {n} : strip'[i] = strip[i]
      BY <3>3, <3>4
    <3>6. Fit(strip'[n], time)
      BY <1>1, <3>5, NewStripFit
    <3>7. IInv'
      BY <2>2, <3>5, <3>6
    <3>8. \A i \in Charts : i \in Ids \ {n}
      BY <1>2, <3>4
    <3> QED BY <1>2, <3>5, <3>7, <3>8, SameBehind
  <2> QED BY <2>3, <2>4
<1>4. CASE Plstripa
  <2>1. PICK i \in Ids, p \in Pens, x \in Xs, y \in Ys :
          /\ points < MaxPoints /\ strip[i].exists /\ x >= time /\ points' = points + 1 /\ time' = x
          /\ IF x - strip[i].xmin >= strip[i].xlen /\ Overruns(Added(strip[i], p, x, y))
             THEN overrun' = TRUE /\ UNCHANGED strip
             ELSE strip' = [strip EXCEPT ![i] = Stripa(@, p, x, y)] /\ UNCHANGED overrun
    BY <1>4 DEF Plstripa
  <2>2. x \in Nat /\ time <= x /\ time' \in Xs \cup {0} /\ points' \in 0..MaxPoints /\ overrun' \in BOOLEAN
    <3>1. x \in Nat /\ MaxPoints \in Nat
      BY StripAssumption
    <3>2. points' \in 0..MaxPoints
      BY <2>1, <3>1
    <3> QED BY <1>1, <2>1, <3>1, <3>2
  <2>3. \A j \in Ids : strip[j] = None \/ Fit(strip[j], x)
    BY <1>1, <2>2, FitLater
  <2>4. CASE x - strip[i].xmin >= strip[i].xlen /\ Overruns(Added(strip[i], p, x, y))
    <3>1. strip' = strip
      BY <2>1, <2>4
    <3> QED BY <1>2, <2>1, <2>2, <2>3, <3>1, SameBehind
  <2>5. CASE ~ (x - strip[i].xmin >= strip[i].xlen /\ Overruns(Added(strip[i], p, x, y)))
    <3>1. strip' = [strip EXCEPT ![i] = Stripa(strip[i], p, x, y)]
      BY <2>1, <2>5
    <3>2. Fit(strip[i], time)
      BY <2>1, Exists DEF None
    <3>3. Fit(Stripa(strip[i], p, x, y), x) /\ \A r \in Pens : Behind(strip[i], Stripa(strip[i], p, x, y), r)
      BY <1>1, <2>2, <2>5, <3>2, StripaFit
    <3>4. DOMAIN strip' = Ids /\ strip'[i] = Stripa(strip[i], p, x, y) /\ \A j \in Ids \ {i} : strip'[j] = strip[j]
      BY <3>1
    <3>5. IInv'
      BY <2>1, <2>2, <2>3, <3>3, <3>4
    <3>6. ASSUME NEW j \in Charts, NEW r \in Pens PROVE Behind(strip[j], strip'[j], r)
      <4>1. CASE j = i
        BY <3>3, <3>4, <4>1
      <4>2. CASE j # i
        BY <1>2, <3>4, <4>2, SameBehind
      <4> QED BY <4>1, <4>2
    <3> QED BY <3>5, <3>6
  <2> QED BY <2>4, <2>5
<1>5. CASE PlstripaNoMemory
  <2>1. PICK i \in Ids, p \in Pens, x \in Xs :
          points < MaxPoints /\ x >= time /\ points' = points + 1 /\ time' = x /\ strip' = [strip EXCEPT ![i] = None]
    BY <1>5 DEF PlstripaNoMemory
  <2>2. overrun' = overrun
    BY <1>5 DEF PlstripaNoMemory
  <2>3. x \in Nat /\ time <= x /\ MaxPoints \in Nat
    BY <1>1, <2>1, StripAssumption
  <2>4. points' \in 0..MaxPoints
    BY <2>1, <2>3
  <2>5. DOMAIN strip' = Ids /\ strip'[i] = None /\ \A j \in Ids \ {i} : strip'[j] = strip[j]
    BY <2>1
  <2>6. \A j \in Ids : strip[j] = None \/ Fit(strip[j], x)
    BY <1>1, <2>3, FitLater
  <2>7. IInv'
    BY <2>1, <2>2, <2>4, <2>5, <2>6
  <2>8. ASSUME NEW j \in Charts, strip'[j].exists, NEW r \in Pens PROVE Behind(strip[j], strip'[j], r)
    BY <1>2, <2>5, <2>8, SameBehind DEF None
  <2> QED BY <2>7, <2>8
<1>6. CASE Plstripd
  <2>1. PICK i \in Ids : strip' = [strip EXCEPT ![i] = None]
    BY <1>6 DEF Plstripd
  <2>2. UNCHANGED << time, points, overrun >>
    BY <1>6 DEF Plstripd
  <2>3. DOMAIN strip' = Ids /\ strip'[i] = None /\ \A j \in Ids \ {i} : strip'[j] = strip[j]
    BY <2>1
  <2>4. IInv'
    BY <2>2, <2>3
  <2>5. ASSUME NEW j \in Charts, strip'[j].exists, NEW r \in Pens PROVE Behind(strip[j], strip'[j], r)
    BY <1>2, <2>3, <2>5, SameBehind DEF None
  <2> QED BY <2>4, <2>5
<1>7. CASE UNCHANGED vars
  BY <1>2, <1>7, SameBehind DEF vars
<1> QED BY <1>3, <1>4, <1>5, <1>6, <1>7 DEF Next

\* Every chart of every reachable state fits its points.
THEOREM StripInvariant == Spec => []IInv
BY Initially, Steps, PTL DEF Spec

\* plstripa never writes behind the room of a pen: it grows before the point
\* is stored.
THEOREM TypeHolds == Spec => []TypeOK
<1>1. IInv => TypeOK
  <2> SUFFICES ASSUME IInv, NEW i \in Charts, NEW p \in Pens
               PROVE  /\ strip[i].pts[p] \in Seq(Point) /\ Len(strip[i].pts[p]) <= strip[i].nptsmax[p]
                      /\ {strip[i].xmin, strip[i].xmax, strip[i].ymin, strip[i].ymax} \subseteq Int
    BY DEF TypeOK, IInv
  <2>1. Shaped(strip[i])
    BY Exists DEF IInv, Charts, None, Fit
  <2> QED BY <2>1 DEF Shaped
<1> QED BY <1>1, StripInvariant, PTL

\* Every point that plstripa keeps is in the window, and every line of it drawn.
THEOREM PointsShownHolds == Spec => []PointsShown
<1>1. IInv => PointsShown
  <2> SUFFICES ASSUME IInv, NEW i \in Charts, NEW p \in Pens
               PROVE  /\ Polyline(strip[i].pts[p]) \subseteq strip[i].shown[p]
                      /\ \A k \in DOMAIN strip[i].pts[p] :
                           /\ ~ strip[i].acc \/ Together(strip[i]) =>
                                strip[i].pts[p][k][1] \in strip[i].window.xmin..strip[i].window.xmax
                           /\ strip[i].y_ascl => strip[i].pts[p][k][2] \in strip[i].window.ymin..strip[i].window.ymax
    BY DEF PointsShown
  <2> DEFINE s == strip[i]
  <2>1. Fit(s, time)
    BY Exists DEF IInv, Charts, None
  <2> HIDE DEF s
  <2>2. s.window \in Window /\ s.pts[p] \in Seq(Point)
    BY <2>1 DEF Fit, Shaped
  <2>3. {s.window.xmin, s.window.xmax, s.window.ymin, s.window.ymax} \subseteq Int
    BY <2>2 DEF Window
  <2>4. ASSUME NEW k \in DOMAIN s.pts[p]
        PROVE  /\ ~ s.acc \/ Together(s) => s.pts[p][k][1] \in s.window.xmin..s.window.xmax
               /\ s.y_ascl => s.pts[p][k][2] \in s.window.ymin..s.window.ymax
    <3>1. s.pts[p][k][1] \in Int /\ s.pts[p][k][2] \in Int
      BY <2>2, PointType
    <3>2. ~ s.acc \/ Together(s) => s.window.xmin <= s.pts[p][k][1] /\ s.pts[p][k][1] <= s.window.xmax
      BY <2>1 DEF Fit, InX
    <3>3. s.y_ascl => s.window.ymin <= s.pts[p][k][2] /\ s.pts[p][k][2] <= s.window.ymax
      BY <2>1 DEF Fit, InY
    <3> QED BY <2>3, <3>1, <3>2, <3>3
  <2>5. Polyline(s.pts[p]) \subseteq s.shown[p]
    BY <2>1 DEF Fit, AllDrawn
  <2> QED BY <2>4, <2>5 DEF s
<1> QED BY <1>1, StripInvariant, PTL

\* plstripa drops only points that lie before the window it slides to.
THEOREM KeepsPointsHolds == Spec => KeepsPoints
<1>1. IInv /\ [Next]_vars =>
        [\A i \in Charts : strip'[i].exists => \A p \in Pens : Behind(strip[i], strip'[i], p)]_vars
  BY Steps
<1> QED BY <1>1, StripInvariant, PTL DEF Spec, KeepsPoints
=============================================================================
