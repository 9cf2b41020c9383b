--------------------------- MODULE WxSession_proof ---------------------------
(***************************************************************************)
(* Proofs about WxSession, for every choice of its constants: the calls of *)
(* the device and of the viewer match, the pages arrive, and the page on   *)
(* display is complete in the end.                                         *)
(***************************************************************************)
EXTENDS WxSession, SequenceTheorems, TLAPS

Content == Seq(Nat \X Nat)

Kinds ==
  /\ nopause \in BOOLEAN
  /\ drawn \in Seq(Content) /\ pages \in Seq(Content) /\ data \in Content
  /\ valid \in Seq(BOOLEAN)
  /\ position \in Nat /\ cursors \in 0..MaxCursors
  /\ status \in {"at_bop", "drawing", "at_eop"}
  /\ dpc \in {"setup", "run", "header", "headerSent", "data", "dataSent",
              "reply", "destructor", "ended"}
  /\ vpc \in {"constructor", "constructed", "loop", "header", "received", "data",
              "dataReceived", "click", "clicked", "closed", "fault"}
  /\ header \in HeaderSet /\ vheader \in HeaderSet
  /\ view \in [page : Nat \ {0}, plotted : Nat] /\ writing \in Nat \ {0}
  /\ locateMode \in BOOLEAN /\ complete \in BOOLEAN /\ timer \in BOOLEAN /\ closing \in BOOLEAN

\* What the device has in hand, from TransmitBuffer to the end of it.
Sending == dpc \in {"header", "headerSent", "data", "dataSent"}
DataTypes == EndTypes \cup {"Locate", "Flush"}
LastTypes == {"Close", "Complete"}

\* The pages drawn, none of them empty, and the items on them.
Pages(d) == \A i \in 1..Len(d) : /\ d[i] # << >>
                                 /\ \A k \in 1..Len(d[i]) : d[i][k] = << i, k >>

\* What the device's header says while it is being sent.
Device ==
  /\ Pages(drawn)
  /\ Begun => position <= Len(Buffer)
  /\ ~ Begun => dpc \in {"setup", "run"}
  /\ Sending =>
       /\ header.amount > 0 => header.type \in DataTypes
       /\ header.type \in DataTypes => header.amount = Len(Buffer) - position
       /\ header.type = "Locate" => header.amount > 0
       /\ header.type = "BeginPage" => status = "at_bop" /\ position = 0
  /\ dpc \in {"data", "dataSent"} => header.amount > 0
  /\ dpc = "reply" => header.type = "Locate" /\ position = Len(Buffer)
  /\ header.complete => header.type = "Complete" /\ dpc \in {"header", "headerSent", "ended"}

\* What the viewer has in hand, from a header to the end of its reception.
InHand == vpc \in {"received", "data", "dataReceived"}

\* Where the two processes can be.
Joint ==
  /\ dpc = "setup" <=> vpc = "constructor"
  /\ dpc = "setup" => vheader = FirstHeader
  /\ vpc = "received" => \/ dpc \in {"headerSent", "data"} /\ header = vheader
                         \/ dpc \in {"run", "header", "destructor", "ended"} /\ vheader.amount = 0
  /\ vpc = "data" => dpc \in {"headerSent", "data"} /\ header = vheader /\ header.amount > 0
  /\ vpc = "dataReceived" => \/ dpc \in {"dataSent", "reply"} /\ header = vheader
                             \/ dpc \in {"run", "header"}
  /\ dpc = "headerSent" => vpc \in {"received", "data"} \/ header.amount = 0
  /\ dpc = "data" => vpc \in {"received", "data"}
  /\ vpc = "click" => locateMode
  /\ locateMode /\ vpc # "clicked" =>
       header.type = "Locate" /\ vheader.type = "Locate" /\ dpc \in {"dataSent", "reply"}
  /\ InHand => /\ vheader.amount > 0 => vheader.type \in DataTypes
               /\ vheader.type = "Locate" => vheader.amount > 0 /\ ~ (dpc \in {"run", "header"})
               /\ vpc # "received" => vheader.amount > 0
  /\ vheader.complete => header.complete /\ dpc \in {"headerSent", "ended"}
  /\ vheader.complete => vpc \in {"received", "loop", "closed", "fault"}
  /\ complete => vheader.complete /\ ~ timer
  /\ vheader.complete => (complete <=> vpc # "received")
  /\ vpc \in {"header", "clicked", "constructed"} => ~ vheader.complete

\* A page begun at the device, or in the viewer's hand, that the viewer has not appended.
Asked == dpc = "header" /\ header.type = "BeginPage"
Told  == vpc = "received" /\ vheader.type = "BeginPage"

\* What the viewer has stored.
Stored ==
  /\ Len(valid) = Len(pages)
  /\ writing = IF pages = << >> THEN 1 ELSE Len(pages)
  /\ \A i \in 1..Len(pages) : /\ Len(pages[i]) <= Len(drawn[i])
                              /\ \A k \in 1..Len(pages[i]) : pages[i][k] = << i, k >>
                              /\ valid[i] <=> pages[i] # << >>

\* How far it is behind.
Behind ==
  /\ Len(drawn) = Len(pages) + (IF Asked THEN 1 ELSE 0) + (IF Told THEN 1 ELSE 0)
  /\ Told /\ ~ Asked => position = 0
  /\ InHand /\ vheader.type # "BeginPage" => pages # << >>

\* What it has received and not stored, and what the device counts as sent.
Arriving ==
  /\ vpc = "dataReceived" =>
       /\ pages # << >> /\ data # << >>
       /\ Len(pages[writing]) + Len(data) <= Len(drawn[writing])
       /\ \A k \in 1..Len(data) : data[k] = << writing, Len(pages[writing]) + k >>
  /\ Len(pages) = Len(drawn) /\ Begun =>
       Len(pages[writing]) + (IF vpc = "dataReceived" THEN Len(data) ELSE 0)
         = position + (IF dpc = "dataSent" THEN header.amount ELSE 0)

\* The headers after which the viewer plots the page on display to its end.
Marks == EndTypes \cup {"Locate"}
Plotted == view.plotted = Len(pages[view.page])
Shown(v, p) ==
  IF p = << >> THEN v.page = 1 /\ v.plotted = 0
  ELSE v.page <= Len(p) /\ v.plotted <= Len(p[v.page])
\* The viewer has had the header of an end of page, and nothing after it but,
\* with pauses, the end of the session.
Ended == \/ header.type \in EndTypes /\ dpc # "header"
         \/ header.type = "Complete" /\ ~ nopause
Viewed ==
  /\ Shown(view, pages)
  /\ Begun /\ Ended => \/ InHand /\ vheader.type \in EndTypes
                       \/ Plotted /\ (InHand => vheader.type = "Complete")

\* Without pauses the viewer is told to close before the session is complete.
Leave == closing \/ (vpc = "received" /\ vheader.type = "Close")
Leaving ==
  /\ header.type = "Close" \/ dpc = "destructor" => nopause
  /\ dpc = "destructor" => Leave
  /\ dpc = "headerSent" /\ header.type = "Close" => Leave
  /\ header.type = "Complete" /\ nopause => IF dpc = "header" THEN Leave ELSE closing

IInv == Kinds /\ Device /\ Joint /\ Stored /\ Behind /\ Arriving /\ Viewed /\ Leaving
-----------------------------------------------------------------------------
(* The operators.                                                          *)

\* The constants that bound the drawing are natural numbers.
LEMMA Bounds == Threshold \in Nat /\ MaxCursors \in Nat
BY SessionAssumption

\* The plot buffer is the last page drawn, and is not empty.
LEMMA LastPage ==
  ASSUME Kinds, Pages(drawn), Begun
  PROVE  /\ Len(drawn) \in 1..Len(drawn) /\ Buffer \in Content /\ Buffer # << >>
         /\ Len(Buffer) \in Nat \ {0}
<1>1. Len(drawn) \in 1..Len(drawn) /\ drawn[Len(drawn)] \in Content /\ drawn[Len(drawn)] # << >>
  BY DEF Kinds, Begun, Pages
<1> QED BY <1>1 DEF Content, Buffer

\* An item is recorded at the end of the last page, and nowhere else.
LEMMA RecordGrows ==
  ASSUME Kinds, Pages(drawn), Begun
  PROVE  /\ Record \in Seq(Content) /\ Len(Record) = Len(drawn) /\ Record # << >>
         /\ Pages(Record)
         /\ \A i \in 1..Len(drawn) : Len(drawn[i]) <= Len(Record[i])
         /\ Len(drawn) \in 1..Len(drawn) /\ Buffer \in Content /\ Len(Buffer) \in Nat \ {0}
         /\ Record[Len(drawn)] # << >> /\ Len(Record[Len(drawn)]) = Len(Buffer) + 1
<1> DEFINE n == Len(drawn)
           item == << n, Len(Buffer) + 1 >>
<1>1. n \in 1..n /\ drawn[n] \in Content /\ drawn[n] # << >>
  BY DEF Kinds, Begun, Pages
<1>2. Len(drawn[n]) \in Nat \ {0} /\ item \in Nat \X Nat
  BY <1>1 DEF Content, Buffer
<1>3. /\ Append(drawn[n], item) \in Content
      /\ Len(Append(drawn[n], item)) = Len(drawn[n]) + 1
      /\ \A k \in 1..Len(drawn[n]) + 1 :
           Append(drawn[n], item)[k] = IF k <= Len(drawn[n]) THEN drawn[n][k] ELSE item
  BY <1>1, <1>2 DEF Content
<1>4. Record = [drawn EXCEPT ![n] = Append(drawn[n], item)]
  BY DEF Record
<1>5. Record \in Seq(Content) /\ Len(Record) = n
  BY <1>1, <1>3, <1>4 DEF Kinds
<1>6. \A i \in 1..n : Record[i] = IF i = n THEN Append(drawn[n], item) ELSE drawn[i]
  BY <1>4 DEF Kinds
<1>7. Append(drawn[n], item) # << >>
  BY <1>2, <1>3
<1>10. Record # << >> /\ Record[n] # << >> /\ Len(Record[n]) = Len(drawn[n]) + 1
  <2>1. Record[n] = Append(drawn[n], item)
    BY <1>1, <1>6
  <2>2. Record # << >>
    BY <1>1, <1>5
  <2> HIDE DEF item
  <2> QED BY <2>1, <2>2, <1>3, <1>7
<1>8. Pages(Record)
  <2> SUFFICES ASSUME NEW i \in 1..n
               PROVE  Record[i] # << >> /\ \A k \in 1..Len(Record[i]) : Record[i][k] = << i, k >>
    BY <1>5 DEF Pages
  <2>1. CASE i = n
    <3>1. \A k \in 1..Len(drawn[n]) : drawn[n][k] = << n, k >>
      BY <1>1 DEF Pages
    <3>2. Record[i] = Append(drawn[n], item)
      BY <2>1, <1>6
    <3>3. \A k \in 1..Len(Record[i]) : Record[i][k] = << n, k >>
      BY <3>1, <3>2, <1>2, <1>3 DEF Buffer
    <3> QED BY <2>1, <3>2, <3>3, <1>7
  <2>2. CASE i # n
    BY <2>2, <1>6 DEF Pages
  <2> QED BY <2>1, <2>2
<1>9. \A i \in 1..n : Len(drawn[i]) <= Len(Record[i])
  <2> SUFFICES ASSUME NEW i \in 1..n PROVE Len(drawn[i]) <= Len(Record[i])
    OBVIOUS
  <2>1. drawn[i] \in Content
    BY DEF Kinds
  <2>2. Len(drawn[i]) \in Nat
    BY <2>1 DEF Content
  <2>3. CASE i = n
    BY <2>3, <1>2, <1>10
  <2>4. CASE i # n
    BY <2>2, <2>4, <1>6
  <2> QED BY <2>3, <2>4
<1> QED BY <1>1, <1>2, <1>5, <1>8, <1>9, <1>10 DEF Buffer

\* A header is sent with its type and the size of what follows it.
LEMMA Transmitted ==
  ASSUME NEW type \in Types, NEW buffer, TransmitBuffer(type, buffer), header \in HeaderSet,
         buffer = << >> \/ (Len(buffer) \in Nat /\ position \in Nat /\ position <= Len(buffer))
  PROVE  /\ header' \in HeaderSet /\ header'.type = type /\ dpc' = "header"
         /\ header'.amount = IF buffer = << >> THEN 0 ELSE Len(buffer) - position
         /\ header'.complete = IF type = "Complete" THEN TRUE ELSE header.complete
<1>1. (IF buffer = << >> THEN 0 ELSE Len(buffer) - position) \in Nat
  OBVIOUS
<1> QED BY <1>1 DEF TransmitBuffer, HeaderSet

\* A page is displayed as it is held, to its end; a view stays on the pages there are.
LEMMA Updated ==
  ASSUME NEW v \in [page : Nat \ {0}, plotted : Nat], NEW p \in Seq(Content), NEW f \in Seq(BOOLEAN),
         Shown(v, p), Len(f) = Len(p), \A i \in 1..Len(p) : f[i] <=> p[i] # << >>,
         NEW page \in Nat, p # << >> \/ page # 0
  PROVE  LET w == SetPageAndUpdate(v, page, p, f)
         IN  /\ w \in [page : Nat \ {0}, plotted : Nat]
             /\ Shown(w, p)
             /\ p # << >> /\ page <= Len(p) => w.plotted = Len(p[w.page])
             /\ p # << >> /\ v.plotted = Len(p[v.page]) => w.plotted = Len(p[w.page])
<1> DEFINE w == SetPageAndUpdate(v, page, p, f)
<1> USE DEF Shown
<1>1. CASE page > Len(p)
  BY <1>1 DEF SetPageAndUpdate
<1>2. CASE page <= Len(p)
  <2> DEFINE u == PageToShow(v, page)
  <2>0. w = PlotPage(u, p, f)
    BY <1>2 DEF SetPageAndUpdate
  <2>1. /\ u \in [page : Nat \ {0}, plotted : Nat]
        /\ p = << >> => u.page = 1 /\ u.plotted = 0
        /\ p # << >> => u.page \in 1..Len(p) /\ (u.plotted = 0 \/ (u = v))
    BY <1>2 DEF PageToShow
  <2>3. p # << >>
    BY <1>2
  <2>4. QED
    <3>1. u.page \in 1..Len(p) /\ p[u.page] \in Content /\ Len(p[u.page]) \in Nat
      BY <2>1, <2>3 DEF Content
    <3>2. CASE f[u.page]
      <4>1. w = [u EXCEPT !.plotted = Len(p[u.page])]
        BY <2>0, <3>2 DEF PlotPage
      <4>2. w.page = u.page /\ w.plotted = Len(p[u.page]) /\ w \in [page : Nat \ {0}, plotted : Nat]
        BY <4>1, <2>1, <3>1
      <4> QED BY <4>2, <3>1, <2>3
    <3>3. CASE ~ f[u.page]
      <4>1. w = u /\ p[u.page] = << >>
        BY <2>0, <3>1, <3>3 DEF PlotPage
      <4>2. u.plotted = 0 /\ Len(p[u.page]) = 0
        BY <4>1, <2>1, <3>1
      <4> QED BY <4>1, <4>2, <3>1, <2>1, <2>3
    <3> QED BY <3>2, <3>3
<1> QED BY <1>1, <1>2
\* Counting what is under way.
LEMMA OneEach ==
  ASSUME NEW m \in Nat, NEW n \in Nat, NEW a, NEW b, m = n + (IF a THEN 1 ELSE 0) + (IF b THEN 1 ELSE 0)
  PROVE  m >= n /\ (a => m > n) /\ (b => m > n) /\ (~ a /\ ~ b => m = n) /\ (~ a /\ b => m = n + 1)
OBVIOUS

\* The viewer has no page that is not drawn.
LEMMA Counts ==
  ASSUME IInv
  PROVE  /\ Len(drawn) >= Len(pages) /\ Len(pages) \in Nat /\ Len(drawn) \in Nat
         /\ Asked => Len(drawn) > Len(pages)
         /\ Told => Len(drawn) > Len(pages)
         /\ ~ Asked /\ ~ Told => Len(drawn) = Len(pages)
         /\ ~ Asked /\ Told => Len(drawn) = Len(pages) + 1
<1>1. Len(pages) \in Nat /\ Len(drawn) \in Nat
  BY DEF IInv, Kinds
<1>2. Len(drawn) = Len(pages) + (IF Asked THEN 1 ELSE 0) + (IF Told THEN 1 ELSE 0)
  BY DEF IInv, Behind
<1> HIDE DEF Asked, Told
<1> QED BY <1>1, <1>2, OneEach

\* A page starts empty.
LEMMA EmptyPage == << >> \in Content /\ Len(<< >>) = 0
BY DEF Content

\* A sequence with one more element.
LEMMA AppendOne ==
  ASSUME NEW S, NEW p \in Seq(S), NEW e \in S
  PROVE  /\ Append(p, e) \in Seq(S) /\ Len(Append(p, e)) = Len(p) + 1 /\ Len(p) \in Nat
         /\ \A i \in 1..Len(p) : Append(p, e)[i] = p[i]
         /\ Append(p, e)[Len(p) + 1] = e
OBVIOUS

\* A sequence with another element in one place.
LEMMA ReplaceOne ==
  ASSUME NEW S, NEW p \in Seq(S), NEW n \in 1..Len(p), NEW e \in S
  PROVE  /\ [p EXCEPT ![n] = e] \in Seq(S) /\ Len([p EXCEPT ![n] = e]) = Len(p)
         /\ [p EXCEPT ![n] = e][n] = e
         /\ \A i \in 1..Len(p) : i # n => [p EXCEPT ![n] = e][i] = p[i]
OBVIOUS

\* A sequence is equal to the beginning of another that it agrees with.
LEMMA Beginning ==
  ASSUME NEW h \in Content, NEW d \in Content, Len(h) <= Len(d), \A k \in 1..Len(h) : h[k] = d[k]
  PROVE  h = SubSeq(d, 1, Len(h))
<1>1. h \in Seq(Nat \X Nat) /\ d \in Seq(Nat \X Nat) /\ Len(h) \in 0..Len(d)
  BY DEF Content
<1> DEFINE q == SubSeq(d, 1, Len(h))
<1>2. q \in Seq(Nat \X Nat) /\ Len(q) = Len(h) /\ \A k \in 1..Len(h) : q[k] = d[k]
  BY <1>1
<1> HIDE DEF q
<1>3. h = q
  BY <1>1, <1>2, SeqEqual
<1> QED BY <1>3 DEF q

\* Nothing in hand, nothing more held.
LEMMA NothingMore == \A h \in Content : h \o << >> = h
BY ConcatEmptySeq DEF Content

\* What the viewer holds remains a beginning of what is drawn when more is drawn.
LEMMA Growing ==
  ASSUME IInv, drawn' \in Seq(Content), Len(drawn') >= Len(drawn),
         \A i \in 1..Len(drawn) : Len(drawn[i]) <= Len(drawn'[i]), UNCHANGED viewer
  PROVE  /\ Stored'
         /\ vpc' = "dataReceived" =>
              /\ pages' # << >> /\ data' # << >>
              /\ Len(pages'[writing']) + Len(data') <= Len(drawn'[writing'])
              /\ \A k \in 1..Len(data') : data'[k] = << writing', Len(pages'[writing']) + k >>
<1>1. Len(drawn) >= Len(pages) /\ Len(pages) \in Nat /\ Len(drawn) \in Nat
  BY Counts
<1>2. ASSUME NEW i \in 1..Len(pages)
      PROVE  /\ Len(pages[i]) \in Nat /\ Len(drawn[i]) \in Nat /\ Len(drawn'[i]) \in Nat
             /\ Len(drawn[i]) <= Len(drawn'[i]) /\ Len(pages[i]) <= Len(drawn[i])
  <2>1. i \in 1..Len(drawn) /\ i \in 1..Len(drawn')
    BY <1>1
  <2>2. pages[i] \in Content /\ drawn[i] \in Content /\ drawn'[i] \in Content
    BY <1>1, <2>1 DEF IInv, Kinds
  <2> QED BY <2>1, <2>2 DEF IInv, Stored, Content
<1>3. Stored'
  <2>1. \A i \in 1..Len(pages) : Len(pages[i]) <= Len(drawn'[i])
    BY <1>2
  <2> QED BY <2>1 DEF IInv, Stored, viewer
<1>4. ASSUME vpc = "dataReceived" PROVE Len(pages[writing]) + Len(data) <= Len(drawn'[writing])
  <2>1. pages # << >> /\ pages \in Seq(Content)
    BY <1>4 DEF IInv, Arriving, Kinds
  <2>2. writing \in 1..Len(pages)
    BY <2>1 DEF IInv, Stored
  <2>3. Len(data) \in Nat
    BY DEF IInv, Kinds, Content
  <2> QED BY <1>2, <1>4, <2>2, <2>3 DEF IInv, Arriving
<1> QED BY <1>3, <1>4 DEF IInv, Arriving, viewer

\* What the viewer does with a header or data it has stored: the end of a page plots
\* the page on display, a Locate starts the locate mode, and the end of the transfer is kept.
LEMMA Processed ==
  ASSUME Kinds, NEW v \in [page : Nat \ {0}, plotted : Nat], NEW p \in Seq(Content), NEW f \in Seq(BOOLEAN),
         Shown(v, p), Len(f) = Len(p), \A i \in 1..Len(p) : f[i] <=> p[i] # << >>,
         vheader.type \in Marks => p # << >>, Process(v, p, f)
  PROVE  /\ view' \in [page : Nat \ {0}, plotted : Nat]
         /\ Shown(view', p)
         /\ vheader.type \in Marks /\ writing <= Len(p) => view'.plotted = Len(p[view'.page])
         /\ p # << >> /\ v.plotted = Len(p[v.page]) => view'.plotted = Len(p[view'.page])
         /\ vpc' = IF vheader.type = "Locate" \/ vheader.complete THEN "loop" ELSE "header"
         /\ locateMode' <=> (vheader.type = "Locate" \/ locateMode)
         /\ complete' <=> (complete \/ vheader.complete)
         /\ vheader.complete => ~ timer'
         /\ timer' \in BOOLEAN /\ locateMode' \in BOOLEAN /\ complete' \in BOOLEAN
<1>1. /\ vpc' = IF vheader.type = "Locate" \/ vheader.complete THEN "loop" ELSE "header"
      /\ locateMode' <=> (vheader.type = "Locate" \/ locateMode)
      /\ complete' <=> (complete \/ vheader.complete)
      /\ vheader.complete => ~ timer'
      /\ timer' \in BOOLEAN /\ locateMode' \in BOOLEAN /\ complete' \in BOOLEAN
  BY DEF Process, NextReception, Kinds, HeaderSet
<1>2. /\ view' \in [page : Nat \ {0}, plotted : Nat]
      /\ Shown(view', p)
      /\ vheader.type \in Marks /\ writing <= Len(p) => view'.plotted = Len(p[view'.page])
      /\ p # << >> /\ v.plotted = Len(p[v.page]) => view'.plotted = Len(p[view'.page])
  <2>1. CASE vheader.type = "EndOfPageNoPause"
    <3>1. PICK n \in Nat : n = writing /\ n # 0
      BY DEF Kinds
    <3>2. view' = SetPageAndUpdate(v, n, p, f) /\ p # << >>
      BY <2>1, <3>1 DEF Process, Marks, EndTypes
    <3>3. /\ view' \in [page : Nat \ {0}, plotted : Nat] /\ Shown(view', p)
          /\ writing <= Len(p) => view'.plotted = Len(p[view'.page])
          /\ v.plotted = Len(p[v.page]) => view'.plotted = Len(p[view'.page])
      <4>1. /\ view' \in [page : Nat \ {0}, plotted : Nat] /\ Shown(view', p)
            /\ n <= Len(p) => view'.plotted = Len(p[view'.page])
            /\ v.plotted = Len(p[v.page]) => view'.plotted = Len(p[view'.page])
        <5> DEFINE w == SetPageAndUpdate(v, n, p, f)
        <5>1. /\ w \in [page : Nat \ {0}, plotted : Nat] /\ Shown(w, p)
              /\ p # << >> /\ n <= Len(p) => w.plotted = Len(p[w.page])
              /\ p # << >> /\ v.plotted = Len(p[v.page]) => w.plotted = Len(p[w.page])
          BY <3>1, Updated
        <5> HIDE DEF w
        <5>2. view' = w
          BY <3>2 DEF w
        <5> QED BY <3>2, <5>1, <5>2
      <4> QED BY <3>1, <4>1
    <3> QED BY <3>3
  <2>2. CASE vheader.type \in {"EndOfPage", "Locate"}
    <3>1. view' = SetPageAndUpdate(v, 0, p, f) /\ p # << >> /\ 0 <= Len(p) /\ 0 \in Nat
      BY <2>2 DEF Process, Marks, EndTypes
    <3> QED BY <3>1, Updated
  <2>3. CASE ~ (vheader.type \in {"EndOfPage", "Locate", "EndOfPageNoPause"})
    BY <2>3 DEF Process, Marks, EndTypes
  <2> QED BY <2>1, <2>2, <2>3
<1> QED BY <1>1, <1>2, Zenon

-----------------------------------------------------------------------------
(* The steps.                                                              *)

\* The return of transmitBytes leads to where the header's type says.
LEMMA HeaderSentSteps == IInv /\ HeaderSent => IInv'
<1> SUFFICES ASSUME IInv, HeaderSent PROVE IInv'
  OBVIOUS
<1> USE DEF IInv, HeaderSent, device, viewer
<1>0. Begun => Len(Buffer) \in Nat \ {0} /\ Buffer # << >>
  BY LastPage DEF Device
<1>1. Kinds'
  BY DEF Kinds
<1>2. Device'
  BY <1>0 DEF Kinds, Device, Sending, Pages, Begun, Buffer, DataTypes, EndTypes, LastTypes, FirstHeader, HeaderSet, Types, Joint
<1>3. Joint'
  BY <1>0 DEF Kinds, Joint, Device, InHand, Sending, DataTypes, EndTypes, HeaderSet, Types, LastTypes
<1>4. Stored'
  BY DEF Stored
<1>5. Behind'
  BY DEF Kinds, Joint, Device, Behind, Asked, Told, InHand, Sending, EndTypes, DataTypes, HeaderSet, Begun
<1>6. Arriving'
  BY DEF Kinds, Joint, Device, Arriving, Begun
<1>7. Viewed'
  BY DEF Kinds, Joint, Device, Viewed, Shown, Plotted, Ended, Marks, EndTypes, InHand, Sending, Begun, HeaderSet
<1>20. Leaving'
  BY DEF Leaving, Leave, Joint, Device, Kinds, Sending, HeaderSet
<1> QED BY <1>1, <1>2, <1>3, <1>4, <1>5, <1>6, <1>7, <1>20

\* The destructor's Complete comes after the end of a page.
LEMMA DestructorSteps == IInv /\ Destructor => IInv'
<1> SUFFICES ASSUME IInv, Destructor PROVE IInv'
  OBVIOUS
<1> USE DEF IInv, Destructor, device, viewer
<1>0. Begun => Len(Buffer) \in Nat \ {0} /\ Buffer # << >>
  BY LastPage DEF Device
<1> DEFINE type == "Complete"
<1>8. type \in Types /\ type \in LastTypes /\ dpc \in {"run", "destructor"}
  BY DEF Types, LastTypes, EndTypes
<1>9. /\ header' \in HeaderSet /\ header'.type = type /\ dpc' = "header" /\ header'.amount = 0
      /\ header'.complete = IF type = "Complete" THEN TRUE ELSE header.complete
  BY <1>0, <1>8, Transmitted DEF Kinds, Device
<1> HIDE DEF type
<1>1. Kinds'
  BY <1>9 DEF Kinds
<1>2. Device'
  BY <1>0, <1>8, <1>9 DEF Kinds, Device, Sending, DataTypes, EndTypes, LastTypes, Buffer, Begun
<1>3. Joint'
  BY <1>8, <1>9 DEF Kinds, Joint, InHand, Device
<1>4. Stored'
  BY DEF Stored
<1>5. Behind'
  BY <1>8, <1>9 DEF Kinds, Behind, Asked, Told, InHand, EndTypes, LastTypes, Joint
<1>6. Arriving'
  BY <1>8, <1>9 DEF Arriving, Begun
<1>7. Viewed'
  BY <1>8, <1>9 DEF type, Leaving, Viewed, Shown, Plotted, Ended, Marks, EndTypes, LastTypes, InHand, Begun
<1>20. Leaving'
  BY <1>9 DEF type, Leaving, Leave, Device
<1> QED BY <1>1, <1>2, <1>3, <1>4, <1>5, <1>6, <1>7, <1>20

\* The position counts the data as sent.
LEMMA DataSentSteps == IInv /\ DataSent => IInv'
<1> SUFFICES ASSUME IInv, DataSent PROVE IInv'
  OBVIOUS
<1> USE DEF IInv, DataSent, device, viewer
<1>0. Begun => Len(Buffer) \in Nat \ {0} /\ Buffer # << >>
  BY LastPage DEF Device
<1>8. dpc = "dataSent" /\ dpc' # "dataSent" /\ position + header.amount = position' + 0
  BY DEF Kinds, HeaderSet
<1>9. position' = Len(Buffer) /\ Begun
  BY <1>0, <1>8 DEF Device, Sending, Kinds, HeaderSet
<1>1. Kinds'
  BY DEF Kinds, HeaderSet
<1>2. Device'
  BY <1>8, <1>9 DEF Kinds, Device, Sending, Buffer, Begun, Joint, HeaderSet
<1>3. Joint'
  BY <1>0 DEF Kinds, Joint, Device, InHand, Sending, DataTypes, EndTypes, HeaderSet, Types, LastTypes
<1>4. Stored'
  BY DEF Stored
<1>5. Behind'
  BY DEF Kinds, Joint, Device, Behind, Asked, Told, InHand, Sending, EndTypes, DataTypes, HeaderSet, Begun
<1>6. Arriving'
  BY <1>1, <1>8 DEF Arriving, Begun
<1>7. Viewed'
  BY DEF Kinds, Joint, Device, Viewed, Shown, Plotted, Ended, Marks, EndTypes, InHand, Sending, Begun, HeaderSet
<1>20. Leaving'
  BY DEF Leaving, Leave, Joint, Device, Kinds, Sending, HeaderSet
<1> QED BY <1>1, <1>2, <1>3, <1>4, <1>5, <1>6, <1>7, <1>20

\* The header in hand at the viewer is the device's.
LEMMA DeliverHeaderSteps == IInv /\ DeliverHeader => IInv'
<1> SUFFICES ASSUME IInv, DeliverHeader PROVE IInv'
  OBVIOUS
<1> USE DEF IInv, DeliverHeader, device, viewer
<1>0. Begun => Len(Buffer) \in Nat \ {0} /\ Buffer # << >>
  BY LastPage DEF Device
<1>1. Kinds'
  BY DEF Kinds
<1>2. Device'
  BY <1>0 DEF Kinds, Device, Sending, Pages, Begun, Buffer, DataTypes, EndTypes, LastTypes, FirstHeader, HeaderSet, Types, Joint
<1>3. Joint'
  BY <1>0 DEF Kinds, Joint, Device, InHand, Sending, DataTypes, EndTypes, HeaderSet, Types, LastTypes
<1>4. Stored'
  BY DEF Stored
<1>5. Behind'
  BY DEF Behind, Asked, Told, InHand, Device, Sending, Joint, EndTypes, Begun
<1>6. Arriving'
  BY DEF Kinds, Joint, Device, Arriving, Begun
<1>7. Viewed'
  BY DEF Kinds, Joint, Device, Viewed, Shown, Plotted, Ended, Marks, EndTypes, InHand, Sending, Begun, HeaderSet
<1>20. Leaving'
  BY DEF Leaving, Leave, Joint, Device, Kinds, Sending, HeaderSet
<1> QED BY <1>1, <1>2, <1>3, <1>4, <1>5, <1>6, <1>7, <1>20

\* A reply is to a Locate, or the first header.
LEMMA DeliverReplySteps == IInv /\ DeliverReply => IInv'
<1> SUFFICES ASSUME IInv, DeliverReply PROVE IInv'
  OBVIOUS
<1> USE DEF IInv, DeliverReply, device, viewer
<1>0. Begun => Len(Buffer) \in Nat \ {0} /\ Buffer # << >>
  BY LastPage DEF Device
<1>1. Kinds'
  BY DEF Kinds
<1>2. Device'
  BY <1>0 DEF Kinds, Device, Sending, Pages, Begun, Buffer, DataTypes, EndTypes, LastTypes, FirstHeader, HeaderSet, Types, Joint
<1>3. Joint'
  BY <1>0 DEF Kinds, Joint, Device, InHand, Sending, DataTypes, EndTypes, HeaderSet, Types, LastTypes
<1>4. Stored'
  BY DEF Stored
<1>5. Behind'
  BY DEF Kinds, Joint, Device, Behind, Asked, Told, InHand, Sending, EndTypes, DataTypes, HeaderSet, Begun
<1>6. Arriving'
  BY DEF Kinds, Joint, Device, Arriving, Begun
<1>7. Viewed'
  BY DEF Joint, FirstHeader, Viewed, Shown, Plotted, Ended, EndTypes, InHand, Begun
<1>20. Leaving'
  BY DEF Leaving, Leave, Joint, FirstHeader
<1> QED BY <1>1, <1>2, <1>3, <1>4, <1>5, <1>6, <1>7, <1>20

\* The event loop is entered.
LEMMA ConstructedSteps == IInv /\ Constructed => IInv'
<1> SUFFICES ASSUME IInv, Constructed PROVE IInv'
  OBVIOUS
<1> USE DEF IInv, Constructed, device, viewer
<1>0. Begun => Len(Buffer) \in Nat \ {0} /\ Buffer # << >>
  BY LastPage DEF Device
<1>1. Kinds'
  BY DEF Kinds
<1>2. Device'
  BY <1>0 DEF Kinds, Device, Sending, Pages, Begun, Buffer, DataTypes, EndTypes, LastTypes, FirstHeader, HeaderSet, Types, Joint
<1>3. Joint'
  BY <1>0 DEF Kinds, Joint, Device, InHand, Sending, DataTypes, EndTypes, HeaderSet, Types, LastTypes
<1>4. Stored'
  BY DEF Stored
<1>5. Behind'
  BY DEF Kinds, Joint, Device, Behind, Asked, Told, InHand, Sending, EndTypes, DataTypes, HeaderSet, Begun
<1>6. Arriving'
  BY DEF Kinds, Joint, Device, Arriving, Begun
<1>7. Viewed'
  BY DEF Kinds, Joint, Device, Viewed, Shown, Plotted, Ended, Marks, EndTypes, InHand, Sending, Begun, HeaderSet
<1>20. Leaving'
  BY DEF Leaving, Leave, Joint, Device, Kinds, Sending, HeaderSet
<1> QED BY <1>1, <1>2, <1>3, <1>4, <1>5, <1>6, <1>7, <1>20

\* The timer only runs while the transfer goes on.
LEMMA CheckTimerSteps == IInv /\ CheckTimer => IInv'
<1> SUFFICES ASSUME IInv, CheckTimer PROVE IInv'
  OBVIOUS
<1> USE DEF IInv, CheckTimer, device, viewer
<1>0. Begun => Len(Buffer) \in Nat \ {0} /\ Buffer # << >>
  BY LastPage DEF Device
<1>1. Kinds'
  BY DEF Kinds
<1>2. Device'
  BY <1>0 DEF Kinds, Device, Sending, Pages, Begun, Buffer, DataTypes, EndTypes, LastTypes, FirstHeader, HeaderSet, Types, Joint
<1>3. Joint'
  BY <1>0 DEF Kinds, Joint, Device, InHand, Sending, DataTypes, EndTypes, HeaderSet, Types, LastTypes
<1>4. Stored'
  BY DEF Stored
<1>5. Behind'
  BY DEF Kinds, Joint, Device, Behind, Asked, Told, InHand, Sending, EndTypes, DataTypes, HeaderSet, Begun
<1>6. Arriving'
  BY DEF Kinds, Joint, Device, Arriving, Begun
<1>7. Viewed'
  BY DEF Kinds, Joint, Device, Viewed, Shown, Plotted, Ended, Marks, EndTypes, InHand, Sending, Begun, HeaderSet
<1>20. Leaving'
  BY DEF Leaving, Leave, Joint, Device, Kinds, Sending, HeaderSet
<1> QED BY <1>1, <1>2, <1>3, <1>4, <1>5, <1>6, <1>7, <1>20

\* Data is awaited only when the device sends it.
LEMMA ReceivedAmountSteps == IInv /\ ReceivedAmount => IInv'
<1> SUFFICES ASSUME IInv, ReceivedAmount PROVE IInv'
  OBVIOUS
<1> USE DEF IInv, ReceivedAmount, device, viewer
<1>0. Begun => Len(Buffer) \in Nat \ {0} /\ Buffer # << >>
  BY LastPage DEF Device
<1>1. Kinds'
  BY DEF Kinds
<1>2. Device'
  BY <1>0 DEF Kinds, Device, Sending, Pages, Begun, Buffer, DataTypes, EndTypes, LastTypes, FirstHeader, HeaderSet, Types, Joint
<1>3. Joint'
  BY <1>0 DEF Kinds, Joint, Device, InHand, Sending, DataTypes, EndTypes, HeaderSet, Types, LastTypes
<1>4. Stored'
  BY DEF Stored
<1>5. Behind'
  BY DEF Kinds, Joint, Device, Behind, Asked, Told, InHand, Sending, EndTypes, DataTypes, HeaderSet, Begun
<1>6. Arriving'
  BY DEF Kinds, Joint, Device, Arriving, Begun
<1>7. Viewed'
  BY DEF Kinds, Joint, Device, Viewed, Shown, Plotted, Ended, Marks, EndTypes, InHand, Sending, Begun, HeaderSet
<1>20. Leaving'
  BY DEF Leaving, Leave, Joint, InHand, DataTypes, EndTypes
<1> QED BY <1>1, <1>2, <1>3, <1>4, <1>5, <1>6, <1>7, <1>20

\* A click answers a Locate.
LEMMA ClickSteps == IInv /\ Click => IInv'
<1> SUFFICES ASSUME IInv, Click PROVE IInv'
  OBVIOUS
<1> USE DEF IInv, Click, device, viewer
<1>0. Begun => Len(Buffer) \in Nat \ {0} /\ Buffer # << >>
  BY LastPage DEF Device
<1>1. Kinds'
  BY DEF Kinds, HeaderSet
<1>2. Device'
  BY <1>0 DEF Kinds, Device, Sending, Pages, Begun, Buffer, DataTypes, EndTypes, LastTypes, FirstHeader, HeaderSet, Types, Joint
<1>3. Joint'
  BY DEF Kinds, Joint, InHand, HeaderSet
<1>4. Stored'
  BY DEF Stored
<1>5. Behind'
  BY DEF Kinds, Joint, Device, Behind, Asked, Told, InHand, Sending, EndTypes, DataTypes, HeaderSet, Begun
<1>6. Arriving'
  BY DEF Kinds, Joint, Device, Arriving, Begun
<1>7. Viewed'
  BY DEF Kinds, Joint, Device, Viewed, Shown, Plotted, Ended, Marks, EndTypes, InHand, Sending, Begun, HeaderSet
<1>20. Leaving'
  BY DEF Leaving, Leave, Joint, Device, Kinds, Sending, HeaderSet
<1> QED BY <1>1, <1>2, <1>3, <1>4, <1>5, <1>6, <1>7, <1>20

\* The answer is given once.
LEMMA ClickedSteps == IInv /\ Clicked => IInv'
<1> SUFFICES ASSUME IInv, Clicked PROVE IInv'
  OBVIOUS
<1> USE DEF IInv, Clicked, device, viewer
<1>0. Begun => Len(Buffer) \in Nat \ {0} /\ Buffer # << >>
  BY LastPage DEF Device
<1>1. Kinds'
  BY DEF Kinds
<1>2. Device'
  BY <1>0 DEF Kinds, Device, Sending, Pages, Begun, Buffer, DataTypes, EndTypes, LastTypes, FirstHeader, HeaderSet, Types, Joint
<1>3. Joint'
  BY <1>0 DEF Kinds, Joint, Device, InHand, Sending, DataTypes, EndTypes, HeaderSet, Types, LastTypes
<1>4. Stored'
  BY DEF Stored
<1>5. Behind'
  BY DEF Kinds, Joint, Device, Behind, Asked, Told, InHand, Sending, EndTypes, DataTypes, HeaderSet, Begun
<1>6. Arriving'
  BY DEF Kinds, Joint, Device, Arriving, Begun
<1>7. Viewed'
  BY DEF Kinds, Joint, Device, Viewed, Shown, Plotted, Ended, Marks, EndTypes, InHand, Sending, Begun, HeaderSet
<1>20. Leaving'
  BY DEF Leaving, Leave, Joint, Device, Kinds, Sending, HeaderSet
<1> QED BY <1>1, <1>2, <1>3, <1>4, <1>5, <1>6, <1>7, <1>20

\* The frame goes.
LEMMA CloseFrameSteps == IInv /\ CloseFrame => IInv'
<1> SUFFICES ASSUME IInv, CloseFrame PROVE IInv'
  OBVIOUS
<1> USE DEF IInv, CloseFrame, device, viewer
<1>0. Begun => Len(Buffer) \in Nat \ {0} /\ Buffer # << >>
  BY LastPage DEF Device
<1>1. Kinds'
  BY DEF Kinds
<1>2. Device'
  BY <1>0 DEF Kinds, Device, Sending, Pages, Begun, Buffer, DataTypes, EndTypes, LastTypes, FirstHeader, HeaderSet, Types, Joint
<1>3. Joint'
  BY <1>0 DEF Kinds, Joint, Device, InHand, Sending, DataTypes, EndTypes, HeaderSet, Types, LastTypes
<1>4. Stored'
  BY DEF Stored
<1>5. Behind'
  BY DEF Kinds, Joint, Device, Behind, Asked, Told, InHand, Sending, EndTypes, DataTypes, HeaderSet, Begun
<1>6. Arriving'
  BY DEF Kinds, Joint, Device, Arriving, Begun
<1>7. Viewed'
  BY DEF Kinds, Joint, Device, Viewed, Shown, Plotted, Ended, Marks, EndTypes, InHand, Sending, Begun, HeaderSet
<1>20. Leaving'
  BY DEF Leaving, Leave, Joint, Device, Kinds, Sending, HeaderSet
<1> QED BY <1>1, <1>2, <1>3, <1>4, <1>5, <1>6, <1>7, <1>20

\* A Flush sends what is not sent yet.
LEMMA FlushSteps == IInv /\ Flush => IInv'
<1> SUFFICES ASSUME IInv, Flush PROVE IInv'
  OBVIOUS
<1> USE DEF IInv, Flush, device, viewer
<1>0. Begun => Len(Buffer) \in Nat \ {0} /\ Buffer # << >>
  BY LastPage DEF Device
<1> DEFINE type == "Flush"
<1>8. type \in Types /\ type \in {"Flush"} /\ dpc \in {"run", "destructor"}
  BY DEF Types, LastTypes, EndTypes
<1>9. /\ header' \in HeaderSet /\ header'.type = type /\ dpc' = "header" /\ header'.amount = Len(Buffer) - position
      /\ header'.complete = IF type = "Complete" THEN TRUE ELSE header.complete
  BY <1>0, <1>8, Transmitted DEF Kinds, Device
<1> HIDE DEF type
<1>1. Kinds'
  BY <1>9 DEF Kinds
<1>2. Device'
  BY <1>0, <1>8, <1>9 DEF Kinds, Device, Sending, DataTypes, EndTypes, LastTypes, Buffer, Begun
<1>3. Joint'
  BY <1>8, <1>9 DEF Kinds, Joint, InHand, Device
<1>4. Stored'
  BY DEF Stored
<1>5. Behind'
  BY <1>8, <1>9 DEF Kinds, Behind, Asked, Told, InHand, EndTypes, LastTypes, Joint
<1>6. Arriving'
  BY <1>8, <1>9 DEF Arriving, Begun
<1>7. Viewed'
  BY <1>8, <1>9 DEF Viewed, Shown, Plotted, Ended, Marks, EndTypes, LastTypes, InHand, Begun
<1>20. Leaving'
  BY <1>8, <1>9 DEF Leaving, Leave
<1> QED BY <1>1, <1>2, <1>3, <1>4, <1>5, <1>6, <1>7, <1>20

\* The end comes after the end of a page.
LEMMA TidySteps == IInv /\ Tidy => IInv'
<1> SUFFICES ASSUME IInv, Tidy PROVE IInv'
  OBVIOUS
<1> USE DEF IInv, Tidy, device, viewer
<1>0. Begun => Len(Buffer) \in Nat \ {0} /\ Buffer # << >>
  BY LastPage DEF Device
<1> DEFINE type == IF nopause THEN "Close" ELSE "Complete"
<1>8. type \in Types /\ type \in LastTypes /\ dpc \in {"run", "destructor"}
  BY DEF Types, LastTypes, EndTypes
<1>9. /\ header' \in HeaderSet /\ header'.type = type /\ dpc' = "header" /\ header'.amount = 0
      /\ header'.complete = IF type = "Complete" THEN TRUE ELSE header.complete
  BY <1>0, <1>8, Transmitted DEF Kinds, Device
<1> HIDE DEF type
<1>1. Kinds'
  BY <1>9 DEF Kinds
<1>2. Device'
  BY <1>0, <1>8, <1>9 DEF Kinds, Device, Sending, DataTypes, EndTypes, LastTypes, Buffer, Begun
<1>3. Joint'
  BY <1>8, <1>9 DEF Kinds, Joint, InHand, Device
<1>4. Stored'
  BY DEF Stored
<1>5. Behind'
  BY <1>8, <1>9 DEF Kinds, Behind, Asked, Told, InHand, EndTypes, LastTypes, Joint
<1>6. Arriving'
  BY <1>8, <1>9 DEF Arriving, Begun
<1>7. Viewed'
  BY <1>8, <1>9 DEF Viewed, Shown, Plotted, Ended, Marks, EndTypes, LastTypes, InHand, Begun
<1>20. Leaving'
  BY <1>8, <1>9 DEF type, Leaving, Leave
<1> QED BY <1>1, <1>2, <1>3, <1>4, <1>5, <1>6, <1>7, <1>20

\* Drawing only makes the last page longer.
LEMMA DrawSteps == IInv /\ Draw => IInv'
<1> SUFFICES ASSUME IInv, Draw PROVE IInv'
  OBVIOUS
<1> USE DEF IInv, Draw, device, viewer
<1>0. Begun => Len(Buffer) \in Nat \ {0} /\ Buffer # << >>
  BY LastPage DEF Device
<1>8. /\ drawn' \in Seq(Content) /\ Len(drawn') = Len(drawn) /\ Pages(drawn')
      /\ \A i \in 1..Len(drawn) : Len(drawn[i]) <= Len(drawn'[i])
      /\ Begun /\ Begun' /\ Buffer' = drawn'[Len(drawn)] /\ Buffer' # << >> /\ Len(drawn) \in 1..Len(drawn)
      /\ Len(Buffer') \in Nat /\ Len(Buffer') >= Len(Buffer)
  BY RecordGrows, LastPage DEF Device, Begun, Buffer, Kinds
<1>g. /\ Stored'
      /\ vpc' = "dataReceived" =>
           /\ pages' # << >> /\ data' # << >>
           /\ Len(pages'[writing']) + Len(data') <= Len(drawn'[writing'])
           /\ \A k \in 1..Len(data') : data'[k] = << writing', Len(pages'[writing']) + k >>
  <2>1. UNCHANGED viewer /\ IInv
    OBVIOUS
  <2>2. Len(drawn') >= Len(drawn) /\ drawn' \in Seq(Content)
    BY <1>8 DEF Kinds
  <2> HIDE DEF viewer, IInv
  <2> QED BY <1>8, <2>1, <2>2, Growing
<1>1. Kinds'
  BY <1>8 DEF Kinds
<1>2. Device'
  BY <1>0, <1>8 DEF Kinds, Device, Sending, Joint
<1>3. Joint'
  BY <1>0 DEF Kinds, Joint, Device, InHand, Sending, DataTypes, EndTypes, HeaderSet, Types, LastTypes
<1>4. Stored'
  BY <1>g
<1>5. Behind'
  BY <1>8 DEF Behind, Asked, Told, InHand
<1>6. Arriving'
  BY <1>8, <1>g DEF Arriving, Begun
<1>7. Viewed'
  BY <1>8 DEF Viewed, Shown, Plotted, Ended, InHand
<1>20. Leaving'
  BY DEF Leaving, Leave, Joint, Device, Kinds, Sending, HeaderSet
<1> QED BY <1>1, <1>2, <1>3, <1>4, <1>5, <1>6, <1>7, <1>20

\* Drawing only makes the last page longer.
LEMMA EscapeSteps == IInv /\ Escape => IInv'
<1> SUFFICES ASSUME IInv, Escape PROVE IInv'
  OBVIOUS
<1> USE DEF IInv, Escape, device, viewer
<1>0. Begun => Len(Buffer) \in Nat \ {0} /\ Buffer # << >>
  BY LastPage DEF Device
<1>8. /\ drawn' \in Seq(Content) /\ Len(drawn') = Len(drawn) /\ Pages(drawn')
      /\ \A i \in 1..Len(drawn) : Len(drawn[i]) <= Len(drawn'[i])
      /\ Begun /\ Begun' /\ Buffer' = drawn'[Len(drawn)] /\ Buffer' # << >> /\ Len(drawn) \in 1..Len(drawn)
      /\ Len(Buffer') \in Nat /\ Len(Buffer') >= Len(Buffer)
  BY RecordGrows, LastPage DEF Device, Begun, Buffer, Kinds
<1>g. /\ Stored'
      /\ vpc' = "dataReceived" =>
           /\ pages' # << >> /\ data' # << >>
           /\ Len(pages'[writing']) + Len(data') <= Len(drawn'[writing'])
           /\ \A k \in 1..Len(data') : data'[k] = << writing', Len(pages'[writing']) + k >>
  <2>1. UNCHANGED viewer /\ IInv
    OBVIOUS
  <2>2. Len(drawn') >= Len(drawn) /\ drawn' \in Seq(Content)
    BY <1>8 DEF Kinds
  <2> HIDE DEF viewer, IInv
  <2> QED BY <1>8, <2>1, <2>2, Growing
<1>1. Kinds'
  BY <1>8 DEF Kinds
<1>2. Device'
  BY <1>0, <1>8 DEF Kinds, Device, Sending, Joint
<1>3. Joint'
  BY <1>0 DEF Kinds, Joint, Device, InHand, Sending, DataTypes, EndTypes, HeaderSet, Types, LastTypes
<1>4. Stored'
  BY <1>g
<1>5. Behind'
  BY <1>8 DEF Behind, Asked, Told, InHand
<1>6. Arriving'
  BY <1>8, <1>g DEF Arriving, Begun
<1>7. Viewed'
  BY <1>8 DEF Viewed, Shown, Plotted, Ended, InHand
<1>20. Leaving'
  BY DEF Leaving, Leave, Joint, Device, Kinds, Sending, HeaderSet
<1> QED BY <1>1, <1>2, <1>3, <1>4, <1>5, <1>6, <1>7, <1>20

\* A page begun is one the viewer is to be asked for.
LEMMA BeginPageSteps == IInv /\ BeginPage => IInv'
<1> SUFFICES ASSUME IInv, BeginPage PROVE IInv'
  OBVIOUS
<1> USE DEF IInv, BeginPage, device, viewer
<1>0. Begun => Len(Buffer) \in Nat \ {0} /\ Buffer # << >>
  BY LastPage DEF Device
<1>8. /\ drawn' \in Seq(Content) /\ Len(drawn') = Len(drawn) + 1 /\ Len(drawn) \in Nat /\ Pages(drawn')
      /\ \A i \in 1..Len(drawn) : Len(drawn[i]) <= Len(drawn'[i])
      /\ Begun' /\ Len(Buffer') = 1
  <2> DEFINE n == Len(drawn)
             page == << << n + 1, 1 >> >>
  <2>1. n \in Nat /\ page \in Content /\ page # << >> /\ Len(page) = 1 /\ page[1] = << n + 1, 1 >>
    BY DEF Kinds, Content
  <2>2. drawn' = Append(drawn, page)
    OBVIOUS
  <2> HIDE DEF page
  <2>3. drawn' \in Seq(Content) /\ Len(drawn') = n + 1 /\ \A i \in 1..n + 1 : drawn'[i] = IF i <= n THEN drawn[i] ELSE page
    <3>1. drawn \in Seq(Content)
      BY DEF Kinds
    <3> HIDE DEF IInv, BeginPage
    <3> QED BY <2>1, <2>2, <3>1, AppendOne
  <2>4. Pages(drawn')
    BY <2>1, <2>3 DEF Pages, Device
  <2>5. ASSUME NEW i \in 1..n PROVE Len(drawn[i]) <= Len(drawn'[i])
    <3>1. drawn[i] \in Content
      BY DEF Kinds
    <3> QED BY <3>1, <2>3 DEF Content
  <2> QED BY <2>1, <2>3, <2>4, <2>5 DEF Begun, Buffer
<1>g. /\ Stored'
      /\ vpc' = "dataReceived" =>
           /\ pages' # << >> /\ data' # << >>
           /\ Len(pages'[writing']) + Len(data') <= Len(drawn'[writing'])
           /\ \A k \in 1..Len(data') : data'[k] = << writing', Len(pages'[writing']) + k >>
  <2>1. UNCHANGED viewer /\ IInv
    OBVIOUS
  <2>2. Len(drawn') >= Len(drawn) /\ drawn' \in Seq(Content)
    BY <1>8 DEF Kinds
  <2> HIDE DEF viewer, IInv
  <2> QED BY <1>8, <2>1, <2>2, Growing
<1> DEFINE type == "BeginPage"
<1>9. type \in Types /\ type \in {"BeginPage"} /\ dpc = "run"
  BY DEF Types, EndTypes
<1>10. /\ header' \in HeaderSet /\ header'.type = type /\ dpc' = "header" /\ header'.amount = 0
       /\ header'.complete = IF type = "Complete" THEN TRUE ELSE header.complete
  <2>1. header \in HeaderSet /\ position \in Nat /\ (Begun => position <= Len(Buffer) /\ Len(Buffer) \in Nat)
    BY <1>0 DEF Kinds, Device
  <2> HIDE DEF type, IInv
  <2> QED BY <2>1, <1>9, Transmitted
<1> HIDE DEF type
<1>11. Len(drawn') # Len(pages)
  <2> HIDE DEF IInv
  <2> QED BY <1>8, Counts
<1>1. Kinds'
  BY <1>8, <1>10 DEF Kinds
<1>2. Device'
  BY <1>8, <1>9, <1>10 DEF Device, Sending, DataTypes, EndTypes, LastTypes
<1>3. Joint'
  BY <1>9, <1>10 DEF Joint, InHand
<1>4. Stored'
  BY <1>g
<1>5. Behind'
  BY <1>8, <1>9, <1>10 DEF Behind, Asked, Told, InHand
<1>6. Arriving'
  BY <1>8, <1>9, <1>10, <1>11, <1>g DEF Arriving
<1>7. Viewed'
  BY <1>9, <1>10 DEF Viewed, Shown, Ended, EndTypes
<1>20. Leaving'
  BY <1>9, <1>10 DEF Leaving, Leave
<1> QED BY <1>1, <1>2, <1>3, <1>4, <1>5, <1>6, <1>7, <1>20

\* A Locate sends what is not sent yet, the escape at least.
LEMMA GetCursorSteps == IInv /\ GetCursor => IInv'
<1> SUFFICES ASSUME IInv, GetCursor PROVE IInv'
  OBVIOUS
<1> USE DEF IInv, GetCursor, device, viewer
<1>0. Begun => Len(Buffer) \in Nat \ {0} /\ Buffer # << >>
  BY LastPage DEF Device
<1>8. /\ drawn' \in Seq(Content) /\ Len(drawn') = Len(drawn) /\ Pages(drawn')
      /\ \A i \in 1..Len(drawn) : Len(drawn[i]) <= Len(drawn'[i])
      /\ Begun /\ Begun' /\ Buffer' = drawn'[Len(drawn)] /\ Buffer' # << >> /\ Len(drawn) \in 1..Len(drawn)
      /\ Len(Buffer') \in Nat /\ Len(Buffer') >= Len(Buffer)
  BY RecordGrows, LastPage DEF Device, Begun, Buffer, Kinds
<1>g. /\ Stored'
      /\ vpc' = "dataReceived" =>
           /\ pages' # << >> /\ data' # << >>
           /\ Len(pages'[writing']) + Len(data') <= Len(drawn'[writing'])
           /\ \A k \in 1..Len(data') : data'[k] = << writing', Len(pages'[writing']) + k >>
  <2>1. UNCHANGED viewer /\ IInv
    OBVIOUS
  <2>2. Len(drawn') >= Len(drawn) /\ drawn' \in Seq(Content)
    BY <1>8 DEF Kinds
  <2> HIDE DEF viewer, IInv
  <2> QED BY <1>8, <2>1, <2>2, Growing
<1> DEFINE type == "Locate"
<1>9. type \in Types /\ type \in {"Locate"} /\ dpc = "run" /\ TransmitBuffer(type, Buffer')
  BY <1>8 DEF Types, EndTypes
<1>10. /\ header' \in HeaderSet /\ header'.type = type /\ dpc' = "header" /\ header'.amount = Len(Buffer') - position
       /\ header'.complete = IF type = "Complete" THEN TRUE ELSE header.complete
  <2>1. header \in HeaderSet /\ position \in Nat /\ (Begun => position <= Len(Buffer) /\ Len(Buffer) \in Nat)
    BY <1>0 DEF Kinds, Device
  <2> HIDE DEF type, IInv
  <2>2. position <= Len(Buffer') /\ Len(Buffer') \in Nat /\ Buffer' # << >>
    BY <1>8, <2>1
  <2>3. TransmitBuffer(type, Buffer') /\ type \in Types
    BY <1>9
  <2> QED BY <2>1, <2>2, <2>3, Transmitted
<1> HIDE DEF type
<1>1. Kinds'
  BY <1>8, <1>10, Bounds DEF Kinds
<1>2. Device'
  BY <1>0, <1>8, <1>9, <1>10, RecordGrows DEF Kinds, Device, Sending, DataTypes, EndTypes, LastTypes
<1>3. Joint'
  BY <1>9, <1>10 DEF Joint, InHand
<1>4. Stored'
  BY <1>g
<1>5. Behind'
  BY <1>8, <1>9, <1>10 DEF Behind, Asked, Told, InHand
<1>6. Arriving'
  BY <1>8, <1>9, <1>10, <1>g DEF Arriving, Begun
<1>7. Viewed'
  BY <1>9, <1>10 DEF Viewed, Shown, Ended, Marks
<1>20. Leaving'
  BY <1>9, <1>10 DEF Leaving, Leave
<1> QED BY <1>1, <1>2, <1>3, <1>4, <1>5, <1>6, <1>7, <1>20

\* The end of a page sends what is not sent yet.
LEMMA EndPageSteps == IInv /\ EndPage => IInv'
<1> SUFFICES ASSUME IInv, EndPage PROVE IInv'
  OBVIOUS
<1> USE DEF IInv, EndPage, device, viewer
<1>0. Begun => Len(Buffer) \in Nat \ {0} /\ Buffer # << >>
  BY LastPage DEF Device
<1>8. /\ drawn' \in Seq(Content) /\ Len(drawn') = Len(drawn) /\ Pages(drawn')
      /\ \A i \in 1..Len(drawn) : Len(drawn[i]) <= Len(drawn'[i])
      /\ Begun /\ Begun' /\ Buffer' = drawn'[Len(drawn)] /\ Buffer' # << >> /\ Len(drawn) \in 1..Len(drawn)
      /\ Len(Buffer') \in Nat /\ Len(Buffer') >= Len(Buffer)
  BY RecordGrows, LastPage DEF Device, Begun, Buffer, Kinds
<1>g. /\ Stored'
      /\ vpc' = "dataReceived" =>
           /\ pages' # << >> /\ data' # << >>
           /\ Len(pages'[writing']) + Len(data') <= Len(drawn'[writing'])
           /\ \A k \in 1..Len(data') : data'[k] = << writing', Len(pages'[writing']) + k >>
  <2>1. UNCHANGED viewer /\ IInv
    OBVIOUS
  <2>2. Len(drawn') >= Len(drawn) /\ drawn' \in Seq(Content)
    BY <1>8 DEF Kinds
  <2> HIDE DEF viewer, IInv
  <2> QED BY <1>8, <2>1, <2>2, Growing
<1> DEFINE type == IF nopause THEN "EndOfPageNoPause" ELSE "EndOfPage"
<1>9. type \in Types /\ type \in EndTypes /\ dpc = "run" /\ TransmitBuffer(type, Buffer')
  BY <1>8 DEF Types, EndTypes
<1>10. /\ header' \in HeaderSet /\ header'.type = type /\ dpc' = "header" /\ header'.amount = Len(Buffer') - position
       /\ header'.complete = IF type = "Complete" THEN TRUE ELSE header.complete
  <2>1. header \in HeaderSet /\ position \in Nat /\ (Begun => position <= Len(Buffer) /\ Len(Buffer) \in Nat)
    BY <1>0 DEF Kinds, Device
  <2> HIDE DEF type, IInv
  <2>2. position <= Len(Buffer') /\ Len(Buffer') \in Nat /\ Buffer' # << >>
    BY <1>8, <2>1
  <2>3. TransmitBuffer(type, Buffer') /\ type \in Types
    BY <1>9
  <2> QED BY <2>1, <2>2, <2>3, Transmitted
<1> HIDE DEF type
<1>1. Kinds'
  BY <1>8, <1>10 DEF Kinds
<1>2. Device'
  BY <1>0, <1>8, <1>9, <1>10 DEF Kinds, Device, Sending, DataTypes, EndTypes, LastTypes
<1>3. Joint'
  BY <1>9, <1>10 DEF Joint, InHand
<1>4. Stored'
  BY <1>g
<1>5. Behind'
  BY <1>8, <1>9, <1>10 DEF Behind, Asked, Told, InHand, EndTypes
<1>6. Arriving'
  BY <1>8, <1>9, <1>10, <1>g DEF Arriving, Begun
<1>7. Viewed'
  BY <1>9, <1>10 DEF Viewed, Shown, Ended, EndTypes
<1>20. Leaving'
  BY <1>9, <1>10 DEF Leaving, Leave, EndTypes
<1> QED BY <1>1, <1>2, <1>3, <1>4, <1>5, <1>6, <1>7, <1>20

\* The data is what the viewer does not have of the page.
LEMMA DeliverDataSteps == IInv /\ DeliverData => IInv'
<1> SUFFICES ASSUME IInv, DeliverData PROVE IInv'
  OBVIOUS
<1> USE DEF IInv, DeliverData, device, viewer
<1>0. Begun => Len(Buffer) \in Nat \ {0} /\ Buffer # << >>
  BY LastPage DEF Device
<1>8. dpc = "data" /\ vpc = "data" /\ header = vheader /\ header.amount = Len(Buffer) - position /\ Begun
      /\ header.amount > 0
  BY DEF Joint, Device, Sending, DataTypes, EndTypes
<1>9. /\ Len(drawn) = Len(pages) /\ pages # << >> /\ writing = Len(drawn) /\ Len(pages[writing]) = position
      /\ Len(drawn) \in 1..Len(drawn)
  <2>1. ~ Asked /\ ~ Told
    BY <1>8 DEF Asked, Told
  <2>2. Len(drawn) = Len(pages)
    <3> HIDE DEF IInv
    <3> QED BY <2>1, Counts
  <2>3. pages # << >>
    BY <2>2, <1>8 DEF Begun, Kinds
  <2>4. pages[writing] \in Content /\ writing = Len(drawn) /\ writing \in 1..Len(drawn)
    BY <2>2, <2>3 DEF Stored, Kinds
  <2>5. Len(pages[writing]) \in Nat
    BY <2>4 DEF Content
  <2> QED BY <2>2, <2>3, <2>4, <2>5, <1>8 DEF Arriving, Kinds
<1>10. /\ data' \in Content /\ Len(data') = header.amount /\ data' # << >>
       /\ \A k \in 1..Len(data') : data'[k] = << writing, position + k >>
       /\ position \in Nat /\ header.amount \in Nat /\ position + header.amount = Len(drawn[writing])
  <2>1. Buffer \in Content /\ position \in Nat /\ header.amount \in Nat \ {0} /\ position + header.amount = Len(Buffer)
    BY <1>0, <1>8, LastPage DEF Device, Kinds, HeaderSet
  <2>2. data' = SubSeq(Buffer, position + 1, position + header.amount)
    OBVIOUS
  <2>3. Buffer = drawn[writing] /\ \A k \in 1..Len(Buffer) : Buffer[k] = << writing, k >>
    BY <1>9 DEF Buffer, Device, Pages
  <2> HIDE DEF IInv, DeliverData
  <2>4. data' \in Content /\ Len(data') = header.amount
        /\ \A k \in 1..header.amount : data'[k] = Buffer[position + k]
    <3> DEFINE b == Buffer
               q == position
               m == header.amount
    <3>1. b \in Seq(Nat \X Nat) /\ q \in Nat /\ m \in Nat \ {0} /\ q + m = Len(b) /\ data' = SubSeq(b, q + 1, q + m)
      BY <2>1, <2>2 DEF Content
    <3> HIDE DEF b, q, m
    <3>2. data' \in Seq(Nat \X Nat) /\ Len(data') = m /\ \A k \in 1..m : data'[k] = b[q + k]
      BY <3>1
    <3> QED BY <3>2 DEF b, q, m, Content
  <2>5. ASSUME NEW k \in 1..header.amount PROVE data'[k] = << writing, position + k >>
    BY <2>1, <2>3, <2>4
  <2> QED BY <2>1, <2>3, <2>4, <2>5
<1>1. Kinds'
  BY <1>10 DEF Kinds
<1>2. Device'
  BY <1>8 DEF Device, Sending, Begun, Buffer
<1>3. Joint'
  BY <1>8 DEF Joint, InHand, DataTypes, EndTypes
<1>4. Stored'
  BY DEF Stored
<1>5. Behind'
  BY <1>8 DEF Behind, Asked, Told, InHand, Begun
<1>6. Arriving'
  <2>1. vpc' = "dataReceived" /\ dpc' = "dataSent" /\ UNCHANGED << pages, writing, drawn, position, header >>
    OBVIOUS
  <2>2. Len(pages[writing]) + Len(data') = position + header.amount
    BY <1>9, <1>10
  <2> HIDE DEF IInv, DeliverData
  <2> QED BY <2>1, <2>2, <1>9, <1>10 DEF Arriving
<1>7. Viewed'
  BY <1>8 DEF Viewed, Shown, Plotted, Ended, Marks, InHand, Begun
<1>20. Leaving'
  BY DEF Leaving, Leave, Joint, Device, Kinds, Sending, HeaderSet
<1> QED BY <1>1, <1>2, <1>3, <1>4, <1>5, <1>6, <1>7, <1>20

\* A header without data begins a page, ends one that is there, or ends the session.
LEMMA ReceivedSteps == IInv /\ Received => IInv'
<1> SUFFICES ASSUME IInv, Received PROVE IInv'
  OBVIOUS
<1> USE DEF IInv, Received, device, viewer
<1>0. Begun => Len(Buffer) \in Nat \ {0} /\ Buffer # << >>
  BY LastPage DEF Device
<1>f. /\ view \in [page : Nat \ {0}, plotted : Nat] /\ pages \in Seq(Content) /\ valid \in Seq(BOOLEAN)
      /\ Shown(view, pages) /\ Len(valid) = Len(pages) /\ \A i \in 1..Len(pages) : valid[i] <=> pages[i] # << >>
  BY DEF Kinds, Viewed, Stored
<1>8. /\ vpc = "received" /\ vheader.amount = 0 /\ vheader.type # "Locate" /\ Process(view, pages, valid)
      /\ vheader.type \in Marks => pages # << >>
  BY DEF Joint, InHand, Behind, Marks, EndTypes
<1>9. /\ view' \in [page : Nat \ {0}, plotted : Nat]
      /\ Shown(view', pages)
      /\ vheader.type \in Marks /\ writing <= Len(pages) => view'.plotted = Len(pages[view'.page])
      /\ pages # << >> /\ view.plotted = Len(pages[view.page]) => view'.plotted = Len(pages[view'.page])
      /\ vpc' = IF vheader.complete THEN "loop" ELSE "header"
      /\ locateMode' <=> locateMode
      /\ complete' <=> (complete \/ vheader.complete)
      /\ vheader.complete => ~ timer'
      /\ timer' \in BOOLEAN /\ locateMode' \in BOOLEAN /\ complete' \in BOOLEAN
      /\ view' = view \/ vheader.type \in EndTypes
  <2>1. locateMode \in BOOLEAN /\ Kinds
    BY DEF Kinds
  <2>2. view' = view \/ vheader.type \in EndTypes
    BY <1>8 DEF Process, EndTypes
  <2> HIDE DEF IInv, Received
  <2> QED BY <1>8, <1>f, <2>1, <2>2, Processed
<1>10. /\ pages' \in Seq(Content) /\ valid' \in Seq(BOOLEAN) /\ writing' \in Nat \ {0} /\ closing' \in BOOLEAN
       /\ vheader.type # "BeginPage" => pages' = pages /\ valid' = valid /\ writing' = writing
       /\ vheader.type = "BeginPage" =>
            /\ Len(pages') = Len(pages) + 1 /\ Len(valid') = Len(pages) + 1 /\ writing' = Len(pages')
            /\ Len(pages) \in Nat
            /\ \A i \in 1..Len(pages) : pages'[i] = pages[i] /\ valid'[i] = valid[i]
            /\ pages'[Len(pages) + 1] = << >> /\ valid'[Len(pages) + 1] = FALSE
  <2>1. CASE vheader.type = "BeginPage"
    <3>1. pages' = Append(pages, << >>) /\ valid' = Append(valid, FALSE) /\ writing' = Len(pages')
      BY <2>1
    <3>2. closing' \in BOOLEAN
      BY DEF Kinds
    <3>3. /\ pages' \in Seq(Content) /\ Len(pages') = Len(pages) + 1 /\ Len(pages) \in Nat
          /\ \A i \in 1..Len(pages) : pages'[i] = pages[i]
          /\ pages'[Len(pages) + 1] = << >>
      <4> HIDE DEF IInv, Received
      <4> QED BY <1>f, <3>1, EmptyPage, AppendOne
    <3>4. /\ valid' \in Seq(BOOLEAN) /\ Len(valid') = Len(valid) + 1
          /\ \A i \in 1..Len(valid) : valid'[i] = valid[i]
          /\ valid'[Len(valid) + 1] = FALSE
      <4> HIDE DEF IInv, Received
      <4>1. FALSE \in BOOLEAN /\ valid \in Seq(BOOLEAN)
        BY <1>f
      <4> QED BY <3>1, <4>1, AppendOne
    <3>5. Len(valid) = Len(pages)
      BY <1>f
    <3> HIDE DEF IInv, Received
    <3>6. writing' \in Nat \ {0}
      BY <3>1, <3>3
    <3> QED BY <2>1, <3>1, <3>2, <3>3, <3>4, <3>5, <3>6
  <2>2. CASE vheader.type # "BeginPage"
    BY <2>2 DEF Kinds
  <2> QED BY <2>1, <2>2
<1> HIDE DEF Received
<1>11. UNCHANGED << device, vheader, data >>
  BY DEF Received
<1>12. /\ Len(drawn) = Len(pages') + (IF Asked THEN 1 ELSE 0)
       /\ Asked => Len(drawn) # Len(pages')
       /\ ~ Told => (Asked \/ Len(drawn) = Len(pages))
  <2>1. Told <=> vheader.type = "BeginPage"
    BY <1>8 DEF Told
  <2> HIDE DEF IInv, Asked, Told, Received
  <2>2. /\ Len(pages) \in Nat /\ Len(drawn) \in Nat
        /\ Len(drawn) = Len(pages) + (IF Asked THEN 1 ELSE 0) + (IF Told THEN 1 ELSE 0)
    BY Counts DEF IInv, Behind
  <2>3. CASE Asked
    BY <2>1, <2>2, <2>3, <1>10
  <2>4. CASE ~ Asked
    BY <2>1, <2>2, <2>4, <1>10
  <2> QED BY <2>3, <2>4
<1>1. Kinds'
  BY <1>9, <1>10, <1>11 DEF Kinds
<1>2. Device'
  BY <1>11 DEF Device, Sending, Begun, Buffer
<1>3. Joint'
  <2>1. UNCHANGED << dpc, header, vheader >> /\ vpc' \in {"loop", "header"} /\ (vpc' = "loop" <=> vheader.complete)
    BY <1>8, <1>9, <1>11 DEF Kinds, HeaderSet
  <2>2. dpc # "setup" /\ dpc # "data" /\ (dpc = "headerSent" => header.amount = 0)
    BY <1>8 DEF Joint, Device
  <2>3. (locateMode' <=> locateMode) /\ (complete' <=> vheader.complete) /\ (vheader.complete => ~ timer')
    BY <1>8, <1>9, Zenon DEF Joint
  <2>4. locateMode => header.type = "Locate" /\ vheader.type = "Locate" /\ dpc \in {"dataSent", "reply"}
    BY <1>8 DEF Joint
  <2>5. vheader.complete => header.complete /\ dpc \in {"headerSent", "ended"}
    BY DEF Joint
  <2> HIDE DEF IInv
  <2> QED BY <2>1, <2>2, <2>3, <2>4, <2>5 DEF Joint, InHand
<1>4. Stored'
  BY <1>10, <1>11, EmptyPage DEF Stored
<1>5. Behind'
  <2>1. vpc' \in {"loop", "header"}
    BY <1>9
  <2>2. ~ Told' /\ ~ InHand' /\ (Asked' <=> Asked)
    BY <2>1, <1>11 DEF Told, InHand, Asked
  <2> HIDE DEF IInv, Asked, Told
  <2>3. Len(drawn') = Len(pages') + (IF Asked' THEN 1 ELSE 0) + (IF Told' THEN 1 ELSE 0)
    <3>1. drawn' = drawn /\ Len(pages') \in Nat
      BY <1>10, <1>11
    <3>2. CASE Asked
      BY <3>1, <3>2, <2>2, <1>12
    <3>3. CASE ~ Asked
      BY <3>1, <3>3, <2>2, <1>12
    <3> QED BY <3>2, <3>3
  <2> QED BY <2>2, <2>3 DEF Behind
<1>6. Arriving'
  <2>1. vpc' # "dataReceived" /\ vpc # "dataReceived" /\ dpc # "dataSent"
    BY <1>8, <1>9 DEF Joint, Device
  <2>2. CASE vheader.type = "BeginPage"
    <3>1. Len(pages'[writing']) = 0 /\ (Asked => Len(pages') # Len(drawn))
      BY <2>2, <1>10, <1>12, EmptyPage
    <3>2. Told /\ (~ Asked => position = 0)
      BY <2>2, <1>8 DEF Told, Behind
    <3> QED BY <2>1, <3>1, <3>2, <1>11 DEF Arriving, Kinds
  <2>3. CASE vheader.type # "BeginPage"
    BY <2>1, <2>3, <1>10, <1>11 DEF Arriving, Begun
  <2> QED BY <2>2, <2>3
<1>7. Viewed'
  BY <1>8, <1>9, <1>10, <1>11, EmptyPage DEF Viewed, Shown, Plotted, Ended, Marks, InHand, Begun, Stored, Kinds
<1>20. Leaving'
  <2>1. Leaving /\ vpc = "received"
    BY <1>8
  <2>2. closing' = (closing \/ vheader.type = "Close")
    BY DEF Received
  <2> HIDE DEF IInv
  <2> QED BY <2>1, <2>2, <1>11 DEF Leaving, Leave
<1> QED BY <1>1, <1>2, <1>3, <1>4, <1>5, <1>6, <1>7, <1>20

\* Data is stored behind what the viewer has of the page.
LEMMA DataReceivedSteps == IInv /\ DataReceived => IInv'
<1> SUFFICES ASSUME IInv, DataReceived PROVE IInv'
  OBVIOUS
<1> USE DEF IInv, DataReceived, device, viewer
<1>0. Begun => Len(Buffer) \in Nat \ {0} /\ Buffer # << >>
  BY LastPage DEF Device
<1>f. /\ view \in [page : Nat \ {0}, plotted : Nat] /\ pages \in Seq(Content) /\ valid \in Seq(BOOLEAN)
      /\ Shown(view, pages) /\ Len(valid) = Len(pages) /\ \A i \in 1..Len(pages) : valid[i] <=> pages[i] # << >>
  BY DEF Kinds, Viewed, Stored
<1>8. /\ vpc = "dataReceived" /\ pages # << >> /\ writing = Len(pages) /\ writing \in 1..Len(pages) /\ Len(pages) \in Nat
      /\ vheader.type \in DataTypes /\ ~ vheader.complete /\ ~ complete /\ dpc \notin {"setup", "headerSent", "data", "destructor", "ended"}
      /\ vheader.type = "Locate" => dpc \in {"dataSent", "reply"} /\ header = vheader
  BY <1>f DEF Arriving, Stored, Joint, InHand
<1>j. vheader.amount > 0
  BY <1>8 DEF Joint, InHand
<1>9. /\ pages[writing] \in Content /\ data \in Content /\ Len(pages[writing]) \in Nat /\ Len(data) \in Nat \ {0} /\ data # << >>
      /\ Len(pages[writing]) + Len(data) <= Len(drawn[writing])
  <2>1. pages[writing] \in Content /\ data \in Content /\ data # << >>
    BY <1>8, <1>f DEF Arriving, Kinds
  <2>2. Len(pages[writing]) + Len(data) <= Len(drawn[writing])
    BY <1>8 DEF Arriving
  <2> HIDE DEF IInv, DataReceived
  <2> QED BY <2>1, <2>2 DEF Content
<1> DEFINE whole == pages[writing] \o data
<1>10. /\ whole \in Content /\ Len(whole) = Len(pages[writing]) + Len(data) /\ whole # << >>
       /\ \A k \in 1..Len(whole) : whole[k] = << writing, k >>
  <2>1. \A k \in 1..Len(pages[writing]) : pages[writing][k] = << writing, k >>
    BY <1>8 DEF Stored
  <2>2. \A k \in 1..Len(data) : data[k] = << writing, Len(pages[writing]) + k >>
    BY <1>8 DEF Arriving
  <2> HIDE DEF IInv, DataReceived
  <2>3. /\ whole \in Content /\ Len(whole) = Len(pages[writing]) + Len(data)
        /\ \A k \in 1..Len(whole) : whole[k] = IF k <= Len(pages[writing]) THEN pages[writing][k] ELSE data[k - Len(pages[writing])]
    BY <1>9 DEF Content
  <2> HIDE DEF whole
  <2>4. ASSUME NEW k \in 1..Len(whole) PROVE whole[k] = << writing, k >>
    <3>1. CASE k <= Len(pages[writing])
      BY <3>1, <1>9, <2>1, <2>3
    <3>2. CASE ~ (k <= Len(pages[writing]))
      <4>1. k - Len(pages[writing]) \in 1..Len(data) /\ Len(pages[writing]) + (k - Len(pages[writing])) = k
        BY <3>2, <1>9, <2>3
      <4> QED BY <3>2, <4>1, <2>2, <2>3
    <3> QED BY <3>1, <3>2
  <2>5. whole # << >>
    BY <1>9, <2>3
  <2> QED BY <2>3, <2>4, <2>5
<1> HIDE DEF whole
<1>11. /\ pages' \in Seq(Content) /\ valid' \in Seq(BOOLEAN) /\ Len(pages') = Len(pages) /\ Len(valid') = Len(pages) /\ pages' # << >>
       /\ \A i \in 1..Len(pages) : /\ pages'[i] = IF i = writing THEN whole ELSE pages[i]
                                   /\ i # writing => valid'[i] = valid[i]
       /\ valid'[writing] = TRUE
       /\ UNCHANGED << device, vheader, data, writing, closing >>
  <2>1. pages' = [pages EXCEPT ![writing] = whole] /\ valid' = [valid EXCEPT ![writing] = TRUE]
    BY DEF whole
  <2>2. UNCHANGED << device, vheader, data, writing, closing >>
    OBVIOUS
  <2> HIDE DEF IInv, DataReceived
  <2>3. /\ pages' \in Seq(Content) /\ Len(pages') = Len(pages)
        /\ \A i \in 1..Len(pages) : pages'[i] = IF i = writing THEN whole ELSE pages[i]
    BY <1>f, <1>8, <1>10, <2>1
  <2>4. /\ valid' \in Seq(BOOLEAN) /\ Len(valid') = Len(pages)
        /\ valid'[writing] = TRUE /\ \A i \in 1..Len(pages) : i # writing => valid'[i] = valid[i]
    <3>1. valid \in Seq(BOOLEAN) /\ Len(valid) = Len(pages) /\ writing \in 1..Len(valid) /\ TRUE \in BOOLEAN
      BY <1>f, <1>8
    <3> QED BY <2>1, <3>1, ReplaceOne
  <2>5. pages' # << >>
    BY <2>3, <1>8
  <2> QED BY <2>2, <2>3, <2>4, <2>5
<1>12. \A i \in 1..Len(pages) : valid'[i] <=> pages'[i] # << >>
  BY <1>f, <1>10, <1>11
<1>13. Shown(view, pages')
  <2> HIDE DEF IInv, DataReceived
  <2>1. view.page \in 1..Len(pages) /\ view.plotted <= Len(pages[view.page])
    BY <1>f, <1>8 DEF Shown
  <2>2. CASE view.page = writing
    <3>1. view.page <= Len(pages') /\ pages' # << >> /\ pages'[view.page] = whole /\ view.plotted <= Len(pages[writing])
      BY <1>f, <1>8, <1>11, <2>1, <2>2
    <3>2. view.plotted <= Len(whole)
      BY <1>f, <1>9, <1>10, <3>1
    <3> QED BY <3>1, <3>2 DEF Shown
  <2>3. CASE view.page # writing
    BY <1>f, <1>8, <1>11, <2>1, <2>3 DEF Shown
  <2> QED BY <2>2, <2>3
<1>14. PICK v \in [page : Nat \ {0}, plotted : Nat] : Shown(v, pages') /\ Process(v, pages', valid')
  <2>1. PICK v : v \in {SetPageAndUpdate(view, 0, pages', valid'), view} /\ Process(v, pages', valid')
    OBVIOUS
  <2>2. v \in [page : Nat \ {0}, plotted : Nat] /\ Shown(v, pages')
    <3> HIDE DEF IInv, DataReceived
    <3> QED BY <1>f, <1>11, <1>12, <1>13, <2>1, Updated
  <2> QED BY <2>1, <2>2
<1>15. /\ view' \in [page : Nat \ {0}, plotted : Nat]
       /\ Shown(view', pages')
       /\ vheader.type \in Marks => view'.plotted = Len(pages'[view'.page])
       /\ vpc' = IF vheader.type = "Locate" \/ vheader.complete THEN "loop" ELSE "header"
       /\ locateMode' <=> (vheader.type = "Locate" \/ locateMode)
       /\ complete' <=> (complete \/ vheader.complete)
       /\ timer' \in BOOLEAN /\ locateMode' \in BOOLEAN /\ complete' \in BOOLEAN
  <2>1. Kinds
    OBVIOUS
  <2> HIDE DEF IInv, DataReceived
  <2>2. Len(valid') = Len(pages') /\ writing <= Len(pages') /\ \A i \in 1..Len(pages') : valid'[i] <=> pages'[i] # << >>
    BY <1>8, <1>11, <1>12
  <2> QED BY <1>11, <1>14, <2>1, <2>2, Processed
<1>16. vpc' \in {"loop", "header"}
  BY <1>15
<1>1. Kinds'
  <2>1. Kinds
    OBVIOUS
  <2> HIDE DEF IInv, DataReceived
  <2>2. UNCHANGED << nopause, drawn, position, cursors, status, dpc, header, vheader, data, writing, closing >>
    BY <1>11
  <2>3. vpc' \in {"loop", "header"} /\ locateMode' \in BOOLEAN /\ complete' \in BOOLEAN /\ timer' \in BOOLEAN
        /\ view' \in [page : Nat \ {0}, plotted : Nat] /\ pages' \in Seq(Content) /\ valid' \in Seq(BOOLEAN)
    BY <1>11, <1>15, <1>16
  <2> QED BY <2>1, <2>2, <2>3 DEF Kinds
<1>2. Device'
  BY <1>11 DEF Device, Sending, Begun, Buffer
<1>3. Joint'
  <2>1. Joint
    OBVIOUS
  <2> HIDE DEF IInv, DataReceived
  <2>2. UNCHANGED << dpc, header, vheader >>
    BY <1>11
  <2>3. (locateMode' => vheader.type = "Locate" \/ locateMode) /\ ~ complete' /\ ~ vheader.complete
        /\ vpc' \in {"loop", "header"}
    BY <1>8, <1>15, <1>16
  <2> QED BY <2>1, <2>2, <2>3, <1>8 DEF Joint, InHand
<1>4. Stored'
  <2>1. Stored
    OBVIOUS
  <2> HIDE DEF IInv, DataReceived
  <2>2. UNCHANGED << writing, drawn >> /\ writing = Len(pages)
    BY <1>8, <1>11
  <2>3. ASSUME NEW i \in 1..Len(pages)
        PROVE  /\ Len(pages'[i]) <= Len(drawn[i])
               /\ \A k \in 1..Len(pages'[i]) : pages'[i][k] = << i, k >>
    <3>1. CASE i = writing
      <4>1. pages'[i] = whole
        BY <3>1, <1>11
      <4> QED BY <3>1, <4>1, <1>9, <1>10
    <3>2. CASE i # writing
      BY <3>2, <2>1, <1>11 DEF Stored
    <3> QED BY <3>1, <3>2
  <2> QED BY <2>2, <2>3, <1>11, <1>12 DEF Stored
<1>5. Behind'
  <2>1. Behind
    OBVIOUS
  <2> HIDE DEF IInv, DataReceived
  <2> QED BY <2>1, <1>8, <1>11, <1>16 DEF Behind, Asked, Told, InHand
<1>6. Arriving'
  <2>1. Arriving
    OBVIOUS
  <2> HIDE DEF IInv, DataReceived
  <2>2. Len(pages'[writing]) = Len(pages[writing]) + Len(data) /\ vpc' # "dataReceived"
    BY <1>8, <1>10, <1>11, <1>16
  <2> QED BY <2>1, <2>2, <1>8, <1>9, <1>11 DEF Arriving, Begun
<1>7. Viewed'
  <2>1. Viewed /\ Behind
    OBVIOUS
  <2> HIDE DEF IInv, DataReceived
  <2>2. Shown(view', pages') /\ (vheader.type \in Marks => view'.plotted = Len(pages'[view'.page]))
    BY <1>15
  <2>3. UNCHANGED << status, drawn, dpc, header >> /\ ~ InHand'
    BY <1>11, <1>16 DEF InHand
  <2>4. Ended /\ Begun => vheader.type \in Marks
    BY <2>1, <1>8, <1>j DEF Viewed, InHand, DataTypes, EndTypes, Marks
  <2>5. (Ended' <=> Ended) /\ (Begun' <=> Begun)
    BY <1>11 DEF Ended, Begun
  <2> QED BY <2>2, <2>3, <2>4, <2>5 DEF Viewed, Plotted
<1>20. Leaving'
  <2>1. Leaving /\ vpc # "received"
    BY <1>8
  <2> HIDE DEF IInv, DataReceived
  <2> QED BY <2>1, <1>11 DEF Leaving, Leave
<1> QED BY <1>1, <1>2, <1>3, <1>4, <1>5, <1>6, <1>7, <1>20

\* Turning pages plots the page turned to.
LEMMA ChangePageSteps == IInv /\ ChangePage => IInv'
<1> SUFFICES ASSUME IInv, ChangePage PROVE IInv'
  OBVIOUS
<1> USE DEF IInv, ChangePage, device, viewer
<1>0. Begun => Len(Buffer) \in Nat \ {0} /\ Buffer # << >>
  BY LastPage DEF Device
<1>f. /\ view \in [page : Nat \ {0}, plotted : Nat] /\ pages \in Seq(Content) /\ valid \in Seq(BOOLEAN)
      /\ Shown(view, pages) /\ Len(valid) = Len(pages) /\ \A i \in 1..Len(pages) : valid[i] <=> pages[i] # << >>
  BY DEF Kinds, Viewed, Stored
<1>8. vpc = "loop" /\ vpc' \in {"loop", "closed", "fault"} /\ UNCHANGED << device, vheader, data, pages, valid, writing, locateMode, complete, timer, closing >>
  BY DEF Kinds
<1>9. /\ view' \in [page : Nat \ {0}, plotted : Nat]
      /\ Shown(view', pages)
      /\ pages # << >> /\ view.plotted = Len(pages[view.page]) => view'.plotted = Len(pages[view'.page])
      /\ pages = << >> => view' = view
  <2>1. PICK page \in {view.page + 1, view.page - 1} :
          view' = IF page = 0 /\ view.page > Len(pages) THEN view ELSE SetPageAndUpdate(view, page, pages, valid)
    OBVIOUS
  <2> HIDE DEF IInv, ChangePage
  <2>2. page \in Nat /\ view.page \in Nat \ {0} /\ Len(pages) \in Nat
    BY <1>f, <2>1
  <2>3. CASE page = 0 /\ view.page > Len(pages)
    BY <1>f, <2>1, <2>3
  <2>4. CASE ~ (page = 0 /\ view.page > Len(pages))
    <3>1. view' = SetPageAndUpdate(view, page, pages, valid)
      BY <2>1, <2>4
    <3>2. pages = << >> => page # 0 /\ page > Len(pages)
      BY <1>f, <2>2, <2>4
    <3>3. pages = << >> => view' = view
      BY <3>1, <3>2 DEF SetPageAndUpdate
    <3> QED BY <1>f, <2>2, <3>1, <3>2, <3>3, Updated
  <2> QED BY <2>3, <2>4
<1> HIDE DEF ChangePage
<1>1. Kinds'
  BY <1>8, <1>9 DEF Kinds
<1>2. Device'
  BY <1>8 DEF Device, Sending, Begun, Buffer
<1>3. Joint'
  BY <1>8 DEF Joint, InHand, Kinds
<1>4. Stored'
  BY <1>8 DEF Stored
<1>5. Behind'
  BY <1>8 DEF Behind, Asked, Told, InHand
<1>6. Arriving'
  BY <1>8 DEF Arriving, Begun
<1>7. Viewed'
  BY <1>8, <1>9, <1>f DEF Viewed, Shown, Plotted, Ended, InHand, Begun
<1>20. Leaving'
  BY <1>8 DEF Leaving, Leave
<1> QED BY <1>1, <1>2, <1>3, <1>4, <1>5, <1>6, <1>7, <1>20

\* At the start nothing is drawn, and the viewer's first header is under way.
LEMMA Initially == Init => IInv
<1> SUFFICES ASSUME Init PROVE IInv
  OBVIOUS
<1> USE DEF Init
<1>1. FirstHeader \in HeaderSet
  BY DEF FirstHeader, HeaderSet, Types
<1>2. Kinds
  <2>1. drawn \in Seq(Content) /\ pages \in Seq(Content) /\ data \in Content /\ valid \in Seq(BOOLEAN)
    BY DEF Content
  <2>2. header \in HeaderSet /\ vheader \in HeaderSet /\ view \in [page : Nat \ {0}, plotted : Nat]
    BY <1>1
  <2>3. cursors \in 0..MaxCursors
    BY Bounds
  <2> QED BY <2>1, <2>2, <2>3 DEF Kinds
<1>3. ~ Begun /\ ~ Asked /\ ~ Told /\ ~ InHand /\ Len(drawn) = 0 /\ Len(pages) = 0 /\ Len(valid) = 0
  BY DEF Begun, Asked, Told, InHand
<1>4. Device
  BY <1>3 DEF Device, Sending, Pages, FirstHeader
<1>5. Joint
  BY <1>3 DEF Joint, FirstHeader, InHand
<1>6. Stored /\ Behind /\ Arriving /\ Viewed /\ Leaving
  BY <1>3 DEF Stored, Behind, Arriving, Viewed, Shown, Leaving, FirstHeader
<1> QED BY <1>2, <1>4, <1>5, <1>6 DEF IInv

\* Every step keeps the invariant.
LEMMA Steps == IInv /\ [Next]_vars => IInv'
<1> SUFFICES ASSUME IInv, [Next]_vars PROVE IInv'
  OBVIOUS
<1>1. CASE Program
  BY <1>1, BeginPageSteps, DrawSteps, EscapeSteps, EndPageSteps, FlushSteps, GetCursorSteps, TidySteps DEF Program
<1>2. CASE Returns
  BY <1>2, HeaderSentSteps, DataSentSteps, DestructorSteps DEF Returns
<1>3. CASE Deliver
  BY <1>3, DeliverHeaderSteps, DeliverDataSteps, DeliverReplySteps DEF Deliver
<1>4. CASE Viewing
  BY <1>4, ConstructedSteps, CheckTimerSteps, ReceivedSteps, ReceivedAmountSteps, DataReceivedSteps, ClickedSteps DEF Viewing
<1>5. CASE User
  BY <1>5, ClickSteps, ChangePageSteps, CloseFrameSteps DEF User
<1>6. CASE UNCHANGED vars
  <2>1. UNCHANGED << nopause, drawn, position, status, cursors, dpc, header, vpc, vheader, data, pages, valid,
                     writing, view, locateMode, complete, timer, closing >>
    BY <1>6 DEF vars, device, viewer
  <2>2. Kinds' /\ Device' /\ Joint'
    BY <2>1 DEF IInv, Kinds, Device, Joint, Sending, Begun, Buffer, InHand
  <2>3. Stored' /\ Behind' /\ Arriving' /\ Viewed' /\ Leaving'
    BY <2>1 DEF IInv, Stored, Behind, Asked, Told, InHand, Arriving, Begun, Viewed, Ended, Plotted, Shown, Leaving, Leave
  <2> QED BY <2>2, <2>3 DEF IInv
<1> QED BY <1>1, <1>2, <1>3, <1>4, <1>5, <1>6 DEF Next

-----------------------------------------------------------------------------
\* The invariant holds throughout every session.
THEOREM SessionInvariant == Spec => []IInv
BY Initially, Steps, PTL DEF Spec

\* The state of the device and of the viewer is well typed, and an item drawn is its
\* page and its place there.
THEOREM TypeHolds == Spec => []TypeOK
<1>1. IInv => TypeOK
  <2> SUFFICES ASSUME IInv PROVE TypeOK
    OBVIOUS
  <2>1. DOMAIN valid = DOMAIN pages
    BY DEF IInv, Stored, Kinds
  <2>2. \A i \in DOMAIN drawn : \A k \in DOMAIN drawn[i] : drawn[i][k] = << i, k >>
    <3> SUFFICES ASSUME NEW i \in DOMAIN drawn, NEW k \in DOMAIN drawn[i] PROVE drawn[i][k] = << i, k >>
      OBVIOUS
    <3>1. i \in 1..Len(drawn) /\ drawn[i] \in Content
      BY DEF IInv, Kinds
    <3>2. k \in 1..Len(drawn[i])
      BY <3>1 DEF Content
    <3> QED BY <3>1, <3>2 DEF IInv, Device, Pages
  <2> QED BY <2>1, <2>2 DEF IInv, Kinds, TypeOK
<1> QED BY <1>1, SessionInvariant, PTL

\* The transmitBytes and receiveBytes of the two processes match: never two transmissions
\* at once, data only for a reception of its size, a click only for a device in Locate.
THEOREM CallsMatchHolds == Spec => []CallsMatch
<1>1. IInv => CallsMatch
  BY DEF IInv, Joint, Device, CallsMatch, DeviceTransmits, ViewerTransmits
<1> QED BY <1>1, SessionInvariant, PTL

\* Every page of m_pageBuffers is a beginning of what was drawn on that page, and all of
\* it at the end of pleop and plflush and while plGetCursor waits.
THEOREM PagesArriveHolds == Spec => []PagesArrive
<1>1. IInv => PagesArrive
  <2> SUFFICES ASSUME IInv PROVE PagesArrive
    OBVIOUS
  <2>1. ASSUME NEW i \in 1..Len(pages)
        PROVE  /\ Len(Held(i)) <= Len(drawn[i]) /\ Held(i) = SubSeq(drawn[i], 1, Len(Held(i)))
               /\ Held(i) \in Content
               /\ (vpc = "dataReceived" /\ i = writing => Len(Held(i)) = Len(pages[i]) + Len(data))
               /\ (~ (vpc = "dataReceived" /\ i = writing) => Len(Held(i)) = Len(pages[i]))
    <3> DEFINE h == Held(i)
               d == drawn[i]
    <3>1. pages[i] \in Content /\ data \in Content /\ d \in Content
      BY Counts DEF IInv, Kinds
    <3>2. /\ h \in Content /\ Len(h) <= Len(d) /\ \A k \in 1..Len(h) : h[k] = << i, k >>
          /\ (vpc = "dataReceived" /\ i = writing => Len(h) = Len(pages[i]) + Len(data))
          /\ (~ (vpc = "dataReceived" /\ i = writing) => Len(h) = Len(pages[i]))
      <4>1. CASE vpc = "dataReceived" /\ i = writing
        <5>1. h = pages[i] \o data
          BY <4>1 DEF Held
        <5>2. /\ Len(pages[i]) + Len(data) <= Len(d)
              /\ \A k \in 1..Len(data) : data[k] = << i, Len(pages[i]) + k >>
              /\ \A k \in 1..Len(pages[i]) : pages[i][k] = << i, k >>
          BY <4>1 DEF IInv, Arriving, Stored
        <5>3. Len(pages[i]) \in Nat /\ Len(data) \in Nat
          BY <3>1 DEF Content
        <5>4. /\ h \in Content /\ Len(h) = Len(pages[i]) + Len(data)
              /\ \A k \in 1..Len(h) : h[k] = IF k <= Len(pages[i]) THEN pages[i][k] ELSE data[k - Len(pages[i])]
          BY <3>1, <5>1 DEF Content
        <5> HIDE DEF h, d
        <5>5. ASSUME NEW k \in 1..Len(h) PROVE h[k] = << i, k >>
          <6>1. CASE k <= Len(pages[i])
            BY <6>1, <5>2, <5>3, <5>4
          <6>2. CASE ~ (k <= Len(pages[i]))
            <7>1. k - Len(pages[i]) \in 1..Len(data) /\ Len(pages[i]) + (k - Len(pages[i])) = k
              BY <6>2, <5>3, <5>4
            <7> QED BY <6>2, <7>1, <5>2, <5>4
          <6> QED BY <6>1, <6>2
        <5> QED BY <4>1, <5>2, <5>4, <5>5
      <4>2. CASE ~ (vpc = "dataReceived" /\ i = writing)
        <5>1. h = pages[i]
          BY <3>1, <4>2, NothingMore DEF Held
        <5>2. Len(pages[i]) <= Len(d) /\ \A k \in 1..Len(pages[i]) : pages[i][k] = << i, k >>
          BY DEF IInv, Stored
        <5>3. Len(pages[i]) \in Nat
          BY <3>1 DEF Content
        <5> HIDE DEF h, d
        <5>4. h \in Content /\ Len(h) <= Len(d) /\ \A k \in 1..Len(h) : h[k] = << i, k >>
          BY <3>1, <5>1, <5>2, Zenon
        <5> QED BY <4>2, <5>1, <5>4
      <4> QED BY <4>1, <4>2
    <3>3. \A k \in 1..Len(d) : d[k] = << i, k >>
      BY Counts DEF IInv, Device, Pages
    <3> HIDE DEF h, d
    <3>4. h = SubSeq(d, 1, Len(h))
      <4>1. \A k \in 1..Len(h) : k \in 1..Len(d)
        <5>1. Len(d) \in Nat /\ Len(h) \in Nat
          BY <3>1, <3>2 DEF Content
        <5> QED BY <5>1, <3>2
      <4> QED BY <3>1, <3>2, <3>3, <4>1, Beginning
    <3> QED BY <3>2, <3>4 DEF h, d
  <2>2. ASSUME AllSent PROVE Held(Len(drawn)) = Buffer
    <3>0. Begun /\ (dpc = "dataSent" => header.amount = Len(Buffer) - position)
          /\ (dpc # "dataSent" => Len(Buffer) = position + 0)
      <4>1. Begun
        BY <2>2 DEF AllSent, IInv, Device
      <4>2. Len(Buffer) \in Nat /\ position \in Nat
        BY <4>1, LastPage DEF IInv, Kinds, Device
      <4> QED BY <2>2, <4>1, <4>2 DEF AllSent, IInv, Device, Sending, DataTypes, EndTypes
    <3>1. ~ Asked /\ ~ Told
      BY <2>2 DEF AllSent, IInv, Joint, Asked, Told, EndTypes
    <3>2. Len(pages) = Len(drawn) /\ Len(drawn) \in 1..Len(pages)
      BY <3>0, <3>1, Counts, LastPage DEF IInv, Device
    <3>3. writing = Len(drawn)
      BY <3>2 DEF IInv, Stored, Kinds
    <3>4. Len(pages[writing]) + (IF vpc = "dataReceived" THEN Len(data) ELSE 0)
            = position + (IF dpc = "dataSent" THEN header.amount ELSE 0)
      BY <3>0, <3>2 DEF IInv, Arriving
    <3>5. Len(Buffer) = position + (IF dpc = "dataSent" THEN header.amount ELSE 0)
      <4>1. Len(Buffer) \in Nat /\ position \in Nat
        BY <3>0, LastPage DEF IInv, Kinds, Device
      <4> QED BY <3>0, <4>1
    <3>6. Len(Held(Len(drawn))) = Len(Buffer)
      <4>1. pages[writing] \in Content /\ data \in Content /\ position \in Nat
        BY <3>2, <3>3 DEF IInv, Kinds
      <4>2. Len(pages[writing]) \in Nat /\ Len(data) \in Nat
        BY <4>1 DEF Content
      <4>3. CASE vpc = "dataReceived"
        <5>1. Len(Held(Len(drawn))) = Len(pages[writing]) + Len(data)
          BY <2>1, <3>2, <3>3, <4>3
        <5> QED BY <3>4, <3>5, <4>3, <5>1
      <4>4. CASE vpc # "dataReceived"
        <5>1. Len(Held(Len(drawn))) = Len(pages[writing])
          BY <2>1, <3>2, <3>3, <4>4
        <5> QED BY <3>4, <3>5, <4>1, <4>2, <4>4, <5>1
      <4> QED BY <4>3, <4>4
    <3>7. Buffer \in Seq(Nat \X Nat)
      BY <3>0, LastPage DEF IInv, Device, Content
    <3>8. Held(Len(drawn)) = SubSeq(Buffer, 1, Len(Buffer))
      BY <2>1, <3>2, <3>6 DEF Buffer
    <3> QED BY <3>7, <3>8
  <2>3. DOMAIN pages = 1..Len(pages) /\ Len(pages) <= Len(drawn)
    BY Counts DEF IInv, Kinds
  <2> QED BY <2>1, <2>2, <2>3 DEF PagesArrive
<1> QED BY <1>1, SessionInvariant, PTL

\* When the session is complete and the viewer stays open the page on display is plotted
\* to its end, whichever pages the user turned to.
THEOREM FinallyPlottedHolds == Spec => []FinallyPlotted
<1>1. IInv => FinallyPlotted
  <2> SUFFICES ASSUME IInv, complete, vpc = "loop", ~ closing PROVE view.plotted = Len(pages[view.page])
    BY DEF FinallyPlotted
  <2>1. dpc \in {"headerSent", "ended"} /\ header.type = "Complete"
    BY DEF IInv, Joint, Device
  <2>2. ~ nopause
    BY <2>1 DEF IInv, Kinds, Leaving
  <2>3. Begun /\ Ended /\ ~ InHand
    BY <2>1, <2>2 DEF IInv, Device, Ended, InHand
  <2> QED BY <2>3 DEF IInv, Viewed, Plotted
<1> QED BY <1>1, SessionInvariant, PTL
==============================================================================
