----------------------------- MODULE WxSession -----------------------------
(***************************************************************************)
(* A plotting session of the wxwidgets device: the program that draws      *)
(* (wxPLDevice, drivers/wxwidgets_dev.cpp, driven by plP_bop, plP_eop,     *)
(* plP_esc of src/plcore.c) and the wxPLViewer process (wxPlFrame,         *)
(* utils/wxplframe.cpp) that receives the plot buffer page by page, with   *)
(* the three-semaphore IPC between them.  A transmitBytes and a            *)
(* receiveBytes meet in one step here, as module ByteRendezvous promises   *)
(* and module ThreeSemaphores implements; CallsMatch says that the two     *)
(* programs call them with the discipline that promise needs.              *)
(***************************************************************************)
EXTENDS Naturals, Sequences

CONSTANTS
  Users,        \* users of the viewer, each the set of what this user may do:
                \* "close" the window, turn to another "page" by the menu
  Threshold,    \* the 1024 of ReadTransmission, in plot-buffer items
  MaxPages, MaxItems, MaxCursors   \* bounds on what the program draws

ASSUME SessionAssumption ==
  /\ Users \subseteq SUBSET {"close", "page"}
  /\ Threshold \in Nat
  /\ MaxPages \in Nat /\ MaxItems \in Nat /\ MaxCursors \in Nat

VARIABLES
  user,        \* who sits before the viewer, the same all through the session
  (* the program *)
  nopause,     \* pls->nopause, set before plinit
  drawn,       \* what was drawn, page by page; its last page is the plot buffer
  position,    \* m_localBufferPosition
  status,      \* page_status: "at_bop", "drawing", "at_eop"
  cursors,     \* calls of plGetCursor so far
  dpc,         \* where the device is
  header,      \* its m_header
  (* the viewer *)
  vpc,         \* where the viewer is
  vheader,     \* its m_header
  data,        \* the plot buffer data it received last
  pages,       \* m_pageBuffers
  valid,       \* m_bufferValidFlags
  writing,     \* m_writingPage + 1
  view,        \* m_viewingPage + 1 and m_plottedBufferAmount
  locateMode,  \* m_locateMode
  complete,    \* m_transferComplete
  timer,       \* m_checkTimer is running
  closing      \* Close( 0 ) was called, the frame goes at the next event loop

device == << user, nopause, drawn, position, status, cursors, dpc, header >>
viewer == << vpc, vheader, data, pages, valid, writing, view, locateMode,
             complete, timer, closing >>
vars   == << device, viewer >>

EndTypes  == {"EndOfPage", "EndOfPageNoPause"}
Types     == EndTypes \cup {"Regular", "BeginPage", "Locate", "Complete", "Close", "Flush"}
HeaderSet == [type : Types, amount : Nat, complete : BOOLEAN, locate : BOOLEAN]

Begun      == drawn # << >>
Buffer     == drawn[Len(drawn)]       \* plbuf_buffer up to plbuf_top
\* A plot-buffer item is its page and its place there, so none can be taken
\* for another; what it draws is left out.
Record == [drawn EXCEPT ![Len(drawn)] = Append(@, << Len(drawn), Len(Buffer) + 1 >>)]

\* The first header of the viewer: see its constructor.
FirstHeader == [type |-> "Regular", amount |-> 0, complete |-> FALSE, locate |-> FALSE]

\* The device has launched the viewer and waits in SetupMemoryMap for its
\* header; the viewer's constructor is transmitting it.
Init ==
  /\ user \in Users
  /\ nopause \in BOOLEAN
  /\ drawn = << >> /\ position = 0 /\ status = "at_eop" /\ cursors = 0
  /\ dpc = "setup"
  /\ header = FirstHeader
  /\ vpc = "constructor"
  /\ vheader = FirstHeader
  /\ data = << >> /\ pages = << >> /\ valid = << >>
  /\ writing = 1 /\ view = [page |-> 1, plotted |-> 0]
  /\ locateMode = FALSE /\ complete = FALSE /\ timer = FALSE /\ closing = FALSE

-----------------------------------------------------------------------------
(* The program: TransmitBuffer and its callers.                            *)

\* wxPLDevice::TransmitBuffer up to its first transmitBytes: a type and, but
\* for << >> and Close, the part of the buffer the viewer does not have yet.
\* The destructor sets completeFlag just before it transmits Complete.
TransmitBuffer(type, buffer) ==
  /\ header' = [header EXCEPT
       !.type     = type,
       !.amount   = IF buffer = << >> THEN 0 ELSE Len(buffer) - position,
       !.locate   = IF type = "Locate" THEN TRUE ELSE @,
       !.complete = IF type = "Complete" THEN TRUE ELSE @]
  /\ dpc' = "header"

\* plP_bop: nothing when already there; else wxPLDevice::BeginPage, then
\* plbuf_bop empties the plot buffer and writes the BOP item.  What was drawn
\* on a page that is not ended and was not flushed is never sent.
BeginPage ==
  /\ dpc = "run" /\ Len(drawn) < MaxPages
  /\ status # "at_bop"
  /\ status' = "at_bop"
  /\ position' = 0
  /\ TransmitBuffer("BeginPage", << >>)
  /\ drawn' = Append(drawn, << << Len(drawn) + 1, 1 >> >>)
  /\ UNCHANGED << user, nopause, cursors, viewer >>

\* plP_line, plP_polyline and plP_fill: the calls that set page_status.
Draw ==
  /\ dpc = "run" /\ Begun /\ Len(Buffer) < MaxItems
  /\ status' = "drawing"
  /\ drawn' = Record
  /\ UNCHANGED << user, nopause, position, cursors, dpc, header, viewer >>

\* plP_state, and plP_esc for text, images, clears: the item is recorded and
\* page_status stays, so a page that has ended may have items not sent yet.
Escape ==
  /\ dpc = "run" /\ Begun /\ Len(Buffer) < MaxItems
  /\ drawn' = Record
  /\ UNCHANGED << user, nopause, position, status, cursors, dpc, header, viewer >>

\* c_pleop, and the beginning of plend1: plP_eop unless at the end of the page
\* already, and plP_wait.  The driver's eop ends the page only without pauses,
\* its wait only with them, and then whatever the page status is.
EndPage ==
  /\ dpc = "run" /\ Begun
  /\ nopause => status # "at_eop"
  /\ status' = "at_eop"
  /\ drawn' = IF status = "at_eop" THEN drawn ELSE Record
  /\ TransmitBuffer(IF nopause THEN "EndOfPageNoPause" ELSE "EndOfPage",
                    drawn'[Len(drawn)])
  /\ UNCHANGED << user, nopause, position, cursors, viewer >>

\* c_plflush and wxPLDevice::Flush
Flush ==
  /\ dpc = "run" /\ Begun
  /\ TransmitBuffer("Flush", Buffer)
  /\ UNCHANGED << user, nopause, drawn, position, status, cursors, viewer >>

\* plGetCursor: plP_esc records the escape, then wxPLDevice::Locate.
GetCursor ==
  /\ dpc = "run" /\ Begun /\ cursors < MaxCursors
  /\ cursors' = cursors + 1
  /\ drawn' = Record
  /\ TransmitBuffer("Locate", drawn'[Len(drawn)])
  /\ UNCHANGED << user, nopause, position, status, viewer >>

\* plP_tidy after the plP_eop and plP_wait of plend1, which, without pauses, do
\* nothing at the end of a page and, with them, have just sent all there is:
\* PreDestructorTidy closes the viewer when there are no pauses, then the
\* destructor sends Complete.
Tidy ==
  /\ dpc = "run" /\ Begun
  /\ IF nopause THEN status = "at_eop"
                ELSE header.type = "EndOfPage" /\ position = Len(Buffer)
  /\ TransmitBuffer(IF nopause THEN "Close" ELSE "Complete", << >>)
  /\ UNCHANGED << user, nopause, drawn, position, status, cursors, viewer >>

\* Wrong: the data of a Flush is announced and not sent.
HeaderSentOnly ==
  /\ dpc = "headerSent"
  /\ dpc' = IF header.amount > 0 /\ header.type # "Flush" THEN "data"
            ELSE CASE header.type = "Locate"   -> "reply"
                   [] header.type = "Close"    -> "destructor"
                   [] header.type = "Complete" -> "ended"
                   [] OTHER                    -> "run"
  /\ UNCHANGED << user, nopause, drawn, position, status, cursors, header, viewer >>

\* transmitBytes of the header has returned: on to the data, to the reply of
\* Locate, from Close to the destructor's Complete, or back to the program.
HeaderSent ==
  /\ dpc = "headerSent"
  /\ dpc' = IF header.amount > 0 THEN "data"
            ELSE CASE header.type = "Locate"   -> "reply"
                   [] header.type = "Close"    -> "destructor"
                   [] header.type = "Complete" -> "ended"
                   [] OTHER                    -> "run"
  /\ UNCHANGED << user, nopause, drawn, position, status, cursors, header, viewer >>

Destructor ==
  /\ dpc = "destructor"
  /\ TransmitBuffer("Complete", << >>)
  /\ UNCHANGED << user, nopause, drawn, position, status, cursors, viewer >>

\* Wrong: m_localBufferPosition is not advanced.
DataSentAgain ==
  /\ dpc = "dataSent"
  /\ dpc' = IF header.type = "Locate" THEN "reply" ELSE "run"
  /\ UNCHANGED << user, nopause, drawn, position, status, cursors, header, viewer >>

DataSent ==
  /\ dpc = "dataSent"
  /\ position' = position + header.amount
  /\ dpc' = IF header.type = "Locate" THEN "reply" ELSE "run"
  /\ UNCHANGED << user, nopause, drawn, status, cursors, header, viewer >>

-----------------------------------------------------------------------------
(* The IPC: a transmitBytes meets a receiveBytes.                          *)

DeliverHeader ==
  /\ dpc = "header" /\ vpc = "header"
  /\ dpc' = "headerSent" /\ vpc' = "received"
  /\ vheader' = header
  /\ UNCHANGED << user, nopause, drawn, position, status, cursors, header, data, pages, valid,
                  writing, view, locateMode, complete, timer, closing >>

DeliverData ==
  /\ dpc = "data" /\ vpc = "data"
  /\ dpc' = "dataSent" /\ vpc' = "dataReceived"
  /\ data' = SubSeq(Buffer, position + 1, position + header.amount)
  /\ UNCHANGED << user, nopause, drawn, position, status, cursors, header, vheader, pages, valid,
                  writing, view, locateMode, complete, timer, closing >>

\* The viewer's first header, and its reply to a Locate: the device's m_header
\* becomes a copy of the viewer's.
DeliverReply ==
  /\ dpc \in {"setup", "reply"} /\ vpc \in {"constructor", "click"}
  /\ dpc' = "run"
  /\ vpc' = IF vpc = "constructor" THEN "constructed" ELSE "clicked"
  /\ header' = vheader
  /\ UNCHANGED << user, nopause, drawn, position, status, cursors, vheader, data, pages, valid,
                  writing, view, locateMode, complete, timer, closing >>

-----------------------------------------------------------------------------
(* The viewer.  Everything but the IPC runs in its event loop, "loop".     *)

Constructed ==
  /\ vpc = "constructed"
  /\ vpc' = "loop" /\ timer' = TRUE
  /\ UNCHANGED << device, vheader, data, pages, valid, writing, view, locateMode,
                  complete, closing >>

\* OnCheckTimer enters ReadTransmission, whose first statement that matters
\* is receiveBytes of a header: the event loop stands still until it returns.
CheckTimer ==
  /\ vpc = "loop" /\ timer
  /\ vpc' = "header"
  /\ UNCHANGED << device, vheader, data, pages, valid, writing, view, locateMode,
                  complete, timer, closing >>

\* SetPageAndUpdate( page ); page = 0 stands for its default, size_t( -1 ).
\* Pages are numbered from one here.
PageToShow(v, page) ==
  IF page # 0 /\ page # v.page THEN [page |-> page, plotted |-> 0] ELSE v
PlotPage(v, bufs, flags) ==
  IF flags[v.page] THEN [v EXCEPT !.plotted = Len(bufs[v.page])] ELSE v
SetPageAndUpdate(v, page, bufs, flags) ==
  IF page > Len(bufs) THEN v ELSE PlotPage(PageToShow(v, page), bufs, flags)

\* Wrong: the timer is stopped whatever ended the loop.
NextReceptionStops(mode) ==
  IF vheader.type = "Locate" \/ vheader.complete
  THEN /\ vpc' = "loop"
       /\ locateMode' = mode
       /\ complete' = (complete \/ vheader.complete)
       /\ timer' = FALSE
  ELSE /\ vpc' = "header"
       /\ locateMode' = mode
       /\ UNCHANGED << complete, timer >>

\* Wrong: the end of the transfer is not remembered.
NextReceptionForgets(mode) ==
  IF vheader.type = "Locate" \/ vheader.complete
  THEN /\ vpc' = "loop"
       /\ locateMode' = mode
       /\ timer' = ~ vheader.complete
       /\ UNCHANGED complete
  ELSE /\ vpc' = "header"
       /\ locateMode' = mode
       /\ UNCHANGED << complete, timer >>

\* The loop condition of ReadTransmission, and what follows the loop.
NextReception(mode) ==
  IF vheader.type = "Locate" \/ vheader.complete
  THEN /\ vpc' = "loop"
       /\ locateMode' = mode
       /\ complete' = (complete \/ vheader.complete)
       /\ timer' = ~ vheader.complete
  ELSE /\ vpc' = "header"
       /\ locateMode' = mode
       /\ UNCHANGED << complete, timer >>

\* The statements after the data, if any, has been stored.
Process(v, bufs, flags) ==
  /\ view' = CASE vheader.type = "EndOfPageNoPause" -> SetPageAndUpdate(v, writing, bufs, flags)
               [] vheader.type \in {"EndOfPage", "Locate"} -> SetPageAndUpdate(v, 0, bufs, flags)
               [] OTHER -> v
  /\ NextReception(vheader.type = "Locate" \/ locateMode)

\* Wrong: a page without its flag.
ReceivedNoFlag ==
  /\ vpc = "received" /\ vheader.amount = 0
  /\ IF vheader.type = "BeginPage"
       THEN /\ pages' = Append(pages, << >>)
            /\ writing' = Len(pages')
       ELSE UNCHANGED << pages, writing >>
  /\ closing' = (closing \/ vheader.type = "Close")
  /\ Process(view, pages, valid)
  /\ UNCHANGED << device, vheader, data, valid >>

\* A header without data.
Received ==
  /\ vpc = "received" /\ vheader.amount = 0
  /\ IF vheader.type = "BeginPage"
       THEN /\ pages' = Append(pages, << >>)
            /\ valid' = Append(valid, FALSE)
            /\ writing' = Len(pages')
       ELSE UNCHANGED << pages, valid, writing >>
  /\ closing' = (closing \/ vheader.type = "Close")
  /\ Process(view, pages, valid)
  /\ UNCHANGED << device, vheader, data >>

\* A header with data: no such header begins a page or closes.
ReceivedAmount ==
  /\ vpc = "received" /\ vheader.amount > 0
  /\ vpc' = "data"
  /\ UNCHANGED << device, vheader, data, pages, valid, writing, view, locateMode,
                  complete, timer, closing >>

\* Wrong: a page is called valid when its data comes in one piece only.
DataReceivedNotValid ==
  /\ vpc = "dataReceived"
  /\ pages' = [pages EXCEPT ![writing] = @ \o data]
  /\ valid' = [valid EXCEPT ![writing] = pages[writing] = << >>]
  /\ Process(view, pages', valid')
  /\ UNCHANGED << device, vheader, data, writing, closing >>

DataReceived ==
  /\ vpc = "dataReceived"
  /\ pages' = [pages EXCEPT ![writing] = @ \o data]
  /\ valid' = [valid EXCEPT ![writing] = TRUE]
  /\ LET early == /\ writing = view.page
                  /\ view.plotted + Threshold < Len(pages'[writing])
     IN  Process(IF early THEN SetPageAndUpdate(view, 0, pages', valid') ELSE view,
                 pages', valid')
  /\ UNCHANGED << device, vheader, data, writing, closing >>

\* OnMouse in locate mode: the reply is the last header received, its
\* locateModeFlag reset.
Click ==
  /\ vpc = "loop" /\ locateMode
  /\ vpc' = "click"
  /\ vheader' = [vheader EXCEPT !.locate = FALSE]
  /\ UNCHANGED << device, data, pages, valid, writing, view, locateMode, complete,
                  timer, closing >>

Clicked ==
  /\ vpc = "clicked"
  /\ vpc' = "loop" /\ locateMode' = FALSE
  /\ UNCHANGED << device, vheader, data, pages, valid, writing, view, complete,
                  timer, closing >>

\* OnNextPage and OnPrevPage.  Indexing a vector out of its bounds ends the
\* viewer: "fault".
ChangePage ==
  /\ "page" \in user /\ vpc = "loop"
  /\ \E page \in {view.page + 1, view.page - 1} :
       /\ view' = IF page = 0 /\ view.page > Len(pages) THEN view
                  ELSE SetPageAndUpdate(view, page, pages, valid)
       /\ vpc' = CASE page > Len(pages) -> IF complete THEN "closed" ELSE "loop"
                   [] page = 0 /\ view.page > Len(pages) -> "fault"
                   [] OTHER -> "loop"
  /\ UNCHANGED << device, vheader, data, pages, valid, writing, locateMode,
                  complete, timer, closing >>

\* The frame is destroyed: by Close( 0 ) or by the user.
CloseFrame ==
  /\ vpc = "loop" /\ (closing \/ "close" \in user)
  /\ vpc' = "closed"
  /\ UNCHANGED << device, vheader, data, pages, valid, writing, view, locateMode,
                  complete, timer, closing >>

-----------------------------------------------------------------------------
Program == BeginPage \/ Draw \/ Escape \/ EndPage \/ Flush \/ GetCursor \/ Tidy
Returns == HeaderSent \/ DataSent \/ Destructor
Deliver == DeliverHeader \/ DeliverData \/ DeliverReply
Viewing == Constructed \/ CheckTimer \/ Received \/ ReceivedAmount \/ DataReceived \/ Clicked
User    == Click \/ ChangePage \/ CloseFrame

Next == Program \/ Returns \/ Deliver \/ Viewing \/ User

\* The operating system runs both processes, the timer fires while it is on
\* and the event loop is free, and a click in locate mode comes at some time.
\* Nothing is assumed of the program, which may stop making calls.
Fairness ==
  /\ WF_vars(Returns) /\ WF_vars(Deliver)
  /\ WF_vars(Viewing) /\ WF_vars(Click)
  /\ WF_vars(CloseFrame /\ closing)

Spec == Init /\ [][Next]_vars /\ Fairness
-----------------------------------------------------------------------------
(* Properties.                                                             *)

TypeOK ==
  /\ \A i \in DOMAIN drawn : \A k \in DOMAIN drawn[i] : drawn[i][k] = << i, k >>
  /\ position \in Nat /\ cursors \in 0..MaxCursors
  /\ status \in {"at_bop", "drawing", "at_eop"}
  /\ dpc \in {"setup", "run", "header", "headerSent", "data", "dataSent",
              "reply", "destructor", "ended"}
  /\ header \in HeaderSet /\ vheader \in HeaderSet
  /\ vpc \in {"constructor", "constructed", "loop", "header", "received", "data",
              "dataReceived", "click", "clicked", "closed", "fault"}
  /\ DOMAIN valid = DOMAIN pages
  /\ view \in [page : Nat \ {0}, plotted : Nat] /\ writing \in Nat \ {0}
  /\ {locateMode, complete, timer, closing} \subseteq BOOLEAN

DeviceTransmits == dpc \in {"header", "data"}
ViewerTransmits == vpc \in {"constructor", "click"}

\* The discipline the channel needs: the two processes never transmit at the
\* same time (each would wait for the other to receive), and a reception of
\* data, whose size the viewer takes from the last header, only ever waits for
\* data of exactly that size.  The viewer transmits from its only thread, so a
\* click is never answered to a device that is not in Locate any more.
CallsMatch ==
  /\ ~ (DeviceTransmits /\ ViewerTransmits)
  /\ vpc = "data" => dpc \in {"headerSent", "data"} /\ header.amount = vheader.amount
  /\ dpc = "data" => vpc \in {"received", "data"} /\ header.amount = vheader.amount
  /\ vpc = "click" => header.type = "Locate" /\ dpc \in {"dataSent", "reply"}

\* What the viewer holds of a page, the data it has received but not yet
\* stored included.
Held(i) == pages[i] \o (IF vpc = "dataReceived" /\ i = writing THEN data ELSE << >>)

\* A TransmitBuffer with the plot buffer has nothing more to send: the end of
\* pleop or plflush, and plGetCursor when it begins to wait for its reply.
AllSent ==
  \/ dpc \in {"dataSent", "reply"}
  \/ dpc = "headerSent" /\ header.amount = 0 /\ header.type \in EndTypes \cup {"Flush", "Locate"}

\* The viewer's copy of a page is always a beginning of what the program drew
\* on that page: nothing lost, repeated, reordered or put on another page.  At
\* the end of pleop and plflush, and while plGetCursor waits, it is the whole
\* page so far, what was drawn after an earlier end of that page included.
PagesArrive ==
  /\ Len(pages) <= Len(drawn)
  /\ \A i \in DOMAIN pages : /\ Len(Held(i)) <= Len(drawn[i])
                             /\ Held(i) = SubSeq(drawn[i], 1, Len(Held(i)))
  /\ AllSent => Held(Len(drawn)) = Buffer

\* Once the session is complete and the viewer stays open for its user, the page
\* on display is plotted to its end, whichever pages the user turned to and when.
\* (Without pauses Close( 0 ) comes first: the frame goes at the next event loop,
\* and text flushed after the last end of page may never be plotted.)
FinallyPlotted ==
  complete /\ vpc = "loop" /\ ~ closing => view.plotted = Len(pages[view.page])

Gone == vpc \in {"closed", "fault"}

\* While the viewer lives, every TransmitBuffer of the device returns.
TransmissionReturns == DeviceTransmits ~> (~ DeviceTransmits \/ Gone)

\* The end of the program is seen by the viewer, which then stops its timer
\* and answers to its user again, or goes.
SessionCompletes ==
  (dpc = "header" /\ header.complete) ~> ((complete /\ vpc = "loop") \/ Gone)

\* plGetCursor waits for a graphics input event and returns: while the user
\* keeps clicking, a Locate is answered.
LocateAnswered == (dpc = "reply") ~> (dpc # "reply")
=============================================================================
