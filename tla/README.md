# PLplot: a verification development

PLplot is a C library that draws scientific plots through loadable drivers. This
directory holds TLA+ models of the parts of it that keep state, talk to other
processes, or replay what was drawn, with the TLC configurations that check them
and TLAPS proofs of what matters most. Every definition is translated from the
code; `PROJECT.json` ("map") names the lines of each.

## 1. The system

### Components, their state and operations

| Component | Code | State | Operations |
|---|---|---|---|
| Streams and driver dispatch | `src/plcore.c` | `plsc` (the current stream), `pls[]`, and in each `PLStream` its level, `page_status`, attributes, filter `difilt`, dispatch table | `plinit`, `plsstrm`, `plmkstrm`, `plcpstrm`, `plend1`, `plend`; `plP_bop/eop/state/esc/line/...` |
| Pages and subpages | `src/plpage.c` | `cursub`, `nsubx`, `nsuby`, the subpage's limits | `pladv`, `plbop`, `pleop`, `plclear`, `plGetCursor` |
| Colours and attributes | `src/plctrl.c`, `src/plsdef.c`, `src/plsym.c` | `cmap0`, `cmap1`, `icol0`, `icol1`, `curcolor`, `width`, `chrht`, `symht`, `fci` | their setters |
| Plot buffer | `src/plbuf.c` | `plbuf_buffer`, `plbuf_top`, `plbuf_readpos`, `plbuf_write`, `plbuf_read` | recording of every dispatch call, `plRemakePlot`, `plFlushBuffer`, save, restore, switch |
| wxWidgets IPC | `drivers/wxwidgets_comms.cpp` | three named semaphores and a shared memory of one chunk (or a ring buffer in the other build) | `transmitBytes`, `receiveBytes` |
| wxWidgets device | `drivers/wxwidgets.cpp`, `drivers/wxwidgets_dev.cpp` | `m_localBufferPosition`, `m_header` | `BeginPage`, `EndPage`, `Flush`, `Locate`, the destructor |
| wxPLViewer | `utils/wxplframe.cpp` | `m_pageBuffers`, `m_bufferValidFlags`, the pages written and viewed, `m_plottedBufferAmount`, `m_locateMode`, `m_transferComplete`, the check timer | timer, reception, mouse, menus |
| X driver | `drivers/xwin.c` | `XwDev` of each stream, the `XwDisplay` with its event queue, an events thread for each stream, `events_mutex` | drawing, `WaitForPage`, exposes, resizes, keys, the closing of a window, the end of a stream |
| Tk driver and its link | `drivers/tk.c`, `bindings/tk/tcpip.c` | a `PDFstrm` of commands, a fifo or socket, the chain `partial[fd]` of what was put back | `pl_PacketSend`, `pl_PacketReceive`, `ReadData` |
| plframe widget | `bindings/tk/plframe.c` | the `PlFrame`: flags of what is to be done, sizes, crosshairs, rubber band, link | X event handlers, idle callbacks, widget commands |
| Strip charts | `src/plstripc.c` | `strip[]`, the points of its pens, its window | `plstripc`, `plstripa`, `plstripd` |
| Other drivers | `drivers/*.c` | file and window handles | translation of dispatch calls |
| Time, interpolation, contours, 3-D | `lib/qsastime`, `lib/nn`, `lib/csa`, `src/plcont.c`, ... | arrays | mostly floating point geometry |

### How they interact

A program calls the API; the API changes the current stream and calls the
dispatch layer `plP_*`. This calls the driver, which reads the attributes from
the stream while it draws, and, when `plbuf_write` is set, records the call in
the plot buffer. An interactive driver redraws a window that is exposed or
resized by replaying the buffer: `plFlushBuffer` makes the stream current, reads
record after record and calls the same dispatch layer.

The drivers differ in who does this, and when:

* The wxWidgets device draws nothing itself: it sends the plot buffer, piece by
  piece, to a viewer process, which keeps a copy for each page and replays it into
  its window. The two processes share a memory of one chunk and three semaphores. The
  viewer has one thread: while it waits for a transmission, its window is dead.
* The X driver has a thread for each stream, in the same process, that answers
  exposes and resizes while the program is busy. One mutex is around the driver's
  functions, but not around the library's.
* The tk driver writes its commands to a fifo or a socket; plserver reads them when
  Tk finds the link readable, and a plframe widget in plserver draws them. The widget's
  own redraws are noted in flags and done by idle callbacks.

### What is hard

* two processes, thirteen kinds of steps, three semaphores, and a decision
  (`areWriteReadSemaphoresBlocked`) that is not atomic;
* framing: how much a receiver expects was in the header before; chunks, and packets
  that arrive in pieces, are put together on the other side;
* the device blocks in a transmission or in `Locate` until the viewer's event loop
  gets to it, and the event loop blocks in receptions;
* pages, flushes, cursor requests and the end of a program come in any order, and
  the user may turn pages or close the window in between;
* a replay runs through the live stream at a time nobody chose, and what it
  redraws depends on what had been saved, what recorded and what neither;
* a thread draws on the program's stream, takes events from the program's queue, and
  is cancelled while it may hold the mutex, or wait for it;
* streams are created, selected, copied and ended in any order, while global
  variables say which is current and pointers say whose buffer is whose;
* idle callbacks that are queued once and relied on many times; a widget that is destroyed
  while some are queued; crosshairs that are erased by drawing them again.

What makes each part correct, in a line: a transmission arrives whole, once and
in order; no process waits for ever for the other; the viewer's copy of a page is a
beginning of the page, and the whole page when the page is ended; a replay draws
what the program drew, and leaves the stream as it was; each buffer has one owner;
one thread draws at a time and each window shows its own lines; a refresh that is
asked for is done, and only once; a chart shows the points that it keeps.
`PROJECT.json` lists the hazards line by line with the properties that cover them.

## 2. The modules

| Module | Models |
|---|---|
| `ByteRendezvous` | what `transmitBytes` and `receiveBytes` promise: an abstract specification |
| `ThreeSemaphores`, `MCThreeSemaphores` | how they do it, statement by statement, in two processes; an instance with three bytes, payloads of up to three, an area of two |
| `ThreeSemaphores_proof` | proofs for every instance: the control, the bytes, the steps of the refinement |
| `WxSession`, `WxSession_proof` | the device and the viewer above that channel, with proofs |
| `PlotStream` | a stream as the buffer sees it: attributes, dispatch, recorder and reader (operators only) |
| `PlotReplay`, `MCPlotReplay`, `PlotReplay_proof` | programs with several streams, and replays between any two calls; with proofs for every number of streams and every buffer |
| `Streams`, `Streams_proof` | the life of streams and the owners of their buffers, with proofs |
| `XwinEvents`, `MCXwinEvents`, `XwinEvents_proof` | the X driver's windows and threads, with proofs |
| `TkChannel` | what the link between the tk driver and plserver promises: an abstract specification |
| `TkPackets`, `TkPackets_proof` | how the link does it, read by read and write by write, with proofs and the steps of the refinement |
| `PlFrame`, `MCPlFrame`, `PlFrame_proof` | the plframe widget in Tk's event loop, with proofs |
| `StripChart`, `MCStripChart`, `StripChart_proof` | strip charts, with proofs |

A definition with a comment "Wrong:" is a plausible bug of the definition that
follows it; `PROJECT.json` ("mutants") says which property
notices it. They take no part in the specifications.

### ThreeSemaphores

`wsem`, `rsem`, `tsem`, `nbytes`, `hdata`, `bdata` are the semaphores and the shared
memory; `pc[p]`, `buf[p]`, `first[p]`, `count[p]`, `chunkBytes[p]`, `total[p]` are a
process's place in the two functions and their locals. An action is one semaphore
operation, or the statements on the shared memory between two of them:
`WaitTransmit, CheckBlockedAtStart, PostWriteToStart, WaitWrite, FillShared, PostRead,
WaitLast, CheckBlockedAtEnd, PostTransmit` for `transmitBytes`, `WaitRead, TakeShared,
PostWrite, PostWriteLast` for `receiveBytes`. The check of both semaphores reads them in
one step: it is made while the transmit semaphore is held and neither is moved
then, which `ControlInvariant` proves. The callers are any sequence of calls with the
discipline of the programs: the device's header names the data that follows it
(`pending`), the viewer receives what the last header named (`owed`), and only the device
sends data. Every throw leads to the label `threw`. A header is one unit; the bytes
of the area that a shorter piece does not overwrite stay.

`ByteRendezvous` is the specification it implements: an outstanding transmission
and an outstanding reception meet, the receiver gets exactly the bytes, and only then
does the transmitter return. The mapping (`CallOf`) places the meeting at the
receiver's last post.

### WxSession

A transmission and a reception meet in one step here (`DeliverHeader`, `DeliverData`,
`DeliverReply`), as `ByteRendezvous` promises; `CallsMatch` is the discipline that the
promise asks of the callers, so that the two modules compose. The device's actions are
the API calls with all they do up to the first `transmitBytes`, then the
continuations (`HeaderSent`, `DataSent`). The viewer's are what its event loop does
between two receptions. A drawing is an item `<<page, number>>`, so that no item can be taken
for another. `Threshold` is the 1024 bytes of `ReadTransmission`. `Draw` is a line, polyline or
fill, which makes the page one that is being drawn; `Escape` is text, an image, a clear
or a state, which is recorded and leaves the page status, so that after `pleop` a page
may have items that were not sent. Without pauses a second `pleop`, or `plend`, does not send
them, as `plP_eop` returns early; with pauses the driver's `wait` does.
`PagesArrive` therefore promises the whole page where everything was to be sent
(`AllSent`: after a `pleop` that was carried out, a `plflush`, and in a `plGetCursor`), and
`FinallyPlotted` leaves out the viewer that closes itself (without pauses).

### PlotStream and PlotReplay

A stream is a record; an operation is an operator on it. `buffer` holds one item for
a record of the plot buffer; `canvas` holds what the driver shows, a mark for each
drawing with the attributes the driver reads from the stream when it draws;
`drawn` is not in the code: the marks of the program's own calls since the page
began. `PlotReplay` lets a program call anything on the current stream, select
streams, and lets a replay of any stream begin between two calls
(`PlRemakePlot, ReplayItem, ReplayEnd`: one step for each record). A replay does not
overlap a call: the drivers replay from event handlers that run when the
program is in the library's event processing or in its own. The attributes are those of
the constants: colour maps of two colours, widths, text sizes, fonts and rotations.
`plwidth` under `-width` (`widthlock`) changes the stream and records nothing.
Attributes that behave as the width does (fill patterns) and drawings that
behave as a line does (polylines, fills, images) are not repeated. What
`plP_subpInit` records just before `plbuf_bop` empties the buffer is in the model and lost, as in
the code.

### Streams

`lib` is `pls[]`, `ipls`, `lib_initialized` and the heap of plot buffers, so that a
pointer is a block and `free` takes a block away. A stream keeps its level, device, page
status, buffer pointer and length, and what its device shows. Two kinds of device stand for
the drivers: `screen` records (`plbuf_write`), `psttf` keeps a document. `plmkstrm` calls
`plstrm_init` for the current stream even when no stream is free, and that loses the
document (`psdoc`): the driver's next call uses a null pointer, so such a state has no
successor. The actions are the API calls; `plend` ends
stream after stream (`PlendStep`), as its loop does. `ReplotShows` follows a copy:
`copy` is the page that `plcpstrm` copied, as long as nothing was added to it.

### XwinEvents

`pls` has the stream and the `XwDev` together: the recorded lines, `plbuf_write` and
`plbuf_read`, the pixmap (`canvas`, each line with the width it was scaled to), from which
the window is refreshed, `nopause` and `stream_closed` (`closed`), which a delete message of the
window manager sets, and whether `plend1` has not freed the stream (`open`). `blank` are the
areas of each window that show nothing: an expose names one, and `ExposeCmd` copies it from
the pixmap of the stream that is given the event, a resize refreshes the whole window, and
`plD_bop_xw` clears it. The user and the server (`User`) expose, resize and close windows and press
keys, at any time.
`main` is the program's place in a driver call, from the moment the library has
read `plsc` (`LineCall`, `Call`) to the unlock; `LineRecord` and `LineCall` are apart since no mutex
is held between them. `thread[p]` is the events thread: `new`, at the `loop`, with the mutex
(`held`, `expose`, `replay`, `drop`, `unlock`), at its `sleep`, or `dead`. A replay by a thread goes
record by record (`ThreadReplay`), on the stream that is current then. A replay by
the program itself is one step, as it holds the mutex and nobody else can see it begun. After
a resize the exposes and resizes that the window has queued are dropped (`ResizeDrop`,
`ThreadDrop`), in a step of its own, since the user may cause another in between.
A cancel is pending until the thread is at a point where it acts: anywhere once
the thread has made itself asynchronous. That it never strikes a thread that holds the
mutex, since the canceller holds it, is part of `OneDraws`.
All windows' events share `queue`, and `WaitForPage` gives each
to the current stream's handler, whoever's it is, as the code does: an expose of another
window is taken off the queue and leaves that window blank.
`Tidy` releases the mutex, and `Close` is the rest of `plend1`, which reads `plsc` again: a
thread of another stream may have moved it meanwhile. Then `plend1` frees a stream whose
window and thread are alive, `main` is at `lost`, and the model goes no further.
The five programs of `MCXwinEvents` are one stream with a thread, two without threads, two with, and
with windows that keep their size one stream with a thread and two that do not pause.

### TkChannel and TkPackets

`TkPackets` is the link byte by byte: a command is its bytes, marked with its number
and place, so that a byte that is lost, repeated or moved is seen. Commands write to the
`PDFstrm`: lines, polylines and states (`Draw`) send it when it has more than `bufmax`
bytes, the end of a page, a flush and `PLESC_DI` (`EndOfPage`) always, the beginning of a page, fills
and the other escapes (`Escape`) never, so that fills alone let it grow without bound. `loose` counts
the bytes written since the limit was looked at, and `TypeOK` says that the rest is within it. `Write` is `write()`, of which the kernel takes a
piece, except from a short write to a fifo, which is atomic. `ReceiveHeader` and
`ReceiveBody` are the two reads of `pl_PacketReceive`, with `pl_Unread` of what came
too early. `Die` is the program's death at any point, the middle of a `write()`
included. `errno` after the end of the link is left over from an earlier call, so that
`ReadError` may close the link or not, and never closes a socket. `TkChannel` is
what this promises: packets arrive in order, whole, and once `pl_PacketSend` has returned, they
arrive even if the program dies.

### PlFrame

`server` is the window at the X server with what it shows; `frame` is the `PlFrame`; `queue` are
the X events on their way; `idle` the callbacks that Tk runs now and those queued
for later. The actions are the handlers (`ConfigureNotify`, `MapNotify`, `Expose`,
`Motion`, `Enter`, `Leave`, ...), the two callbacks (`PlFrameInit`, `DisplayPlFrame`, in
`IdleRuns`), the script's commands, and the user's and the server's acts.
`updating` counts the nested event loops of `MapNotify`'s `update`. `seen` holds the places where
a cross or a band can be seen: drawing by xor at a place where there is one erases it. A
`view` is what the commands `view`, `orient` and the scrolls change before they end
in a redraw. `Worlds` says which of the commands and acts a script and its user
use; `MCWorlds` has seven, each a combination that interacts.

### StripChart

`strip` holds the charts, `shown` the lines the device shows of each
pen. `Plstripa` adds a point and goes one of four ways: the chart slides (`Slid`), it
accumulates (`Accumulated`), it is drawn anew because y left its range, or a line is
drawn in the window there is. Without memory for more points the chart is deleted
(`PlstripaNoMemory`). Numbers are integers: a length, a jump in per cent,
a range extended by a tenth, rounded up. The search for the first point to keep has no
bound in the code; where it would leave the pen's points the model stops (`overrun`),
since what it reads then is not defined.

## 3. The runs

| Run | Question | Bounds |
|---|---|---|
| `semaphores` | Do the semaphores implement the rendezvous, in safety and liveness? | Payloads of 0 to 3 bytes over an area of 2: no data, less than a chunk, exactly one, one and a half. The calls repeat without bound. |
| `session` | Does a session keep the viewer's copy right and end: with pauses and with `nopause`, alone, and with a user who turns pages and may close the window? | 3 pages, 3 items, 2 cursor requests: a page with every mixture of drawing, text, flush, locate and end, twice turned; 2.0 million states |
| `session_locate` | Is a `Locate` answered? **No** | 2 pages |
| `replay` | Is a replay faithful and without effect? Do other streams notice, is the buffer only read? | five programs: colours and maps; widths, text, symbols, fonts, clears and pages on two subpages; lines, clears and subpages on a longer page; two streams with the calls a replay does not follow; two of which one was started with `-width`. Buffers of 5, 5, 8, 3 and 3 records and those of one more call, any number of pages; 6.8 million states |
| `streams` | Is there always a current stream; has each buffer one owner; can a copy be drawn; does `plend` leave nothing? | 3 streams, 2 devices, 2 blocks, 2 drawings: a copy of a copy, and a stream ended between |
| `xwin` | Does one draw at a time, does a window show what was recorded, is what an expose left blank drawn again, does the end of a stream return and leave no thread at work on it? | the five programs: 2 lines and 3 events, 2 and 2, 1 and 2, and with one width 1 and 3, 1 and 2; two widths, so a resize and one back; 3.1 million states |
| `xwin_plots` | Does a window show only its own lines? **No** | first counterexample |
| `link` | Do packets arrive, in pieces and when the program dies? | header of 2 bytes, commands of 1 and 2, a buffer of 2, a pipe of 5 of which 3 at once: packets that are atomic and that are not, two in the pipe, and every cut of a header |
| `frame` | Is no refresh forgotten, is what is shown what was asked for, does the event loop come to rest? | seven worlds, two sizes, two places, 6 acts of script and user |
| `frame_freed` | Is a freed widget never used? **No** | 5 acts |
| `strips` | Is each kept point in the window and drawn, is none lost in it? | two pens, a chart at a time, 5 points of 6 times and 3 heights: rescale, slide twice, slide over a gap; room for 2 points, growing by 1 |
| `strips_pens` | May pens have points at different times? **No** | first counterexample |

The runs that end with **No** state what a comment or document of the repository says;
`PROJECT.json` ("findings") quotes it. In short:

* A click must be handled before the next tick of the check timer, or a `Locate` is a
  deadlock of two processes: the timer goes on after the `Locate` header and its tick
  blocks the viewer's only thread in a reception.
* With two streams and events threads, a thread that answers its window's
  resize makes its stream the current one while the program, which reads `plsc` without
  the mutex, is about to draw on the other: the line appears in the wrong window.
* A plframe widget that is destroyed after its window was mapped and before the idle callback
  `PlFrameInit` has run is used after it was freed: nothing cancels that callback.
* When a strip chart slides, a pen all of whose points lie before the new window
  makes the search run past its points.

Other divergences that the models contain, and that are kept out of the
statements of the runs that pass, where they are seen in the properties' conditions or in the
programs that are chosen:

* A page on which only text was drawn is still "at the beginning of a page", so its replay is
  drawn on top of it; a replay leaves the character height and the font of the last
  text record behind; a page begun rotated and rotated differently later is replayed wrongly
  (the flag is saved, the rotation is not). A page is cleared before the
  first `pladv` or `plbop` with limits that no record holds (the stream's blank ones), so a replay
  after the first subpage was set clears another area. `replay` excludes these from
  `ReplayRegenerates` and `ReplayRestores` (`Begins`, `Faithful`, `InSubpage`).
* Under `-width` the comment at `plstrm.h:135` says that the pen width is locked; `plwidth` changes
  the stream's width and only does not record it (`Plwidth`), so that what is drawn afterwards
  replays with the old one. `Faithful` leaves out programs that call it on such a stream.
* A page whose last items are text or states after its `pleop` is not sent by a second `pleop` or
  by `plend` without pauses.
* `plend1` may free another stream than the one it has tidied, when an events thread has moved
  `plsc` (`Close`, "lost"); `ThreadsEnd` says that it takes several streams with threads.
* An expose that `WaitForPage` gives to another stream, or that comes between the refresh of a resize and
  the end of `ResizeEH`, leaves its window blank. `ShowsRecorded` promises that a blank
  area has its expose queued for programs whose windows keep their size and that have one
  window or do not pause.
* `plscmap0` with a bad entry changes the map without recording it (`Plscmap0Aborted`).
* The viewer's previous-page menu before the first page came indexes an empty vector
  (`ChangePage`, "fault").
* `plmkstrm` when all streams are in use loses the document of the current one's driver
  (`Works`);
  `plcpstrm` of a stream onto itself copies memory nobody has written (`Junk`), and
  onto a stream that has a buffer leaves the old one behind (`Leaked`).
* A socket whose other end is closed is not closed by `ReadError`, and its handler stays.
* A plframe shows another size than its window's after a configure command that the geometry
  manager did not grant, or when `plinit` measured a window of which Tk had not yet heard
  (`early`).

Deadlock is not checked where the system really stops: a program may stop making
calls, and a session, a link or a widget ends. `replay` checks it. Liveness
(`TransmissionReturns`, `SessionCompletes`, `ImplementsRendezvous`,
`ImplementsChannel`, `TidyReturns`) says what must happen instead. `LoopEnds` needs
no fairness: every step of Tk's loop makes a measure smaller.

The larger bounds add nothing new in kind: a chunk sequence or a packet has a first, a
middle and a last piece; a page is the first, a middle one or the last; two records that
do not commute are a pair; two streams share what streams share; a pen that gets
points and one that does not are two pens.

### Fairness

`ThreeSemaphores` assumes that each process goes on with a transfer it has begun
(weak fairness of `Transfer(p)`): the operating system runs both, and a wait on a
semaphore is a guard, so a process that waits is not asked to go on. Weak fairness
is enough, as nobody else takes a semaphore a process waits for. Nothing makes a process
begin a call. `WxSession` assumes that the device's calls return when they can, that
the viewer's event loop runs, its timer fires while it is on (a repeating
`wxTimer`), and that a user who was asked for a click clicks at some time; a window that
was told to close closes. Nothing is assumed of the program or of the menus.
`TkPackets` assumes that plserver's event loop calls `ReadData` while the link is readable, and
nothing of the program, which may be stopped or die. `XwinEvents` assumes that a
thread that was created begins to run, that a cancel that is pending and allowed is
acted upon, and that `pthread_join` returns when the thread has ended; not that
a thread ever gets the mutex, nor that the program goes on drawing.

## 4. The proofs

Everything that is proved holds for every value of the constants that the modules'
assumptions (`ThreeSemAssumption`, `SessionAssumption`, `StreamAssumption`, `ReplayAssumption`,
`StreamsAssumption`, `XwinAssumption`, `LinkAssumption`, `PlFrameAssumption`,
`StripAssumption`) allow; TLC evaluates them for the instances.

**The semaphores.** `TurnTaking` and `OneTransmitter` are not inductive: they say
nothing of the semaphores' values at the other places of the code. `Control` is:
`Transmitters` counts the transmit semaphore against the one process past its wait, and `Turn`
says where the turn is, with the transmitter, in one of the two semaphores, or with the
receiver. `ControlTransfer` goes through the thirteen statements;
`ControlInvariant` gives `TurnTakingHolds` and `OneTransmitterHolds`.
`Bytes` strengthens it with the data. `Sending` and `Taking` relate what the transmitter has
sent, the chunk in the area and what the receiver holds: `Taken` is the number of bytes on the
receiver's side, wherever the chunk is. `Framing` relates the running call to `pending` and
`owed`; without it the receiver's check against its capacity could throw. There is one lemma
for each statement; `BytesInvariant` gives `TypeHolds`, `NoThrowHolds` and
`ReceivedIsPrefixHolds`. `ImplementsRendezvousSteps` is the safety part of
`ImplementsRendezvous`: a call begins one of the rendezvous (`Begins`), the receiver's last post
is the delivery (`Meets`), the transmitter's last post the return (`Returns`), and the
other statements leave what `CallOf` shows as it is (`TransmitterUnseen`,
`ReceiverUnseen`). `Meets` is where `Bytes` is needed: the receiver's buffer is the
whole payload then.

**The session.** `CallsMatch` and `PagesArrive` say nothing of the time between a header and
what it announces. `Device` says what the header in hand claims about the page that is
drawn; `Joint` which places of the device and of the viewer go together, and that both
have the same header in hand; `Stored` and `Behind` that the viewer's pages are beginnings
of the device's and how many are missing, which depends on the `BeginPage`s that are under way;
`Arriving` that what is received and not yet stored continues the page where `position`
says. `Viewed` adds for `FinallyPlotted` that the page on display is plotted to its end
after an end of page unless a header that will do it is in hand; `Leaving` that without pauses the viewer is told to close before the
session is complete. Nothing is claimed of the page status at the end of a page, which does
not say what was sent: `Device` takes that from the amount in the header. There is a lemma for
each action. They give `TypeHolds`, `CallsMatchHolds`, `PagesArriveHolds` and
`FinallyPlottedHolds`, for every `Threshold`, every number of pages and items, and every turning
of pages by the user.

**The Tk link.** `CommandsWhole` speaks of what has arrived; what arrives next depends
on every byte that is under way. `UnderWay` says that the bytes in `partial[fd]`, in the pipe and
still to be written, taken together (`flow`), are the packets from the one that
plserver is at (`Carries`): `start[i]` is where packet `i` begins, so that no statement about
concatenated sequences of sequences, and no induction over them, is needed. A header is read
where one begins and a body has its header's length; that is what `ReceiveHeader` and
`ReceiveBody` need, wherever a read was cut. `Lost` is the one exception: the program died in the
middle of a `write`, and plserver has given the piece up. The limit of the buffer is a
fact of each command: `Draw` and `EndOfPage` leave nothing that was not compared with it, and
`Escape` adds to `loose` what it adds to the buffer. They give `TypeHolds`,
`CommandsWholeHolds`, `NothingStrandedHolds`, and `ImplementsChannelSteps`, the safety part of
`ImplementsChannel`.

**Replays.** For every number of streams, every mixture of calls and buffers of any length.
`ReplayIsLocal` speaks of the moment a replay ends; `Located` says of every moment
before it that the replayed stream is the current one, which the readers, who work on the
current stream, need. `ReplayReadsOnly` needs of every operation that a stream with `plbuf_write`
off keeps it off and keeps its buffer (`Kept`). There is a lemma for each operation, up to
`ControlKeeps` for the whole reader, and `ReadingStep` goes through the actions. The
program's own calls are covered by the same lemmas, because they must leave the stream one
that has a buffer (`Buffered`). `TypeHolds` needs, besides, that a replay is inside a buffer that stays
(`Playing`), that every record is of one of the kinds the reader knows with values an attribute may have
(`Typed`), and that what a stream shows begins with a page (`Paged`).
`ReplayRegenerates` and `ReplayRestores` compare the end of a replay with what the program did, over
all records of a buffer, and the replay knows only those it has read. The link is a history:
`Told(b, h)` says that `h` gives, for each record of the buffer `b`, the attributes and the picture
after it, from the page's beginning (`Begun`) by one record at a time (`After`). That one exists
is part of the invariant, so that no induction over the buffer is needed: a call that
records adds its record's place (`ToldMore`, `WrEntire`, `ShowEntire`), and `Bop` begins a new history
(`BopBegins`). `Entire` says that a stream of the program is where its history ends, and `Agrees` that
a stream in a replay is where the history is at `readpos`, except for the limits of which no record
tells yet. Writer and reader are so compared record by record: there is one lemma for each call
(`SettersEntire`, `DrawEntire`, `PagesEntire`) and one for the reader (`BeginAgrees`, `ReadAgrees`).
They hold for every program that makes none of the calls that a replay does not
follow, `plwidth` on a stream whose width is locked among them (`Faithful`), and give `ReplayRegeneratesHolds` and `ReplayRestoresHolds`. TLC
checked the invariant, with the history computed from the buffer, on the programs of the run before
it was proved.

**Streams.** `Library` is the invariant between calls: the current stream and stream 0
exist, each stream is settled (its buffer, if any, is allocated and long enough and its
level says so), and two streams have different buffers (`Owning`). A call breaks it in the
middle, when a stream has lost its buffer and not its pointer; so `Only(s, t)` says what one
step of a call may change, the current stream and its buffer, and the steps compose
(`WithinTrans`). `Done` is what a whole call achieves; `CallDone` goes through the
calls. `Ended` says of `plend`'s loop which streams are already gone. They give
`CurrentExistsHolds`, `BuffersOwnedHolds`, `StreamsApartHolds` and `EndEndsAllHolds`.
`ReplotShows` relates a page on a device to a buffer that may be a copy of another
stream's. `Shows` says it stream by stream: a stream that records and has no copy has
its page in its buffer; one with a copy has the page that was copied, whatever became of the
original. `Good` adds the types of the heap and of the devices. Since `StreamsApart` holds of every
step of a call, only the current stream has to be looked at (`OnlyGood`), and there is one
lemma for each function on it. They give `TypeHolds` and `ReplotShowsHolds`.

**The X driver.** `OneDraws` speaks of places in the code and of the mutex, and is inductive only
together with `CancelledRests` (a thread that was cancelled is outside the mutex
when the canceller has it). `Kept` says that between replays every stream records, and
that a thread in a replay will put `plbuf_write` back. `ThreadsEnd` needs two facts: that the thread
of a stream that is freed or being tidied is at its end (`Ends`), and that `plsc`, and what a
thread that has moved it will give back, are streams that are not freed (`Points`), as long as
`plend1` has freed the right ones. Steps that touch none of it (`Still`) and steps of a thread that
takes `plsc` or gives it back (`Moves`) are treated together; selecting a
stream and the three steps of its end have a proof of their own. `OneSize` needs the mutex: nobody else draws between the resize and
the replay. `Alone`, for programs without threads, relates each place of a driver call to what is
already recorded and not yet drawn (`Steady`, `Shows`). `Typed` is about types and the queue: an event that
was taken out of it, first, last or by a drop, is one of its events (`Those`, whose lemma
`NthPlace` counts the places before each), with its window and its size. `Awaited`, a blank area has its
expose queued, holds where nothing is ever dropped (`Lasting`) and nothing is given to another
stream (`NoPause`, or there is one stream). They give `TypeHolds`, `OneDrawsHolds`,
`ThreadsEndHolds`, `RecordingHolds` and `ShowsRecordedHolds`.

**The plframe widget.** `RefreshServed`, `SettledShows` and `CrosshairsTidy` promise something
for a moment when nothing is queued. Each needs to know, for every moment before it, which queued
event, callback or flag will make it true. `Served` says that a refresh that is noted has a
callback that is queued or an `update` that will queue it; `Told` that the last event on its way
tells Tk what the window is; `Started` that a mapped widget has its plot or gets it; `Viewed` that a view
which is not shown will be redrawn; `Covered` that what was blanked is exposed or will
be; `Sized` that the driver's size is the one the widget remembers; `Crossed` that crosshairs are seen
where the widget thinks they are. `PaintDoes` and `DisplayDoes` say what `DisplayPlFrame` leaves, whichever
of its branches it takes. For each handler and callback one lemma shows that it keeps the
invariant, and that `Work` falls, which is `LoopEnds`: an event may queue callbacks and a callback itself
once more, but never as much as it takes away. `QuietMeans` reads the three properties off the
invariant. They give `RefreshServedHolds`, `CrosshairsTidyHolds`, `SettledShowsHolds`,
`LoopEndsHolds` and `TypeHolds`, for every set of worlds, every number of acts, widths and places.

**Strip charts.** `PointsShown` is not inductive, because the next slide depends on the order
of the points and on the chart's own range, not only on the window's. `Fit` adds them: the
points of a pen are in order and not later than the last one, the window begins where the chart
does and is at least as long as the chart (`InX`), with `y_ascl` it has the chart's range
(`InY`). There is a lemma for each of the four ways of `plstripa` (`DrawnFit`, `RescaledFit`,
`AccumulatedFit`, `SlidFit`); the last cuts each pen at the first point that is late enough
(`SlidCuts`, with `FirstOf`), which also shows that no point in the
window is dropped. That a jump in per cent is not longer than the chart, and 1.1 times a
range not shorter, is all that the arithmetic has to give. They give `TypeHolds`,
`PointsShownHolds` and `KeepsPointsHolds`, for every order of points and pens.

Only model-checked:

* liveness, for which the prover has no `ENABLED`: `TransmissionReturns`, `SessionCompletes`,
  `LocateAnswered`, `TidyReturns`, and the fairness that the two refinements,
  `ImplementsRendezvous` and `ImplementsChannel`, contain: only their steps are proved;
* what the four runs refute, which are statements of documents and comments and not of the code.

## 5. Not modelled, and why

Most of the repository's lines keep no state that a model of states could be about, and
that is why the modelled lines are a small share of them:

* Geometry and floating point (contours, surfaces, shades, fills, interpolation, axes, time
  conversion): sequential functions of real numbers.
* Drivers other than wxWidgets, X and Tk: they translate drawing calls to a library or a file
  format, call by call.
* Language bindings (Tcl, OCaml, Java, Python, Ada, Octave, ...): generated, or wrappers that
  convert arguments; the largest files of the repository are among them.
* Hershey and Unicode tables, fonts, palettes, option tables: data.

Of the modelled parts:

* wxWidgets: failures of system calls, the death of a process in a transmission (every wait
  is without a timeout, so the outcome is known: the peer waits for ever), semaphores of the same name
  left by an earlier run, the ring buffer of the build without the three semaphores.
* Plot buffer: its layout in words and its growth, images, clips, `plbuf_save`, `plbuf_restore` and
  `plbuf_switch`.
* X driver: colours, fills, images, the locator and the crosshairs, which hold the mutex as lines
  do.
* Tk: the commands that go by Tk's `send`, the opening of the link, and the widget's printing, saving,
  zoom, scrolling and colour commands, which are synchronous Tcl commands that end in the
  redraw that is modelled.
* Strip charts: labels, legend and styles. The `memcpy` that moves the points that are kept, whose pieces
  may overlap, is taken to copy forward.

## 6. Plan

1. Done: the rendezvous and its semaphores with proofs; the session; replays with proofs.
2. Done: streams, the X driver and strip charts with proofs; the Tk link with its
   refinement; the plframe widget.
3. Done: proofs of every safety property of the passing runs, invariants and action properties,
   and of the steps of both refinements.
4. Models next: the plot buffer in words (growth, and the RGB record whose reader and writer
   differ), `plbuf_save` and `plbuf_switch` with their failures, the ring buffer with its missing
   lock.
