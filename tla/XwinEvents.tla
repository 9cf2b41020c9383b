----------------------------- MODULE XwinEvents -----------------------------
(***************************************************************************)
(* The X driver (drivers/xwin.c) with its events threads.  The program     *)
(* draws on the current stream; each stream has a window, and, unless      *)
(* usepth=0, a thread that answers the exposes and resizes of its window   *)
(* while the program is busy.  The driver's functions take events_mutex;   *)
(* what the library does before it calls the driver (src/plcore.c) does    *)
(* not.  The driver draws to a pixmap too and refreshes windows from it.   *)
(* Reads of plsc that follow one another in a function are one read.       *)
(***************************************************************************)
EXTENDS Integers, Sequences, FiniteSets, SequencesExt

CONSTANT Programs   \* each with its streams, whether usepthreads and nopause (-np),
                    \* the widths its windows may have, and bounds on the lines it
                    \* draws and the events of its user

ASSUME XwinAssumption == \A p \in Programs :
  /\ p.streams # {} /\ p.streams \cup p.widths \subseteq Nat \ {0}
  /\ IsFiniteSet(p.streams) /\ IsFiniteSet(p.widths)
  /\ {p.usepthreads, p.nopause} \subseteq BOOLEAN /\ {p.lines, p.events} \subseteq Nat

VARIABLES
  program,   \* the program that runs
  plsc,      \* the current stream
  pls,       \* the streams and their XwDev
  width,     \* of the windows at the server
  blank,     \* the areas of the windows that show nothing, each named by its event
  queue,     \* the events of the display
  mutex,     \* who holds events_mutex: 0 the program, p the thread of stream p
  main,      \* the program's place in a call
  thread,    \* the events threads
  meant,     \* the stream that the program has selected
  lines,     \* how many it has drawn
  events     \* how many the user has caused

vars == << program, plsc, pls, width, blank, queue, mutex, main, thread, meant, lines, events >>

Free   == -1
Prog   == 0
Idle   == [pc |-> "idle", line |-> 0, pls |-> 0, drop |-> FALSE]
Widths == program.widths

\* canvas is the pixmap, open says that plend1 has not freed the stream.
NewStream(w, nopause) == [buffer |-> << >>, write |-> TRUE, read |-> FALSE, canvas |-> {}, width |-> w,
                          exit |-> FALSE, nopause |-> nopause, closed |-> FALSE, open |-> TRUE]

NewThread(pc) == [pc |-> pc, async |-> FALSE, cancelled |-> FALSE,
                  k |-> 0, top |-> 0, write |-> TRUE, oplsc |-> 0]

\* All streams are initialised: their windows are mapped, their threads created.
Init ==
  /\ program \in Programs
  /\ plsc \in program.streams /\ meant = plsc
  /\ \E w \in Widths :
       /\ pls = [p \in program.streams |-> NewStream(w, program.nopause)]
       /\ width = [p \in program.streams |-> w]
  /\ blank = [p \in program.streams |-> {}]
  /\ queue = << >> /\ mutex = Free /\ main = Idle
  /\ thread = [p \in program.streams |-> NewThread(IF program.usepthreads THEN "new" ELSE "none")]
  /\ lines = 0 /\ events = 0

-----------------------------------------------------------------------------
(* The user and the X server.                                              *)

Event(p, type, w, area) == [window |-> p, type |-> type, width |-> w, area |-> area]
Redisplay(e) == e.type \in {"expose", "resize"}

\* Streams that were freed, and the window that plD_tidy_xw has destroyed.
Gone(p) == ~ pls[p].open \/ (main.pc = "closing" /\ main.pls = p)

\* A window whose size changes forgets what it shows.
User ==
  /\ events < program.events /\ events' = events + 1
  /\ \E p \in program.streams :
       LET expose == Event(p, "expose", 0, events')
       IN  /\ ~ Gone(p)
           /\ \/ /\ \E type \in {"key", "delete"} : queue' = Append(queue, Event(p, type, 0, 0))
                 /\ UNCHANGED << width, blank >>
              \/ /\ queue' = Append(queue, expose)
                 /\ blank' = [blank EXCEPT ![p] = @ \cup {events'}]
                 /\ UNCHANGED width
              \/ \E w \in Widths \ {width[p]} :
                   /\ width' = [width EXCEPT ![p] = w]
                   /\ queue' = Append(Append(queue, Event(p, "resize", w, 0)), expose)
                   /\ blank' = [blank EXCEPT ![p] = @ \cup {events'}]
  /\ UNCHANGED << program, plsc, pls, mutex, main, thread, meant, lines >>

\* Events of window p, those that its thread takes, and the queue without the i-th.
Own(p)     == {i \in DOMAIN queue : queue[i].window = p}
Waiting(p) == {i \in Own(p) : Redisplay(queue[i])}
First(I)   == CHOOSE i \in I : \A j \in I : i <= j
Without(i) == RemoveAt(queue, i)
\* The events of a queue at some of its places, in their order.
Those(q, I) == [n \in 1..Cardinality(I) |-> q[CHOOSE i \in I : Cardinality({j \in I : j <= i}) = n]]
\* The loops that remove exposes and resizes when all has been redrawn.
Dropped(q, p) == Those(q, {i \in DOMAIN q : ~ (q[i].window = p /\ Redisplay(q[i]))})

-----------------------------------------------------------------------------
(* What the driver does while it holds the mutex.                          *)

\* A line on the canvas: whose it is, which, and the width it was scaled to.
Mark(line, w) == << line, w >>
Page(p, w)    == {Mark(pls[p].buffer[i], w) : i \in DOMAIN pls[p].buffer}

\* ExposeCmd: the area of the event is copied from p's pixmap to p's window.
Refreshed(p, e) == IF e.window = p THEN [blank EXCEPT ![p] = @ \ {e.area}] ELSE blank

\* ResizeCmd: the page at its new width, with plRemakePlot as one step, as no
\* thread is at work and what the user does meanwhile might as well have come
\* before: a stream that is closed draws nothing.
ResizedTo(p, w) == [pls EXCEPT ![p].width = w, ![p].canvas = IF pls[p].closed THEN {} ELSE Page(p, w)]

\* ClientEH
Closed(p) == [pls EXCEPT ![p].nopause = TRUE, ![p].closed = TRUE, ![p].exit = TRUE]

\* Wrong: the plot is not drawn again at the new size.
MasterEHNoReplay(p, e, q) ==
  /\ queue' = q
  /\ IF e.type = "resize"
     THEN /\ pls' = [pls EXCEPT ![p].width = e.width, ![p].canvas = {}]
          /\ blank' = [blank EXCEPT ![p] = {}] /\ main' = [main EXCEPT !.drop = TRUE]
     ELSE pls' = [pls EXCEPT ![p].exit = e.type # "expose"] /\ UNCHANGED << main, blank >>

\* MasterEH( p, e ) called by the program: an event of another window is taken
\* for one of p's.  After a resize its window's events are yet to be dropped.
MasterEH(p, e, q) ==
  /\ queue' = q
  /\ \/ e.type = "key" /\ pls' = [pls EXCEPT ![p].exit = TRUE] /\ UNCHANGED << main, blank >>
     \/ e.type = "delete" /\ pls' = Closed(p) /\ UNCHANGED << main, blank >>
     \/ e.type = "expose" /\ blank' = Refreshed(p, e) /\ UNCHANGED << main, pls >>
     \/ e.type = "resize" /\ e.width = pls[p].width /\ UNCHANGED << main, blank, pls >>
     \/ /\ e.type = "resize" /\ e.width # pls[p].width
        /\ pls' = ResizedTo(p, e.width)
        /\ blank' = [blank EXCEPT ![p] = {}]
        /\ main' = [main EXCEPT !.drop = TRUE]

-----------------------------------------------------------------------------
(* The program.                                                            *)

Goes(pc)   == main.pc = pc
Rest       == UNCHANGED << program, width, thread, events >>

Plsstrm ==
  /\ Goes("idle")
  /\ \E p \in program.streams : pls[p].open /\ plsc' = p /\ meant' = p
  /\ UNCHANGED << pls, blank, queue, mutex, main, lines >> /\ Rest

\* plP_line: the line is recorded if the stream records, and given to the
\* driver of the stream that is the current one then, unless it is closed.
LineRecord ==
  /\ Goes("idle") /\ lines < program.lines
  /\ lines' = lines + 1
  /\ LET line == << meant, lines' >>
     IN  /\ main' = [Idle EXCEPT !.pc = "line", !.line = line]
         /\ pls' = IF pls[plsc].write THEN [pls EXCEPT ![plsc].buffer = Append(@, line)] ELSE pls
  /\ UNCHANGED << plsc, blank, queue, mutex, meant >> /\ Rest

LineCall ==
  /\ Goes("line")
  /\ main' = IF pls[plsc].closed THEN Idle ELSE [main EXCEPT !.pc = "lock", !.pls = plsc]
  /\ UNCHANGED << plsc, pls, blank, queue, mutex, meant, lines >> /\ Rest

\* Wrong: the mutex is not taken.
LineLockForgotten ==
  /\ Goes("lock")
  /\ main' = [main EXCEPT !.pc = "draw"]
  /\ UNCHANGED << plsc, pls, blank, queue, mutex, meant, lines >> /\ Rest

\* plD_line_xw takes the mutex; CheckForEvents looks every max_instr times.
LineLock ==
  /\ Goes("lock") /\ mutex = Free
  /\ mutex' = Prog
  /\ \E check \in BOOLEAN :
       main' = [main EXCEPT !.pc = IF check /\ ~ pls[main.pls].read THEN "check" ELSE "draw"]
  /\ UNCHANGED << plsc, pls, blank, queue, meant, lines >> /\ Rest

\* Messages of the window manager come first.
HandleEvents ==
  /\ Goes("check") /\ ~ main.drop
  /\ LET mine   == Own(main.pls)
         closes == {i \in mine : queue[i].type = "delete"}
         first  == First(IF closes # {} THEN closes ELSE mine)
     IN  IF mine = {}
         THEN main' = [main EXCEPT !.pc = "draw"] /\ UNCHANGED << pls, blank, queue >>
         ELSE MasterEH(main.pls, queue[first], Without(first))
  /\ UNCHANGED << plsc, mutex, meant, lines >> /\ Rest

\* The end of ResizeEH: what came since the window was refreshed is dropped too.
ResizeDrop ==
  /\ main.drop
  /\ queue' = Dropped(queue, main.pls)
  /\ main' = [main EXCEPT !.drop = FALSE]
  /\ UNCHANGED << plsc, pls, blank, mutex, meant, lines >> /\ Rest

LineDraw ==
  /\ Goes("draw")
  /\ LET p == main.pls
     IN  pls' = [pls EXCEPT ![p].canvas = @ \cup {Mark(main.line, pls[p].width)}]
  /\ main' = Idle /\ mutex' = Free
  /\ UNCHANGED << plsc, blank, queue, meant, lines >> /\ Rest

\* plP_bop, plP_wait and plP_tidy: the driver's function of the current stream,
\* which then waits for the mutex.  A closed stream's page begins without it, and
\* it does not pause.
Call ==
  /\ Goes("idle")
  /\ \/ main' = [Idle EXCEPT !.pc = IF pls[plsc].closed THEN "bop" ELSE "bopLock", !.pls = plsc]
     \/ ~ pls[plsc].nopause /\ main' = [Idle EXCEPT !.pc = "waitLock", !.pls = plsc]
     \/ main' = [Idle EXCEPT !.pc = "tidyLock", !.pls = plsc]
  /\ UNCHANGED << plsc, pls, blank, queue, mutex, meant, lines >> /\ Rest

\* plP_bop: the driver clears window and pixmap, and then a new page is recorded.
BopClear ==
  /\ Goes("bopLock") /\ mutex = Free
  /\ pls' = [pls EXCEPT ![main.pls].canvas = {}]
  /\ blank' = [blank EXCEPT ![main.pls] = {}]
  /\ main' = [Idle EXCEPT !.pc = "bop"]
  /\ UNCHANGED << plsc, queue, mutex, meant, lines >> /\ Rest

BopRecord ==
  /\ Goes("bop")
  /\ pls' = IF pls[plsc].write THEN [pls EXCEPT ![plsc].buffer = << >>] ELSE pls
  /\ main' = Idle
  /\ UNCHANGED << plsc, blank, queue, mutex, meant, lines >> /\ Rest

\* plD_wait_xw and WaitForPage: XNextEvent gives the events of every window.
Wait ==
  /\ Goes("waitLock") /\ mutex = Free
  /\ mutex' = Prog
  /\ main' = [main EXCEPT !.pc = "wait"]
  /\ UNCHANGED << plsc, pls, blank, queue, meant, lines >> /\ Rest

WaitForPage ==
  /\ Goes("wait") /\ ~ main.drop
  /\ IF pls[main.pls].exit
     THEN /\ pls' = [pls EXCEPT ![main.pls].exit = FALSE]
          /\ main' = Idle /\ mutex' = Free
          /\ UNCHANGED << blank, queue >>
     ELSE /\ queue # << >>
          /\ MasterEH(main.pls, Head(queue), Tail(queue))
          /\ UNCHANGED mutex
  /\ UNCHANGED << plsc, meant, lines >> /\ Rest

\* plD_tidy_xw of plend1: with the mutex the thread is cancelled and joined.
TidyCancel ==
  /\ Goes("tidyLock") /\ mutex = Free
  /\ mutex' = Prog
  /\ main' = [main EXCEPT !.pc = "tidy"]
  /\ thread' = [thread EXCEPT ![main.pls].cancelled = TRUE]
  /\ UNCHANGED << program, plsc, pls, width, blank, queue, meant, lines, events >>

\* Wrong: the thread is not waited for.
TidyNoJoin ==
  /\ Goes("tidy")
  /\ mutex' = Free
  /\ main' = [main EXCEPT !.pc = "closing"]
  /\ UNCHANGED << plsc, pls, blank, queue, meant, lines >> /\ Rest

\* The mutex is released, then the window destroyed.  The events of it that the
\* display has queued stay there.
Tidy ==
  /\ Goes("tidy") /\ thread[main.pls].pc \in {"none", "dead"}
  /\ mutex' = Free
  /\ main' = [main EXCEPT !.pc = "closing"]
  /\ UNCHANGED << plsc, pls, blank, queue, meant, lines >> /\ Rest

\* The rest of plend1 reads plsc again, without the mutex: it frees that stream
\* and empties its own place in pls[] (ipls, which is meant), and the program
\* selects another stream, if there is one.  If a thread has moved plsc, or had
\* moved it when plP_tidy read it, then a stream with a window and a thread is
\* freed, or one that pls[] still names.  What comes of that is not followed.
Close ==
  /\ Goes("closing")
  /\ pls' = [pls EXCEPT ![plsc].open = FALSE]
  /\ LET left == {p \in program.streams \ {plsc} : pls[p].open}
     IN  \/ /\ {main.pls, meant} # {plsc}
            /\ main' = [main EXCEPT !.pc = "lost"] /\ UNCHANGED << plsc, meant >>
         \/ /\ {main.pls, meant} = {plsc} /\ left = {}
            /\ main' = [Idle EXCEPT !.pc = "end"] /\ UNCHANGED << plsc, meant >>
         \/ /\ {main.pls, meant} = {plsc}
            /\ main' = Idle /\ \E p \in left : plsc' = p /\ meant' = p
  /\ UNCHANGED << blank, queue, mutex, lines >> /\ Rest

-----------------------------------------------------------------------------
(* The events threads.                                                     *)

At(p, pc)   == thread[p].pc = pc
Now(p, pc)  == thread' = [thread EXCEPT ![p].pc = pc]
Held(p)     == thread' = [thread EXCEPT ![p] =
                 [NewThread("held") EXCEPT !.async = thread[p].async, !.cancelled = thread[p].cancelled]]
Aside       == UNCHANGED << program, width, main, meant, lines, events >>

\* Wrong: the thread stays one that is cancelled where it may sleep only.
ThreadStartDeferred(p) ==
  /\ At(p, "new")
  /\ Now(p, "loop")
  /\ UNCHANGED << plsc, pls, blank, queue, mutex >> /\ Aside

\* pthread_setcanceltype acts on a cancel that is pending.
ThreadStart(p) ==
  /\ At(p, "new")
  /\ thread' = [thread EXCEPT ![p].pc = IF thread[p].cancelled THEN "dead" ELSE "loop", ![p].async = TRUE]
  /\ UNCHANGED << plsc, pls, blank, queue, mutex >> /\ Aside

ThreadCancelled(p) ==
  /\ thread[p].cancelled
  /\ At(p, "sleep") \/ (thread[p].async /\ thread[p].pc \in {"loop", "held", "expose", "replay", "drop"})
  /\ Now(p, "dead")
  /\ UNCHANGED << plsc, pls, blank, queue, mutex >> /\ Aside

ThreadLock(p) ==
  /\ At(p, "loop") /\ mutex = Free
  /\ mutex' = p
  /\ \E check \in BOOLEAN : Now(p, IF check /\ ~ pls[p].read THEN "held" ELSE "unlock")
  /\ UNCHANGED << plsc, pls, blank, queue >> /\ Aside

\* Wrong: the current stream is not kept.
ThreadTakeUnkept(p) ==
  LET mine == Waiting(p)
  IN  /\ At(p, "held") /\ mine # {}
      /\ queue' = Without(First(mine)) /\ plsc' = p
      /\ Now(p, "expose")
      /\ UNCHANGED << pls, blank, mutex >> /\ Aside

\* An event of its window, of which plsc is made the stream: an expose, or a
\* resize and the beginning of plRemakePlot.
ThreadTake(p) ==
  LET mine == Waiting(p)
      e    == queue[First(mine)]
  IN  /\ At(p, "held") /\ mine # {}
      /\ queue' = Without(First(mine))
      /\ plsc' = p
      /\ IF e.type = "resize" /\ e.width # pls[p].width
         THEN /\ thread' = [thread EXCEPT ![p] = [@ EXCEPT
                   !.pc = "replay", !.oplsc = plsc, !.k = 1,
                   !.top = Len(pls[p].buffer), !.write = pls[p].write]]
              /\ pls' = [pls EXCEPT ![p].width = e.width, ![p].canvas = {},
                                    ![p].write = FALSE, ![p].read = TRUE]
              /\ UNCHANGED blank
         ELSE /\ thread' = [thread EXCEPT ![p].pc = "expose", ![p].oplsc = plsc]
              /\ blank' = IF e.type = "expose" THEN Refreshed(p, e) ELSE blank
              /\ UNCHANGED pls
      /\ UNCHANGED mutex /\ Aside

ThreadExposed(p) ==
  /\ At(p, "expose")
  /\ plsc' = thread[p].oplsc
  /\ Held(p)
  /\ UNCHANGED << pls, blank, queue, mutex >> /\ Aside

\* A record of stream p is given to plP_line, which works on plsc.
Reading(p) == thread[p].k <= thread[p].top /\ thread[p].k <= Len(pls[p].buffer)

ThreadReplay(p) ==
  /\ At(p, "replay") /\ Reading(p)
  /\ LET line == pls[p].buffer[thread[p].k]
         s    == pls[plsc]
     IN  pls' = [pls EXCEPT ![plsc] = [s EXCEPT
           !.buffer = IF s.write THEN Append(@, line) ELSE @,
           !.canvas = IF s.closed THEN @ ELSE @ \cup {Mark(line, s.width)}]]
  /\ thread' = [thread EXCEPT ![p].k = @ + 1]
  /\ UNCHANGED << plsc, blank, queue, mutex >> /\ Aside

\* Wrong: the stream does not record any more.
ThreadReplayedForgets(p) ==
  /\ At(p, "replay") /\ ~ Reading(p)
  /\ pls' = [pls EXCEPT ![p].read = FALSE]
  /\ blank' = [blank EXCEPT ![p] = {}]
  /\ Now(p, "drop")
  /\ UNCHANGED << plsc, queue, mutex >> /\ Aside

\* The end of plRemakePlot and of ResizeCmd, which refreshes the window.
ThreadReplayed(p) ==
  /\ At(p, "replay") /\ ~ Reading(p)
  /\ pls' = [pls EXCEPT ![p].write = thread[p].write, ![p].read = FALSE]
  /\ blank' = [blank EXCEPT ![p] = {}]
  /\ Now(p, "drop")
  /\ UNCHANGED << plsc, queue, mutex >> /\ Aside

\* The end of ResizeEH.
ThreadDrop(p) ==
  /\ At(p, "drop")
  /\ queue' = Dropped(queue, p)
  /\ plsc' = thread[p].oplsc
  /\ Held(p)
  /\ UNCHANGED << pls, blank, mutex >> /\ Aside

ThreadUnlock(p) ==
  /\ At(p, "unlock") \/ (At(p, "held") /\ Waiting(p) = {})
  /\ mutex' = Free
  /\ Now(p, "sleep")
  /\ UNCHANGED << plsc, pls, blank, queue >> /\ Aside

ThreadWake(p) ==
  /\ At(p, "sleep")
  /\ Now(p, "loop")
  /\ UNCHANGED << plsc, pls, blank, queue, mutex >> /\ Aside

-----------------------------------------------------------------------------
Draw == LineRecord \/ LineCall \/ LineLock \/ HandleEvents \/ ResizeDrop \/ LineDraw
Pages == BopClear \/ BopRecord \/ Wait \/ WaitForPage \/ TidyCancel
Main   == Plsstrm \/ Draw \/ Call \/ Pages \/ Tidy \/ Close
Thread(p) == ThreadStart(p) \/ ThreadCancelled(p) \/ ThreadLock(p) \/ ThreadTake(p)
               \/ ThreadExposed(p) \/ ThreadReplay(p) \/ ThreadReplayed(p) \/ ThreadDrop(p)
               \/ ThreadUnlock(p) \/ ThreadWake(p)

\* The program has not freed what is still in use.
Followed == main.pc # "lost"

Next == Followed /\ (User \/ Main \/ \E p \in program.streams : Thread(p))

Spec == Init /\ [][Next]_vars /\ WF_vars(Tidy)
             /\ WF_vars(Followed /\ \E p \in program.streams : ThreadStart(p))
             /\ WF_vars(Followed /\ \E p \in program.streams : ThreadCancelled(p))
-----------------------------------------------------------------------------
(* Properties.                                                             *)

Line == program.streams \X (1..program.lines)

TypeOK ==
  /\ {plsc, meant} \subseteq program.streams
  /\ \A p \in program.streams :
       /\ pls[p].buffer \in Seq(Line) /\ pls[p].canvas \subseteq Line \X Widths
       /\ {pls[p].write, pls[p].read, pls[p].exit, pls[p].nopause, pls[p].closed, pls[p].open} \subseteq BOOLEAN
       /\ {pls[p].width, width[p]} \subseteq Widths /\ blank[p] \subseteq 1..program.events
       /\ thread[p].oplsc \in {0} \cup program.streams
  /\ \A i \in DOMAIN queue : queue[i].type \in {"expose", "resize", "key", "delete"}
  /\ mutex \in {Free, Prog} \cup program.streams
  /\ main.pls \in {0} \cup program.streams
  /\ lines \in 0..program.lines /\ events \in 0..program.events

InDriver(p) == thread[p].pc \in {"held", "expose", "replay", "drop", "unlock"}

\* A thread never works on a window that plD_tidy_xw destroyed, nor, as long as
\* plend1 frees the stream it has tidied, on a stream that was freed; and plsc
\* points to none that was.  That plend1 frees another takes several threads.
ThreadsEnd ==
  /\ Followed => \A p \in program.streams : Gone(p) => thread[p].pc \in {"none", "dead"}
  /\ Followed /\ main.pc # "end" => pls[plsc].open
  /\ ~ Followed => program.usepthreads /\ Cardinality(program.streams) > 1

\* Nobody but the holder of the mutex draws, and a thread is never cancelled
\* while it holds it.
OneDraws ==
  /\ \A p \in program.streams : InDriver(p) <=> mutex = p
  /\ main.pc \in {"check", "draw", "wait", "tidy"} <=> mutex = Prog

\* Between the replays every stream records, and none is read.
Recording == mutex \in {Free, Prog} =>
  \A p \in program.streams : pls[p].write /\ ~ pls[p].read

\* The windows are refreshed from the pixmaps, and those never have lines of two
\* sizes.  Without threads the pixmap of a stream that is not closed holds what
\* was recorded, whatever windows were resized while the program drew or waited,
\* but for the line being drawn.  An area that shows nothing has its expose in the
\* queue still: in programs whose windows keep their size, as what comes between
\* the refresh of a resize and the end of ResizeEH is dropped, and that have one
\* window or do not pause, as WaitForPage gives the expose of another window to
\* the current stream, so that the window it is of stays blank.
ShowsRecorded ==
  /\ \A p \in program.streams : \A m \in pls[p].canvas : m[2] = pls[p].width
  /\ ~ program.usepthreads /\ main.pc \in {"idle", "check", "wait"} =>
       \A p \in program.streams : ~ pls[p].closed /\ pls[p].open =>
         LET page == Page(p, pls[p].width)
             now  == IF main.pc = "check" THEN {Mark(main.line, pls[p].width)} ELSE {}
         IN  page \ now \subseteq pls[p].canvas /\ pls[p].canvas \subseteq page
  /\ Cardinality(Widths) = 1 /\ (program.nopause \/ Cardinality(program.streams) = 1) =>
       \A p \in program.streams : \A area \in blank[p] :
         \E i \in DOMAIN queue : queue[i] = Event(p, "expose", 0, area)

\* plend1 does not wait for ever for the thread that it has cancelled.
TidyReturns == Goes("tidy") ~> ~ Goes("tidy")

\* "Need to change where plsc (current plot stream) points to before processing
\* the commands.  If we have multiple plot streams, this will prevent the commands
\* from going to the wrong plot stream." (plbuf.c): a window shows its own lines.
OwnPlot == \A p \in program.streams : \A m \in pls[p].canvas : m[1][1] = p
=============================================================================
