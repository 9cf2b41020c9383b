-------------------------- MODULE XwinEvents_proof --------------------------
(***************************************************************************)
(* Proofs about the X driver and its events threads, for every program,    *)
(* every number of streams and of windows' sizes.                          *)
(***************************************************************************)
EXTENDS XwinEvents, FiniteSetTheorems, NaturalsInduction, SequenceTheorems, TLAPS

Streams == program.streams

\* The fields of a stream, of a thread and of the program's place.
Fields  == DOMAIN NewStream(0, FALSE)
TFields == DOMAIN NewThread("new")
MFields == DOMAIN Idle

\* What the functions of the driver hold on to while they have the mutex.
Holding == {"check", "draw", "wait", "tidy"}
Calling == {"lock", "check", "draw", "bopLock", "waitLock", "wait", "tidyLock", "tidy", "closing"}
Resting == {"none", "dead"}
InHand  == {"expose", "replay", "drop"}   \* a thread with an event

Shape ==
  /\ program \in Programs
  /\ {plsc, meant} \subseteq Streams
  /\ DOMAIN pls = Streams /\ \A p \in Streams : DOMAIN pls[p] = Fields
  /\ DOMAIN thread = Streams /\ \A p \in Streams : DOMAIN thread[p] = TFields
  /\ \A p \in Streams : thread[p].pc \in InHand => thread[p].oplsc \in Streams
  /\ DOMAIN blank = Streams
  /\ DOMAIN main = MFields /\ (main.pc \in Calling => main.pls \in Streams)

\* A thread is cancelled while the program holds the mutex, and then it is
\* on its way to its end.
CancelledRests == \A p \in Streams : thread[p].cancelled =>
  thread[p].pc \in Resting \/ (main.pc = "tidy" /\ main.pls = p)

\* Nobody else holds the mutex, so that the program, the threads and the
\* cancellation are kept apart.
Mutex == Shape /\ OneDraws /\ CancelledRests
-----------------------------------------------------------------------------
\* No stream is taken for the program, or for a mutex that is free.
LEMMA StreamsApart ==
  ASSUME program \in Programs
  PROVE  Free \notin Streams /\ Prog \notin Streams /\ Free # Prog
BY XwinAssumption DEF Free, Prog, Streams

\* At first nobody holds the mutex.
LEMMA MutexInit == Init => Mutex
<1> SUFFICES ASSUME Init PROVE Mutex
  OBVIOUS
<1>1. program \in Programs /\ Free \notin Streams /\ Free # Prog
  BY StreamsApart DEF Init
<1>2. \A p \in Streams : /\ \E w : pls[p] = NewStream(w, program.nopause)
                         /\ \E pc \in {"new", "none"} : thread[p] = NewThread(pc)
  BY DEF Init, Streams
<1>3. Shape
  BY <1>1, <1>2 DEF Init, Shape, NewStream, NewThread, Idle, Calling, InHand, Streams, Fields,
       TFields, MFields
<1>4. OneDraws
  BY <1>1, <1>2 DEF Init, OneDraws, InDriver, NewThread, Idle, Streams
<1>5. CancelledRests
  BY <1>2 DEF CancelledRests, NewThread, Resting
<1> QED BY <1>3, <1>4, <1>5 DEF Mutex

\* What MasterEH does to the streams and to the program's place.
LEMMA MasterShape ==
  ASSUME Shape, NEW p \in Streams, NEW e, NEW q, MasterEH(p, e, q)
  PROVE  /\ DOMAIN pls' = Streams /\ \A r \in Streams : DOMAIN pls'[r] = Fields
         /\ \A r \in Streams : pls'[r].write = pls[r].write /\ pls'[r].read = pls[r].read
         /\ \A r \in Streams : pls'[r].open = pls[r].open /\ pls'[r].buffer = pls[r].buffer
         /\ \A r \in Streams : pls'[r].nopause = pls[r].nopause \/ pls'[r].nopause = TRUE
         /\ DOMAIN blank' = Streams /\ queue' = q
         /\ DOMAIN main' = MFields
         /\ main'.pc = main.pc /\ main'.pls = main.pls /\ main'.line = main.line
<1>1. /\ DOMAIN main' = MFields
      /\ main'.pc = main.pc /\ main'.pls = main.pls /\ main'.line = main.line
  BY DEF Shape, MasterEH, MFields, Idle
<1>2. DOMAIN blank' = Streams /\ queue' = q
  BY DEF Shape, MasterEH, Refreshed
<1> DEFINE page(w) == IF pls[p].closed THEN {} ELSE Page(p, w)
<1>3. \/ UNCHANGED pls
      \/ pls' = [pls EXCEPT ![p].exit = TRUE]
      \/ pls' = [pls EXCEPT ![p].nopause = TRUE, ![p].closed = TRUE, ![p].exit = TRUE]
      \/ pls' = [pls EXCEPT ![p].width = e.width, ![p].canvas = page(e.width)]
  BY DEF MasterEH, Closed, ResizedTo
<1> HIDE DEF page
<1> QED BY <1>1, <1>2, <1>3 DEF Shape, Fields, NewStream

\* The program handles an event of its window, or goes on to draw.
LEMMA HandleCases ==
  ASSUME HandleEvents
  PROVE  /\ main.pc = "check"
         /\ \/ main' = [main EXCEPT !.pc = "draw"] /\ UNCHANGED << pls, blank, queue >>
            \/ \E e, q : MasterEH(main.pls, e, q)
         /\ UNCHANGED << plsc, mutex, meant, lines >> /\ Rest
BY DEF HandleEvents, Goes

\* It waits for a click, and handles every event that comes.
LEMMA WaitCases ==
  ASSUME WaitForPage
  PROVE  /\ main.pc = "wait"
         /\ \/ /\ pls' = [pls EXCEPT ![main.pls].exit = FALSE] /\ main' = Idle /\ mutex' = Free
               /\ UNCHANGED << blank, queue >>
            \/ (\E e, q : MasterEH(main.pls, e, q)) /\ mutex' = mutex
         /\ UNCHANGED << plsc, meant, lines >> /\ Rest
BY DEF WaitForPage, Goes

\* A thread takes an expose, or a resize with which plRemakePlot begins.
LEMMA TakeEffect ==
  ASSUME Shape, NEW p \in Streams, ThreadTake(p)
  PROVE  /\ At(p, "held") /\ plsc' = p
         /\ UNCHANGED << program, mutex, main, meant, lines >>
         /\ DOMAIN pls' = Streams /\ \A r \in Streams : DOMAIN pls'[r] = Fields
         /\ DOMAIN thread' = Streams /\ \A r \in Streams : DOMAIN thread'[r] = TFields
         /\ \A r \in Streams \ {p} : pls'[r] = pls[r] /\ thread'[r] = thread[r]
         /\ pls'[p].buffer = pls[p].buffer /\ pls'[p].open = pls[p].open
         /\ thread'[p].cancelled = thread[p].cancelled /\ thread'[p].oplsc = plsc
         /\ DOMAIN blank' = Streams /\ pls'[p].nopause = pls[p].nopause
         /\ \/ thread'[p].pc = "expose" /\ pls' = pls
            \/ thread'[p].pc = "replay" /\ thread'[p].write = pls[p].write /\ pls'[p].canvas = {}
<1> DEFINE e == queue[First(Waiting(p))]
<1>1. At(p, "held") /\ plsc' = p /\ UNCHANGED << program, mutex, main, meant, lines >>
  BY DEF ThreadTake, Aside
<1>0. DOMAIN blank' = Streams
  BY DEF ThreadTake, Refreshed, Shape
<1>2. CASE e.type = "resize" /\ e.width # pls[p].width
  <2>1. /\ pls' = [pls EXCEPT ![p].width = e.width, ![p].canvas = {},
                              ![p].write = FALSE, ![p].read = TRUE]
        /\ thread' = [thread EXCEPT ![p] = [@ EXCEPT
                !.pc = "replay", !.oplsc = plsc, !.k = 1,
                !.top = Len(pls[p].buffer), !.write = pls[p].write]]
    BY <1>2 DEF ThreadTake
  <2>2. /\ DOMAIN pls' = Streams /\ \A r \in Streams : DOMAIN pls'[r] = Fields
        /\ \A r \in Streams \ {p} : pls'[r] = pls[r]
        /\ pls'[p].buffer = pls[p].buffer /\ pls'[p].open = pls[p].open /\ pls'[p].canvas = {}
        /\ pls'[p].nopause = pls[p].nopause
    BY <2>1 DEF Shape, Fields, NewStream
  <2>3. /\ DOMAIN thread' = Streams /\ \A r \in Streams : DOMAIN thread'[r] = TFields
        /\ \A r \in Streams \ {p} : thread'[r] = thread[r]
        /\ thread'[p].pc = "replay" /\ thread'[p].cancelled = thread[p].cancelled
        /\ thread'[p].write = pls[p].write /\ thread'[p].oplsc = plsc
    BY <2>1 DEF Shape, TFields, NewThread
  <2> QED BY <1>0, <1>1, <2>2, <2>3
<1>3. CASE ~ (e.type = "resize" /\ e.width # pls[p].width)
  <2>1. thread' = [thread EXCEPT ![p].pc = "expose", ![p].oplsc = plsc] /\ pls' = pls
    BY <1>3 DEF ThreadTake
  <2> QED BY <1>0, <1>1, <2>1 DEF Shape, Streams, TFields, NewThread
<1> QED BY <1>2, <1>3

\* Every step keeps the fields of the records.
LEMMA ShapeStep == Shape /\ [Next]_vars => Shape'
<1> SUFFICES ASSUME Shape, [Next]_vars PROVE Shape'
  OBVIOUS
<1>1. CASE User
  BY <1>1 DEF User, Shape, Streams, Fields, TFields, MFields, NewStream, NewThread, Idle, Calling, InHand
<1>2. CASE Plsstrm
  BY <1>2 DEF Plsstrm, Shape, Streams, Fields, TFields, MFields, NewStream, NewThread, Idle,
       Calling, InHand, Goes, Rest
<1>3. CASE LineRecord
  BY <1>3 DEF LineRecord, Shape, Streams, Fields, TFields, MFields, NewStream, NewThread, Idle,
       Calling, InHand, Goes, Rest
<1>4. CASE LineCall
  BY <1>4 DEF LineCall, Shape, Streams, Fields, TFields, MFields, NewStream, NewThread, Idle,
       Calling, InHand, Goes, Rest
<1>5. CASE LineLock
  BY <1>5 DEF LineLock, Shape, Streams, Fields, TFields, MFields, NewStream, NewThread, Idle,
       Calling, InHand, Goes, Rest
<1>6. CASE HandleEvents
  <2>1. main.pls \in Streams
    BY <1>6, HandleCases DEF Shape, Calling
  <2>2. CASE \E e, q : MasterEH(main.pls, e, q)
    BY <1>6, <2>1, <2>2, HandleCases, MasterShape DEF Rest, Shape, Streams
  <2> QED BY <1>6, <2>2, HandleCases DEF Shape, Streams, Fields, TFields, MFields, NewStream,
       NewThread, Idle, Calling, InHand, Goes, Rest
<1>7. CASE LineDraw
  BY <1>7 DEF LineDraw, Shape, Streams, Fields, TFields, MFields, NewStream, NewThread, Idle,
       Calling, InHand, Goes, Rest
<1>8. CASE Call
  BY <1>8 DEF Call, Shape, Streams, Fields, TFields, MFields, NewStream, NewThread, Idle, Calling, InHand,
       Goes, Rest
<1>9. CASE BopClear
  BY <1>9 DEF BopClear, Shape, Streams, Fields, TFields, MFields, NewStream, NewThread, Idle,
       Calling, InHand, Goes, Rest
<1>10. CASE BopRecord
  BY <1>10 DEF BopRecord, Shape, Streams, Fields, TFields, MFields, NewStream, NewThread, Idle,
       Calling, InHand, Goes, Rest
<1>11. CASE Wait
  BY <1>11 DEF Wait, Shape, Streams, Fields, TFields, MFields, NewStream, NewThread, Idle,
       Calling, InHand, Goes, Rest
<1>12. CASE WaitForPage
  <2>1. main.pls \in Streams
    BY <1>12, WaitCases DEF Shape, Calling
  <2>2. CASE \E e, q : MasterEH(main.pls, e, q)
    BY <1>12, <2>1, <2>2, WaitCases, MasterShape DEF Rest, Shape, Streams
  <2> QED BY <1>12, <2>2, WaitCases DEF Shape, Streams, Fields, TFields, MFields, NewStream,
       NewThread, Idle, Calling, InHand, Goes, Rest
<1>13. CASE TidyCancel
  BY <1>13 DEF TidyCancel, Shape, Streams, Fields, TFields, MFields, NewStream, NewThread, Idle,
       Calling, InHand, Goes
<1>14. CASE Tidy
  BY <1>14 DEF Tidy, Shape, Streams, Fields, TFields, MFields, NewStream, NewThread, Idle,
       Calling, InHand, Goes, Rest
<1>15. ASSUME NEW p \in Streams, ThreadStart(p) PROVE Shape'
  BY <1>15 DEF ThreadStart, Shape, Streams, Fields, TFields, MFields, NewStream, NewThread, Idle,
       Calling, InHand, At, Now, Held, Aside
<1>16. ASSUME NEW p \in Streams, ThreadCancelled(p) PROVE Shape'
  BY <1>16 DEF ThreadCancelled, Shape, Streams, Fields, TFields, MFields, NewStream, NewThread,
       Idle, Calling, InHand, At, Now, Held, Aside
<1>17. ASSUME NEW p \in Streams, ThreadLock(p) PROVE Shape'
  BY <1>17 DEF ThreadLock, Shape, Streams, Fields, TFields, MFields, NewStream, NewThread, Idle,
       Calling, InHand, At, Now, Held, Aside
<1>18. ASSUME NEW p \in Streams, ThreadTake(p) PROVE Shape'
  BY <1>18, TakeEffect DEF Shape, Streams
<1>19. ASSUME NEW p \in Streams, ThreadExposed(p) PROVE Shape'
  BY <1>19 DEF ThreadExposed, Shape, Streams, Fields, TFields, MFields, NewStream, NewThread,
       Idle, Calling, InHand, At, Now, Held, Aside
<1>20. ASSUME NEW p \in Streams, ThreadReplay(p) PROVE Shape'
  BY <1>20 DEF ThreadReplay, Shape, Streams, Fields, TFields, MFields, NewStream, NewThread, Idle,
       Calling, InHand, At, Now, Held, Aside
<1>21. ASSUME NEW p \in Streams, ThreadReplayed(p) PROVE Shape'
  BY <1>21 DEF ThreadReplayed, Shape, Streams, Fields, TFields, MFields, NewStream, NewThread,
       Idle, Calling, InHand, At, Now, Held, Aside
<1>22. ASSUME NEW p \in Streams, ThreadUnlock(p) PROVE Shape'
  BY <1>22 DEF ThreadUnlock, Shape, Streams, Fields, TFields, MFields, NewStream, NewThread, Idle,
       Calling, InHand, At, Now, Held, Aside
<1>23. ASSUME NEW p \in Streams, ThreadWake(p) PROVE Shape'
  BY <1>23 DEF ThreadWake, Shape, Streams, Fields, TFields, MFields, NewStream, NewThread, Idle,
       Calling, InHand, At, Now, Held, Aside
<1>24. CASE ResizeDrop
  BY <1>24 DEF ResizeDrop, Shape, Streams, Fields, TFields, MFields, NewStream, NewThread, Idle,
       Calling, InHand, Goes, Rest
<1>25. CASE Close
  BY <1>25 DEF Close, Shape, Streams, Fields, TFields, MFields, NewStream, NewThread, Idle,
       Calling, InHand, Goes, Rest
<1>26. ASSUME NEW p \in Streams, ThreadDrop(p) PROVE Shape'
  BY <1>26 DEF ThreadDrop, Shape, Streams, Fields, TFields, MFields, NewStream, NewThread, Idle,
       Calling, InHand, At, Now, Held, Aside
<1>27. CASE UNCHANGED vars
  BY <1>27 DEF vars, Shape, Streams
<1> QED BY <1>1, <1>2, <1>3, <1>4, <1>5, <1>6, <1>7, <1>8, <1>9, <1>10, <1>11, <1>12,
           <1>13, <1>14, <1>15, <1>16, <1>17, <1>18, <1>19, <1>20, <1>21, <1>22, <1>23, <1>24,
           <1>25, <1>26, <1>27
     DEF Next, Main, Draw, Pages, Thread, Streams

\* The program is the same in every step.
LEMMA ProgramStays == [Next]_vars => program' = program
<1>1. ASSUME Main PROVE program' = program
  BY <1>1 DEF Main, Draw, Pages, Plsstrm, LineRecord, LineCall, LineLock, HandleEvents, LineDraw,
       ResizeDrop, Call, BopClear, BopRecord, Wait, WaitForPage, TidyCancel, Tidy, Close, Rest
<1>2. ASSUME NEW p \in Streams, Thread(p) PROVE program' = program
  BY <1>2 DEF Thread, ThreadStart, ThreadCancelled, ThreadLock, ThreadTake, ThreadExposed,
       ThreadReplay, ThreadReplayed, ThreadDrop, ThreadUnlock, ThreadWake, Aside
<1> QED BY <1>1, <1>2 DEF Next, User, Streams, vars

\* The critical sections of the program and of the threads exclude one another,
\* and a thread that is cancelled is in none.
LEMMA MutexStep == Mutex /\ [Next]_vars => Mutex'
<1> SUFFICES ASSUME Mutex, [Next]_vars PROVE OneDraws' /\ CancelledRests'
  BY ShapeStep DEF Mutex
<1> USE DEF Mutex
<1>0. Free \notin Streams /\ Prog \notin Streams /\ Free # Prog
  BY StreamsApart DEF Shape
<1>1. CASE User
  BY <1>0, <1>1 DEF User, OneDraws, CancelledRests, InDriver, Shape, Streams, Resting, MFields,
       Idle, Calling
<1>2. CASE Plsstrm
  BY <1>0, <1>2 DEF Plsstrm, OneDraws, CancelledRests, InDriver, Shape, Streams, Resting, MFields,
       Idle, Calling, Goes, Rest
<1>3. CASE LineRecord
  BY <1>0, <1>3 DEF LineRecord, OneDraws, CancelledRests, InDriver, Shape, Streams, Resting,
       MFields, Idle, Calling, Goes, Rest
<1>4. CASE LineCall
  BY <1>0, <1>4 DEF LineCall, OneDraws, CancelledRests, InDriver, Shape, Streams, Resting,
       MFields, Idle, Calling, Goes, Rest
<1>5. CASE LineLock
  BY <1>0, <1>5 DEF LineLock, OneDraws, CancelledRests, InDriver, Shape, Streams, Resting,
       MFields, Idle, Calling, Goes, Rest
<1>6. CASE HandleEvents
  <2>1. main.pls \in Streams
    BY <1>6, HandleCases DEF Shape, Calling
  <2>2. CASE \E e, q : MasterEH(main.pls, e, q)
    BY <1>0, <1>6, <2>1, <2>2, HandleCases, MasterShape DEF Rest, OneDraws, CancelledRests, InDriver,
         Streams, Resting
  <2> QED BY <1>0, <1>6, <2>2, HandleCases DEF OneDraws, CancelledRests, InDriver, Shape, Streams, Resting,
       MFields, Idle, Calling, Goes, Rest
<1>7. CASE LineDraw
  BY <1>0, <1>7 DEF LineDraw, OneDraws, CancelledRests, InDriver, Shape, Streams, Resting,
       MFields, Idle, Calling, Goes, Rest
<1>8. CASE Call
  BY <1>0, <1>8 DEF Call, OneDraws, CancelledRests, InDriver, Shape, Streams, Resting, MFields,
       Idle, Calling, Goes, Rest
<1>9. CASE BopClear
  BY <1>0, <1>9 DEF BopClear, OneDraws, CancelledRests, InDriver, Shape, Streams, Resting,
       MFields, Idle, Calling, Goes, Rest
<1>10. CASE BopRecord
  BY <1>0, <1>10 DEF BopRecord, OneDraws, CancelledRests, InDriver, Shape, Streams, Resting,
       MFields, Idle, Calling, Goes, Rest
<1>11. CASE Wait
  BY <1>0, <1>11 DEF Wait, OneDraws, CancelledRests, InDriver, Shape, Streams, Resting, MFields,
       Idle, Calling, Goes, Rest
<1>12. CASE WaitForPage
  <2>1. main.pls \in Streams
    BY <1>12, WaitCases DEF Shape, Calling
  <2>2. CASE \E e, q : MasterEH(main.pls, e, q)
    <3>1. UNCHANGED << program, thread >> /\ main.pc = "wait" /\ mutex' \in {mutex, Free}
      BY <1>12, WaitCases DEF Rest
    <3>2. main'.pc = "wait" /\ main'.pls = main.pls
      BY <2>1, <2>2, <3>1, MasterShape
    <3>3. main' # Idle
      BY <3>2 DEF Idle
    <3>4. mutex' = mutex
      BY <1>12, <3>3, WaitCases
    <3> QED BY <3>1, <3>2, <3>4 DEF OneDraws, CancelledRests, InDriver, Streams, Resting
  <2> QED BY <1>0, <1>12, <2>2, WaitCases DEF OneDraws, CancelledRests, InDriver, Shape, Streams, Resting,
       MFields, Idle, Calling, Goes, Rest
<1>13. CASE TidyCancel
  BY <1>0, <1>13 DEF TidyCancel, OneDraws, CancelledRests, InDriver, Shape, Streams, Resting,
       MFields, Idle, Calling, Goes, TFields, NewThread
<1>14. CASE Tidy
  BY <1>0, <1>14 DEF Tidy, OneDraws, CancelledRests, InDriver, Shape, Streams, Resting, MFields,
       Idle, Calling, Goes, Rest
<1>15. ASSUME NEW p \in Streams, ThreadStart(p) PROVE OneDraws' /\ CancelledRests'
  BY <1>0, <1>15 DEF ThreadStart, OneDraws, CancelledRests, InDriver, Shape, Streams, Resting,
       TFields, NewThread, At, Now, Held, Aside
<1>16. ASSUME NEW p \in Streams, ThreadCancelled(p) PROVE OneDraws' /\ CancelledRests'
  BY <1>0, <1>16 DEF ThreadCancelled, OneDraws, CancelledRests, InDriver, Shape, Streams, Resting,
       TFields, NewThread, At, Now, Held, Aside
<1>17. ASSUME NEW p \in Streams, ThreadLock(p) PROVE OneDraws' /\ CancelledRests'
  BY <1>0, <1>17 DEF ThreadLock, OneDraws, CancelledRests, InDriver, Shape, Streams, Resting,
       TFields, NewThread, At, Now, Held, Aside
<1>18. ASSUME NEW p \in Streams, ThreadTake(p) PROVE OneDraws' /\ CancelledRests'
  BY <1>0, <1>18, TakeEffect DEF OneDraws, CancelledRests, InDriver, Shape, Streams, Resting, At
<1>19. ASSUME NEW p \in Streams, ThreadExposed(p) PROVE OneDraws' /\ CancelledRests'
  BY <1>0, <1>19 DEF ThreadExposed, OneDraws, CancelledRests, InDriver, Shape, Streams, Resting,
       TFields, NewThread, At, Now, Held, Aside
<1>20. ASSUME NEW p \in Streams, ThreadReplay(p) PROVE OneDraws' /\ CancelledRests'
  BY <1>0, <1>20 DEF ThreadReplay, OneDraws, CancelledRests, InDriver, Shape, Streams, Resting,
       TFields, NewThread, At, Now, Held, Aside
<1>21. ASSUME NEW p \in Streams, ThreadReplayed(p) PROVE OneDraws' /\ CancelledRests'
  BY <1>0, <1>21 DEF ThreadReplayed, OneDraws, CancelledRests, InDriver, Shape, Streams, Resting,
       TFields, NewThread, At, Now, Held, Aside
<1>22. ASSUME NEW p \in Streams, ThreadUnlock(p) PROVE OneDraws' /\ CancelledRests'
  BY <1>0, <1>22 DEF ThreadUnlock, OneDraws, CancelledRests, InDriver, Shape, Streams, Resting,
       TFields, NewThread, At, Now, Held, Aside
<1>23. ASSUME NEW p \in Streams, ThreadWake(p) PROVE OneDraws' /\ CancelledRests'
  BY <1>0, <1>23 DEF ThreadWake, OneDraws, CancelledRests, InDriver, Shape, Streams, Resting,
       TFields, NewThread, At, Now, Held, Aside
<1>24. CASE ResizeDrop
  BY <1>0, <1>24 DEF ResizeDrop, OneDraws, CancelledRests, InDriver, Shape, Streams, Resting,
       MFields, Idle, Calling, Goes, Rest
<1>25. CASE Close
  BY <1>0, <1>25 DEF Close, OneDraws, CancelledRests, InDriver, Shape, Streams, Resting,
       MFields, Idle, Calling, Goes, Rest
<1>26. ASSUME NEW p \in Streams, ThreadDrop(p) PROVE OneDraws' /\ CancelledRests'
  BY <1>0, <1>26 DEF ThreadDrop, OneDraws, CancelledRests, InDriver, Shape, Streams, Resting,
       TFields, NewThread, At, Now, Held, Aside
<1>27. CASE UNCHANGED vars
  BY <1>27 DEF vars, OneDraws, CancelledRests, InDriver, Shape, Streams, Resting
<1> QED BY <1>1, <1>2, <1>3, <1>4, <1>5, <1>6, <1>7, <1>8, <1>9, <1>10, <1>11, <1>12,
           <1>13, <1>14, <1>15, <1>16, <1>17, <1>18, <1>19, <1>20, <1>21, <1>22, <1>23, <1>24,
           <1>25, <1>26, <1>27
     DEF Next, Main, Draw, Pages, Thread, Streams

\* Nobody but the holder of events_mutex draws, takes events or cancels a thread:
\* the program between lock and unlock of its driver call, or one thread.
THEOREM OneDrawsHolds == Spec => []OneDraws
<1> Mutex => OneDraws
  BY DEF Mutex
<1> QED BY MutexInit, MutexStep, PTL DEF Spec
-----------------------------------------------------------------------------
(* The streams that record.                                                *)

\* A stream records and is not read but in the replay of its own thread, which
\* has kept what to go back to.
Kept == \A p \in Streams :
  /\ thread[p].pc = "replay" \/ (pls[p].write = TRUE /\ pls[p].read = FALSE)
  /\ thread[p].pc = "replay" => thread[p].write = TRUE

\* It holds at first.
LEMMA KeptInit == Init => Kept
BY DEF Init, Kept, NewStream, NewThread, Streams

\* The replay of a thread gives back what it found.
LEMMA KeptStep == Mutex /\ Kept /\ [Next]_vars => Kept'
<1> SUFFICES ASSUME Mutex, Kept, [Next]_vars PROVE Kept'
  OBVIOUS
<1>0. Shape
  BY DEF Mutex
<1>1. CASE User
  BY <1>0, <1>1 DEF User, Kept, Shape, Streams, Fields, NewStream
<1>2. CASE Plsstrm
  BY <1>0, <1>2 DEF Plsstrm, Kept, Shape, Streams, Fields, NewStream, Goes, Rest,
       MFields, Idle, Calling
<1>3. CASE LineRecord
  BY <1>0, <1>3 DEF LineRecord, Kept, Shape, Streams, Fields, NewStream, Goes,
       Rest, MFields, Idle, Calling
<1>4. CASE LineCall
  BY <1>0, <1>4 DEF LineCall, Kept, Shape, Streams, Fields, NewStream, Goes, Rest,
       MFields, Idle, Calling
<1>5. CASE LineLock
  BY <1>0, <1>5 DEF LineLock, Kept, Shape, Streams, Fields, NewStream, Goes, Rest,
       MFields, Idle, Calling
<1>6. CASE HandleEvents
  <2>1. main.pls \in Streams
    BY <1>0, <1>6, HandleCases DEF Shape, Calling
  <2>2. CASE \E e, q : MasterEH(main.pls, e, q)
    BY <1>0, <1>6, <2>1, <2>2, HandleCases, MasterShape DEF Rest, Kept, Streams
  <2> QED BY <1>0, <1>6, <2>2, HandleCases DEF Kept, Shape, Streams, Fields, NewStream, Rest
<1>7. CASE LineDraw
  BY <1>0, <1>7 DEF LineDraw, Kept, Shape, Streams, Fields, NewStream, Goes, Rest,
       MFields, Idle, Calling
<1>8. CASE Call
  BY <1>0, <1>8 DEF Call, Kept, Shape, Streams, Fields, NewStream, Goes, Rest,
       MFields, Idle, Calling
<1>9. CASE BopClear
  BY <1>0, <1>9 DEF BopClear, Kept, Shape, Streams, Fields, NewStream, Goes, Rest,
       MFields, Idle, Calling
<1>10. CASE BopRecord
  BY <1>0, <1>10 DEF BopRecord, Kept, Shape, Streams, Fields, NewStream, Goes,
       Rest, MFields, Idle, Calling
<1>11. CASE Wait
  BY <1>0, <1>11 DEF Wait, Kept, Shape, Streams, Fields, NewStream, Goes, Rest,
       MFields, Idle, Calling
<1>12. CASE WaitForPage
  <2>1. main.pls \in Streams
    BY <1>0, <1>12, WaitCases DEF Shape, Calling
  <2>2. CASE \E e, q : MasterEH(main.pls, e, q)
    BY <1>0, <1>12, <2>1, <2>2, WaitCases, MasterShape DEF Rest, Kept, Streams
  <2>3. CASE pls' = [pls EXCEPT ![main.pls].exit = FALSE] /\ UNCHANGED << program, thread >>
    BY <1>0, <2>1, <2>3 DEF Kept, Shape, Streams, Fields, NewStream
  <2> QED BY <1>12, <2>2, <2>3, WaitCases DEF Rest
<1>13. CASE TidyCancel
  BY <1>0, <1>13 DEF TidyCancel, Kept, Shape, Streams, Fields, NewStream, Goes,
       TFields, NewThread
<1>14. CASE Tidy
  BY <1>0, <1>14 DEF Tidy, Kept, Shape, Streams, Fields, NewStream, Goes, Rest,
       MFields, Idle, Calling
<1>15. ASSUME NEW p \in Streams, ThreadStart(p) PROVE Kept'
  BY <1>0, <1>15 DEF ThreadStart, Kept, Shape, Streams, Fields, NewStream, TFields,
       NewThread, At, Now, Held, Aside
<1>16. ASSUME NEW p \in Streams, ThreadCancelled(p) PROVE Kept'
  <2>1. ~ InDriver(p)
    <3>1. thread[p].cancelled
      BY <1>16 DEF ThreadCancelled
    <3>2. Prog # p
      BY <1>0, StreamsApart DEF Shape
    <3> QED BY <3>1, <3>2 DEF Mutex, OneDraws, CancelledRests, InDriver, Resting, Streams
  <2> QED BY <1>0, <1>16, <2>1 DEF ThreadCancelled, InDriver, Kept, Shape, Streams,
       Now, Aside, TFields, NewThread
<1>17. ASSUME NEW p \in Streams, ThreadLock(p) PROVE Kept'
  BY <1>0, <1>17 DEF ThreadLock, Kept, Shape, Streams, Fields, NewStream, TFields,
       NewThread, At, Now, Held, Aside
<1>18. ASSUME NEW p \in Streams, ThreadTake(p) PROVE Kept'
  BY <1>0, <1>18, TakeEffect DEF Kept, Shape, Streams, Fields, NewStream, At
<1>19. ASSUME NEW p \in Streams, ThreadExposed(p) PROVE Kept'
  BY <1>0, <1>19 DEF ThreadExposed, Kept, Shape, Streams, Fields, NewStream,
       TFields, NewThread, At, Now, Held, Aside
<1>20. ASSUME NEW p \in Streams, ThreadReplay(p) PROVE Kept'
  BY <1>0, <1>20 DEF ThreadReplay, Kept, Shape, Streams, Fields, NewStream,
       TFields, NewThread, At, Now, Held, Aside
<1>21. ASSUME NEW p \in Streams, ThreadReplayed(p) PROVE Kept'
  BY <1>0, <1>21 DEF ThreadReplayed, Kept, Shape, Streams, Fields, NewStream,
       TFields, NewThread, At, Now, Held, Aside
<1>22. ASSUME NEW p \in Streams, ThreadUnlock(p) PROVE Kept'
  BY <1>0, <1>22 DEF ThreadUnlock, Kept, Shape, Streams, Fields, NewStream,
       TFields, NewThread, At, Now, Held, Aside
<1>23. ASSUME NEW p \in Streams, ThreadWake(p) PROVE Kept'
  BY <1>0, <1>23 DEF ThreadWake, Kept, Shape, Streams, Fields, NewStream, TFields,
       NewThread, At, Now, Held, Aside
<1>24. CASE ResizeDrop
  BY <1>0, <1>24 DEF ResizeDrop, Kept, Shape, Streams, Fields, NewStream, Goes, Rest, MFields, Idle
<1>25. CASE Close
  BY <1>0, <1>25 DEF Close, Kept, Shape, Streams, Fields, NewStream, Goes, Rest, MFields, Idle
<1>26. ASSUME NEW p \in Streams, ThreadDrop(p) PROVE Kept'
  BY <1>0, <1>26 DEF ThreadDrop, Kept, Shape, Streams, Fields, NewStream, TFields, NewThread, At,
       Held, Aside
<1>27. CASE UNCHANGED vars
  BY <1>27 DEF vars, Kept, Streams
<1> QED BY <1>1, <1>2, <1>3, <1>4, <1>5, <1>6, <1>7, <1>8, <1>9, <1>10, <1>11, <1>12,
           <1>13, <1>14, <1>15, <1>16, <1>17, <1>18, <1>19, <1>20, <1>21, <1>22, <1>23, <1>24,
           <1>25, <1>26, <1>27
     DEF Next, Main, Draw, Pages, Thread, Streams

\* Together they are invariant.
LEMMA KeptHolds == Spec => [](Mutex /\ Kept)
BY MutexInit, MutexStep, KeptInit, KeptStep, PTL DEF Spec

\* Whoever finds the mutex free finds streams that record and are not read: the
\* replay of one thread is never seen by the program or by another thread.
THEOREM RecordingHolds == Spec => []Recording
<1> Mutex /\ Kept => Recording
  <2> SUFFICES ASSUME Mutex, Kept, mutex \in {Free, Prog}, NEW p \in Streams
               PROVE  pls[p].write = TRUE /\ pls[p].read = FALSE
    BY DEF Recording, Streams
  <2>1. mutex # p
    BY StreamsApart DEF Mutex, Shape
  <2> QED BY <2>1 DEF Mutex, OneDraws, InDriver, Kept, Streams
<1> QED BY KeptHolds, PTL
-----------------------------------------------------------------------------
(* The ends of the streams.                                                *)

\* The thread of a stream that is freed, or about to be, has come to its end.
Ends ==
  /\ \A p \in Streams : pls[p].open \in BOOLEAN
  /\ Followed => \A p \in Streams : pls[p].open = TRUE \/ thread[p].pc \in Resting
  /\ main.pc = "closing" => thread[main.pls].pc \in Resting

\* What plsc points to, and what a thread with an event gives back to it, is not
\* freed until all are; a thread with an event is not seen by plend1 unless plsc
\* points to its stream; and it takes two streams to free the wrong one.
Points ==
  /\ Followed /\ main.pc # "end" => pls[plsc].open = TRUE
  /\ Followed /\ main.pc # "end" =>
       \A p \in Streams : thread[p].pc \in InHand => pls[thread[p].oplsc].open = TRUE
  /\ main.pc = "end" => \A p \in Streams : pls[p].open # TRUE
  /\ main.pc = "closing" => \A p \in Streams : thread[p].pc \in InHand => plsc = p
  /\ ~ Followed => \E p, q \in Streams : p # q

\* It holds at first.
LEMMA EndsInit == Init => Ends /\ Points
<1> SUFFICES ASSUME Init PROVE Ends /\ Points
  OBVIOUS
<1>1. \A p \in Streams : pls[p].open = TRUE /\ thread[p].pc \notin InHand
  BY DEF Init, NewStream, NewThread, InHand, Streams
<1>2. main.pc = "idle" /\ plsc \in Streams
  BY DEF Init, Idle, Streams
<1> QED BY <1>1, <1>2 DEF Ends, Points, Followed

\* A step that frees no stream and moves neither plsc nor a thread.
OpenStays == \A r \in Streams : pls'[r].open = pls[r].open
Still ==
  /\ program' = program /\ plsc' = plsc /\ OpenStays
  /\ \A r \in Streams : thread'[r].pc = thread[r].pc /\ thread'[r].oplsc = thread[r].oplsc
  /\ \/ main'.pc = main.pc /\ main'.pls = main.pls
     \/ {main.pc, main'.pc} \cap {"closing", "end", "lost"} = {}

\* Such a step leaves all as it was.
LEMMA StillEnds == Shape /\ Ends /\ Points /\ Still => Ends' /\ Points'
<1> SUFFICES ASSUME Shape, Ends, Points, Still PROVE Ends' /\ Points'
  OBVIOUS
<1>1. Streams' = Streams /\ plsc \in Streams
  BY DEF Still, Streams, Shape
<1>2. \A p \in Streams : thread[p].pc \in InHand => thread[p].oplsc \in Streams
  BY DEF Shape
<1>3. main'.pc = "closing" => main'.pls \in Streams /\ main.pc = "closing" /\ main'.pls = main.pls
  BY DEF Still, Shape, Calling
<1>4. /\ main'.pc = "lost" <=> main.pc = "lost"
      /\ main'.pc = "end" <=> main.pc = "end"
  BY DEF Still
<1>5. Ends'
  BY <1>1, <1>3, <1>4 DEF Ends, Still, OpenStays, Followed
<1>6. Points'
  BY <1>1, <1>2, <1>3, <1>4 DEF Points, Still, OpenStays, Followed
<1> QED BY <1>5, <1>6

\* A step of thread p that is not at its end: it takes no event in hand, or it
\* keeps the one it has, or it takes plsc for its own stream or gives it back.
Moves(p) ==
  /\ program' = program /\ OpenStays /\ main' = main /\ thread[p].pc \notin Resting
  /\ \A r \in Streams \ {p} : thread'[r] = thread[r]
  /\ \/ plsc' = plsc /\ thread'[p].pc \notin InHand
     \/ plsc' = plsc /\ thread[p].pc \in InHand /\ thread'[p].oplsc = thread[p].oplsc
     \/ plsc' = p /\ mutex = p /\ thread'[p].oplsc = plsc
     \/ /\ thread[p].pc \in InHand /\ mutex = p
        /\ plsc' = thread[p].oplsc /\ thread'[p].pc \notin InHand

\* Such a step finds the stream of the thread open, and no other at work.
LEMMA MovesEnds ==
  ASSUME Mutex, Ends, Points, Followed, NEW p \in Streams, Moves(p)
  PROVE  Ends' /\ Points'
<1>1. Streams' = Streams /\ plsc \in Streams /\ Shape
  BY DEF Moves, Streams, Shape, Mutex
<1>2. pls[p].open = TRUE /\ main.pc # "end"
  BY DEF Moves, Ends, Points
<1>3. mutex = p => \A r \in Streams \ {p} : thread[r].pc \notin InHand
  BY DEF Mutex, OneDraws, InDriver, InHand, Streams
<1>4. \A r \in Streams : thread[r].pc \in InHand => thread[r].oplsc \in Streams /\ pls[thread[r].oplsc].open = TRUE
  BY <1>1, <1>2 DEF Shape, Points
<1>5. main.pc = "closing" => main.pls \in Streams /\ main.pls # p
  BY <1>1 DEF Shape, Calling, Ends, Moves
<1>6. Ends'
  BY <1>1, <1>2, <1>5 DEF Ends, Moves, OpenStays, Followed
<1>7. pls'[p].open = TRUE /\ pls'[plsc].open = TRUE /\ Followed' /\ main'.pc = main.pc /\ main'.pc # "end"
  BY <1>1, <1>2 DEF Moves, OpenStays, Points, Followed
<1>8. pls'[plsc'].open = TRUE
  BY <1>4, <1>7 DEF Moves, OpenStays
<1>9. ASSUME NEW r \in Streams, thread'[r].pc \in InHand PROVE pls'[thread'[r].oplsc].open = TRUE
  <2>1. CASE r = p
    BY <1>4, <1>7, <1>9, <2>1 DEF Moves, OpenStays
  <2>2. CASE r # p
    BY <1>4, <1>9, <2>2 DEF Moves, OpenStays
  <2> QED BY <2>1, <2>2
<1>10. ASSUME main'.pc = "closing", NEW r \in Streams, thread'[r].pc \in InHand PROVE plsc' = r
  <2>1. main.pc = "closing"
    BY <1>7, <1>10
  <2>2. CASE r = p
    BY <1>10, <2>1, <2>2 DEF Moves, Points
  <2>3. CASE r # p
    <3>1. thread[r].pc \in InHand /\ mutex # p
      BY <1>3, <1>10, <2>3 DEF Moves
    <3> QED BY <2>1, <3>1 DEF Moves, Points
  <2> QED BY <2>2, <2>3
<1>11. Points'
  BY <1>1, <1>7, <1>8, <1>9, <1>10 DEF Points
<1> QED BY <1>6, <1>11

\* A step of a thread is such a one.
LEMMA ThreadMoves ==
  ASSUME Mutex, NEW p \in Streams, Thread(p), program' = program
  PROVE  Moves(p)
<1>1. Shape
  BY DEF Mutex
<1>2. main' = main
  BY DEF Thread, ThreadStart, ThreadCancelled, ThreadLock, ThreadTake, ThreadExposed, ThreadReplay,
       ThreadReplayed, ThreadDrop, ThreadUnlock, ThreadWake, Aside
<1>3. thread[p].pc \notin Resting /\ \A r \in Streams \ {p} : thread'[r] = thread[r]
  BY <1>1, TakeEffect DEF Thread, ThreadStart, ThreadCancelled, ThreadLock, ThreadExposed,
       ThreadReplay, ThreadReplayed, ThreadDrop, ThreadUnlock, ThreadWake, At, Now, Held, Resting, Shape
<1>4. OpenStays
  <2>1. CASE ThreadTake(p)
    BY <1>1, <2>1, TakeEffect DEF OpenStays
  <2>2. CASE ThreadReplay(p)
    BY <1>1, <2>2 DEF ThreadReplay, OpenStays, Shape, Fields, NewStream
  <2>3. CASE ThreadReplayed(p)
    BY <1>1, <2>3 DEF ThreadReplayed, OpenStays, Shape, Fields, NewStream
  <2> QED BY <2>1, <2>2, <2>3 DEF Thread, ThreadStart, ThreadCancelled, ThreadLock, ThreadExposed,
       ThreadDrop, ThreadUnlock, ThreadWake, OpenStays
<1>5. InDriver(p) => mutex = p
  BY DEF Mutex, OneDraws, Streams
<1>6. \/ plsc' = plsc /\ thread'[p].pc \notin InHand
      \/ plsc' = plsc /\ thread[p].pc \in InHand /\ thread'[p].oplsc = thread[p].oplsc
      \/ plsc' = p /\ mutex = p /\ thread'[p].oplsc = plsc
      \/ /\ thread[p].pc \in InHand /\ mutex = p
         /\ plsc' = thread[p].oplsc /\ thread'[p].pc \notin InHand
  <2>1. CASE ThreadTake(p)
    BY <1>1, <1>5, <2>1, TakeEffect DEF At, InDriver
  <2>2. CASE ThreadExposed(p) \/ ThreadDrop(p)
    BY <1>1, <1>5, <2>2 DEF ThreadExposed, ThreadDrop, At, Held, InHand, InDriver, Shape, NewThread
  <2>3. CASE ThreadReplay(p) \/ ThreadReplayed(p)
    BY <1>1, <2>3 DEF ThreadReplay, ThreadReplayed, At, Now, InHand, Shape, TFields, NewThread
  <2>4. CASE ThreadStart(p) \/ ThreadCancelled(p) \/ ThreadLock(p) \/ ThreadUnlock(p) \/ ThreadWake(p)
    BY <1>1, <2>4 DEF ThreadStart, ThreadCancelled, ThreadLock, ThreadUnlock, ThreadWake, At, Now,
         InHand, Shape, TFields, NewThread
  <2> QED BY <2>1, <2>2, <2>3, <2>4 DEF Thread
<1> QED BY <1>2, <1>3, <1>4, <1>6 DEF Moves

\* Most steps of the program, and those of the user, change none of this.
LEMMA CallsStill ==
  ASSUME Shape, program' = program, User \/ ((Draw \/ Call \/ Pages) /\ ~ TidyCancel)
  PROVE  Still
<1>1. CASE User \/ LineCall \/ LineLock \/ ResizeDrop \/ Call \/ Wait
  BY <1>1 DEF User, LineCall, LineLock, ResizeDrop, Call, Wait, Goes, Rest, Still, OpenStays, Shape,
       MFields, Idle
<1>2. CASE LineRecord \/ LineDraw \/ BopClear \/ BopRecord
  BY <1>2 DEF LineRecord, LineDraw, BopClear, BopRecord, Goes, Rest, Still, OpenStays, Shape, Fields,
       NewStream, MFields, Idle
<1>3. CASE HandleEvents
  <2>1. main.pls \in Streams
    BY <1>3, HandleCases DEF Shape, Calling
  <2>2. CASE \E e, q : MasterEH(main.pls, e, q)
    BY <1>3, <2>1, <2>2, HandleCases, MasterShape DEF Rest, Still, OpenStays
  <2> QED BY <1>3, <2>2, HandleCases DEF Rest, Still, OpenStays, Shape, MFields, Idle
<1>4. CASE WaitForPage
  <2>1. main.pls \in Streams
    BY <1>4, WaitCases DEF Shape, Calling
  <2>2. CASE \E e, q : MasterEH(main.pls, e, q)
    BY <1>4, <2>1, <2>2, WaitCases, MasterShape DEF Rest, Still, OpenStays
  <2>3. CASE pls' = [pls EXCEPT ![main.pls].exit = FALSE] /\ main' = Idle
    BY <1>4, <2>1, <2>3, WaitCases DEF Rest, Still, OpenStays, Shape, Fields, NewStream, Idle
  <2> QED BY <1>4, <2>2, <2>3, WaitCases
<1> QED BY <1>1, <1>2, <1>3, <1>4 DEF Draw, Pages

\* plend1 frees a stream only when its thread has ended.
LEMMA EndsStep == Mutex /\ Ends /\ Points /\ [Next]_vars => Ends' /\ Points'
<1> SUFFICES ASSUME Mutex, Ends, Points, [Next]_vars PROVE Ends' /\ Points'
  OBVIOUS
<1>0. Shape /\ program' = program /\ Streams' = Streams /\ plsc \in Streams
  BY ProgramStays DEF Mutex, Streams, Shape
<1>1. CASE User \/ ((Draw \/ Call \/ Pages) /\ ~ TidyCancel)
  BY <1>0, <1>1, CallsStill, StillEnds
<1>2. CASE Followed /\ Plsstrm
  <2>1. /\ plsc' \in Streams /\ pls[plsc'].open /\ main.pc = "idle"
        /\ UNCHANGED << pls, main, thread >>
    BY <1>2 DEF Plsstrm, Goes, Rest, Streams
  <2>2. pls[plsc'].open = TRUE
    BY <2>1, <1>0 DEF Ends
  <2> QED BY <1>0, <2>1, <2>2 DEF Ends, Points, Followed
<1>3. CASE Followed /\ TidyCancel
  <2>1. /\ \A r \in Streams : thread'[r].pc = thread[r].pc /\ thread'[r].oplsc = thread[r].oplsc
        /\ main.pc = "tidyLock" /\ main'.pc = "tidy" /\ UNCHANGED << plsc, pls >>
    BY <1>0, <1>3 DEF TidyCancel, Goes, Shape, TFields, NewThread, MFields, Idle
  <2>2. Still
    BY <1>0, <2>1 DEF Still, OpenStays
  <2> QED BY <1>0, <2>2, StillEnds
<1>4. CASE Followed /\ Tidy
  <2>1. /\ main.pc = "tidy" /\ thread[main.pls].pc \in Resting /\ main.pls \in Streams
        /\ main'.pc = "closing" /\ main'.pls = main.pls /\ UNCHANGED << plsc, pls, thread >>
    BY <1>0, <1>4 DEF Tidy, Goes, Rest, Resting, Shape, Calling, MFields, Idle
  <2>2. \A r \in Streams : thread[r].pc \notin InHand
    <3>1. mutex = Prog /\ Prog \notin Streams
      BY <1>0, <2>1, StreamsApart DEF Mutex, OneDraws, Shape
    <3> QED BY <3>1 DEF Mutex, OneDraws, InDriver, InHand, Streams
  <2> QED BY <1>0, <2>1, <2>2 DEF Ends, Points, Followed
<1>5. CASE Followed /\ Close
  <2>1. /\ main.pc = "closing" /\ main.pls \in Streams
        /\ pls' = [pls EXCEPT ![plsc].open = FALSE] /\ thread' = thread
    BY <1>0, <1>5 DEF Close, Goes, Rest, Shape, Calling
  <2>2. /\ pls'[plsc].open = FALSE /\ \A r \in Streams \ {plsc} : pls'[r] = pls[r]
    BY <1>0, <2>1 DEF Shape, Fields, NewStream
  <2>3. thread[main.pls].pc \in Resting
    BY <2>1 DEF Ends
  <2> DEFINE left == {p \in program.streams \ {plsc} : pls[p].open}
  <2>4. CASE {main.pls, meant} # {plsc} /\ main' = [main EXCEPT !.pc = "lost"]
    <3>1. main'.pc = "lost"
      BY <1>0, <2>4 DEF Shape, MFields, Idle
    <3>2. meant \in Streams
      BY <1>0 DEF Shape
    <3>3. \E p, q \in Streams : p # q
      BY <1>0, <2>1, <2>4, <3>2
    <3> QED BY <1>0, <2>2, <3>1, <3>3 DEF Ends, Points, Followed
  <2>5. CASE main.pls = plsc /\ plsc' = plsc /\ main' = [Idle EXCEPT !.pc = "end"] /\ left = {}
    <3>1. main'.pc = "end"
      BY <2>5 DEF Idle
    <3>2. \A r \in Streams : pls'[r].open # TRUE
      BY <2>2, <2>5 DEF Streams
    <3>3. \A r \in Streams : thread[r].pc \in Resting
      BY <1>5, <2>2, <2>3, <2>5, <3>2 DEF Ends
    <3> QED BY <1>0, <2>1, <2>2, <3>1, <3>2, <3>3 DEF Ends, Points, Followed
  <2>6. CASE main.pls = plsc /\ main' = Idle /\ plsc' \in left
    <3>1. main'.pc = "idle" /\ plsc' \in Streams \ {plsc} /\ pls[plsc'].open
      BY <2>6 DEF Idle, Streams
    <3>2. pls'[plsc'].open = TRUE
      <4>1. plsc' \in Streams /\ plsc' # plsc
        BY <3>1
      <4>2. pls'[plsc'] = pls[plsc']
        BY <2>2, <4>1
      <4>3. pls[plsc'].open \in BOOLEAN
        BY <4>1 DEF Ends
      <4> QED BY <3>1, <4>2, <4>3
    <3>3. \A r \in Streams : thread[r].pc \notin InHand
      BY <2>1, <2>3, <2>6 DEF Points, Resting, InHand
    <3> QED BY <1>0, <1>5, <2>1, <2>2, <2>3, <2>6, <3>1, <3>2, <3>3 DEF Ends, Points, Followed
  <2> QED BY <1>5, <2>4, <2>5, <2>6 DEF Close
<1>6. ASSUME Followed, NEW p \in Streams, Thread(p) PROVE Ends' /\ Points'
  BY <1>0, <1>6, ThreadMoves, MovesEnds
<1>7. CASE UNCHANGED vars
  BY <1>0, <1>7, StillEnds DEF vars, Still, OpenStays
<1> QED BY <1>1, <1>2, <1>3, <1>4, <1>5, <1>6, <1>7 DEF Next, Main, Draw, Pages, Streams
-----------------------------------------------------------------------------
(* What the windows show.                                                  *)

OneSize == \A p \in Streams : \A m \in pls[p].canvas : m[2] = pls[p].width

\* MasterEH leaves a window as it is, or draws its whole page at its new size,
\* and it may close a stream but does not open one again.
LEMMA MasterCanvas ==
  ASSUME Shape, NEW p \in Streams, NEW e, NEW q, MasterEH(p, e, q)
  PROVE  \A r \in Streams :
           /\ \/ pls'[r].canvas = pls[r].canvas /\ pls'[r].width = pls[r].width
              \/ r = p /\ ~ pls[r].closed /\ pls'[r].canvas = Page(r, pls'[r].width)
              \/ r = p /\ pls'[r].closed /\ pls'[r].canvas = {}
           /\ pls[r].closed => pls'[r].closed
<1>1. CASE pls' = Closed(p)
  BY <1>1 DEF Closed, Shape, Fields, NewStream
<1>2. CASE e.type = "key" /\ pls' = [pls EXCEPT ![p].exit = TRUE]
  BY <1>2 DEF Shape, Fields, NewStream
<1>3. CASE UNCHANGED pls
  BY <1>3
<1>4. CASE pls' = ResizedTo(p, e.width)
  <2> DEFINE page == IF pls[p].closed THEN {} ELSE Page(p, e.width)
  <2>1. pls' = [pls EXCEPT ![p].width = e.width, ![p].canvas = page]
    BY <1>4 DEF ResizedTo
  <2> HIDE DEF page
  <2>2. /\ pls'[p].width = e.width /\ pls'[p].canvas = page /\ pls'[p].closed = pls[p].closed
        /\ \A r \in Streams \ {p} : pls'[r] = pls[r]
    BY <2>1 DEF Shape, Fields, NewStream
  <2> QED BY <2>2 DEF page
<1> QED BY <1>1, <1>2, <1>3, <1>4 DEF MasterEH

\* It holds at first.
LEMMA OneSizeInit == Init => OneSize
BY DEF Init, OneSize, NewStream, Streams

\* No step draws at another size than the window's.
LEMMA OneSizeStep == Shape /\ OneSize /\ [Next]_vars => OneSize'
<1> SUFFICES ASSUME Shape, OneSize, [Next]_vars PROVE OneSize'
  OBVIOUS
<1>1. CASE User
  BY <1>1 DEF User, OneSize, Shape, Streams, Fields, NewStream
<1>2. CASE Plsstrm
  BY <1>2 DEF Plsstrm, OneSize, Shape, Streams, Fields, NewStream, Goes, Rest, Calling
<1>3. CASE LineRecord
  BY <1>3 DEF LineRecord, OneSize, Shape, Streams, Fields, NewStream, Goes, Rest, Calling
<1>4. CASE LineCall
  BY <1>4 DEF LineCall, OneSize, Shape, Streams, Fields, NewStream, Goes, Rest, Calling
<1>5. CASE LineLock
  BY <1>5 DEF LineLock, OneSize, Shape, Streams, Fields, NewStream, Goes, Rest, Calling
<1>6. CASE HandleEvents
  <2>1. main.pls \in Streams
    BY <1>6, HandleCases DEF Shape, Calling
  <2>2. CASE \E e, q : MasterEH(main.pls, e, q)
    <3>1. \A r \in Streams : \A m \in pls'[r].canvas : m[2] = pls'[r].width
      BY <2>1, <2>2, MasterCanvas DEF OneSize, Page, Mark
    <3> QED BY <1>6, <3>1, HandleCases DEF OneSize, Streams, Rest
  <2> QED BY <1>6, <2>2, HandleCases DEF OneSize, Streams, Rest
<1>7. CASE LineDraw
  BY <1>7 DEF LineDraw, OneSize, Shape, Streams, Fields, NewStream, Goes, Rest, Calling, Mark
<1>8. CASE Call
  BY <1>8 DEF Call, OneSize, Shape, Streams, Fields, NewStream, Goes, Rest, Calling
<1>9. CASE BopClear
  BY <1>9 DEF BopClear, OneSize, Shape, Streams, Fields, NewStream, Goes, Rest, Calling
<1>10. CASE BopRecord
  BY <1>10 DEF BopRecord, OneSize, Shape, Streams, Fields, NewStream, Goes, Rest, Calling
<1>11. CASE Wait
  BY <1>11 DEF Wait, OneSize, Shape, Streams, Fields, NewStream, Goes, Rest, Calling
<1>12. CASE WaitForPage
  <2>1. main.pls \in Streams
    BY <1>12, WaitCases DEF Shape, Calling
  <2>2. CASE \E e, q : MasterEH(main.pls, e, q)
    <3>1. \A r \in Streams : \A m \in pls'[r].canvas : m[2] = pls'[r].width
      BY <2>1, <2>2, MasterCanvas DEF OneSize, Page, Mark
    <3> QED BY <1>12, <3>1, WaitCases DEF OneSize, Streams, Rest
  <2>3. CASE pls' = [pls EXCEPT ![main.pls].exit = FALSE] /\ UNCHANGED program
    BY <2>1, <2>3 DEF OneSize, Shape, Streams, Fields, NewStream
  <2> QED BY <1>12, <2>2, <2>3, WaitCases DEF Rest
<1>13. CASE TidyCancel
  BY <1>13 DEF TidyCancel, OneSize, Shape, Streams, Fields, NewStream, Goes
<1>14. CASE Tidy
  BY <1>14 DEF Tidy, OneSize, Shape, Streams, Fields, NewStream, Goes, Rest, Calling
<1>15. ASSUME NEW p \in Streams, ThreadStart(p) PROVE OneSize'
  BY <1>15 DEF ThreadStart, OneSize, Shape, Streams, Fields, NewStream, Aside
<1>16. ASSUME NEW p \in Streams, ThreadCancelled(p) PROVE OneSize'
  BY <1>16 DEF ThreadCancelled, OneSize, Shape, Streams, Fields, NewStream, Aside
<1>17. ASSUME NEW p \in Streams, ThreadLock(p) PROVE OneSize'
  BY <1>17 DEF ThreadLock, OneSize, Shape, Streams, Fields, NewStream, Aside
<1>18. ASSUME NEW p \in Streams, ThreadTake(p) PROVE OneSize'
  BY <1>18, TakeEffect DEF OneSize, Shape, Streams, Fields, NewStream
<1>19. ASSUME NEW p \in Streams, ThreadExposed(p) PROVE OneSize'
  BY <1>19 DEF ThreadExposed, OneSize, Shape, Streams, Fields, NewStream, Aside
<1>20. ASSUME NEW p \in Streams, ThreadReplay(p) PROVE OneSize'
  BY <1>20 DEF ThreadReplay, OneSize, Shape, Streams, Fields, NewStream, Aside, Mark
<1>21. ASSUME NEW p \in Streams, ThreadReplayed(p) PROVE OneSize'
  BY <1>21 DEF ThreadReplayed, OneSize, Shape, Streams, Fields, NewStream, Aside
<1>22. ASSUME NEW p \in Streams, ThreadUnlock(p) PROVE OneSize'
  BY <1>22 DEF ThreadUnlock, OneSize, Shape, Streams, Fields, NewStream, Aside
<1>23. ASSUME NEW p \in Streams, ThreadWake(p) PROVE OneSize'
  BY <1>23 DEF ThreadWake, OneSize, Shape, Streams, Fields, NewStream, Aside
<1>24. CASE ResizeDrop
  BY <1>24 DEF ResizeDrop, OneSize, Shape, Streams, Fields, NewStream, Rest
<1>25. CASE Close
  BY <1>25 DEF Close, OneSize, Shape, Streams, Fields, NewStream, Rest
<1>26. ASSUME NEW p \in Streams, ThreadDrop(p) PROVE OneSize'
  BY <1>26 DEF ThreadDrop, OneSize, Shape, Streams, Fields, NewStream, Aside
<1>27. CASE UNCHANGED vars
  BY <1>27 DEF vars, OneSize, Streams
<1> QED BY <1>1, <1>2, <1>3, <1>4, <1>5, <1>6, <1>7, <1>8, <1>9, <1>10, <1>11, <1>12,
           <1>13, <1>14, <1>15, <1>16, <1>17, <1>18, <1>19, <1>20, <1>21, <1>22, <1>23, <1>24,
           <1>25, <1>26, <1>27
     DEF Next, Main, Draw, Pages, Thread, Streams

\* Without threads: the program stays on the stream it has selected, and the
\* line being drawn is recorded there.
Drawing == {"line", "lock", "check", "draw"}

Steady ==
  /\ \A p \in Streams : thread[p].pc = "none"
  /\ meant = plsc /\ Followed
  /\ main.pc \in Calling => main.pls = plsc
  /\ lines \in Nat /\ \A p \in Streams : pls[p].buffer \in Seq(Streams \X Nat)
  /\ main.pc \in Drawing => \E i \in DOMAIN pls[plsc].buffer : pls[plsc].buffer[i] = main.line

\* The line that is being drawn, on the window where it will be; and what
\* a window shows, but for one that was closed, or cleared for a page not yet
\* recorded.
Pending(p) == IF p = plsc /\ main.pc \in Drawing THEN {Mark(main.line, pls[p].width)} ELSE {}
Shown(p) ==
  IF p = plsc /\ main.pc = "bop" THEN pls[p].canvas = {}
  ELSE /\ Page(p, pls[p].width) \ Pending(p) \subseteq pls[p].canvas
       /\ pls[p].canvas \subseteq Page(p, pls[p].width)
Shows(p) == pls[p].closed \/ Shown(p)

Alone == ~ program.usepthreads => Steady /\ \A p \in Streams : Shows(p)

\* It holds at first.
LEMMA AloneInit == Init => Alone
<1> SUFFICES ASSUME Init, ~ program.usepthreads PROVE Steady /\ \A p \in Streams : Shows(p)
  BY DEF Alone
<1>1. \A p \in Streams : pls[p].buffer = << >> /\ pls[p].canvas = {} /\ thread[p].pc = "none"
  BY DEF Init, NewStream, NewThread, Streams
<1>2. << >> \in Seq(Streams \X Nat) /\ DOMAIN << >> = {}
  OBVIOUS
<1> QED BY <1>1, <1>2 DEF Init, Steady, Followed, Shows, Shown, Pending, Page, Idle, Calling, Drawing, Streams

\* t holds the line after what s holds.
Longer(s, t, line) ==
  /\ \A i \in DOMAIN s : i \in DOMAIN t /\ t[i] = s[i]
  /\ \E i \in DOMAIN t : t[i] = line
  /\ \A i \in DOMAIN t : t[i] = line \/ (i \in DOMAIN s /\ t[i] = s[i])

\* A line recorded makes the page longer by that line.
LEMMA AppendPage ==
  ASSUME NEW X, NEW s \in Seq(X), NEW line \in X
  PROVE  Append(s, line) \in Seq(X) /\ Longer(s, Append(s, line), line)
<1>1. Len(Append(s, line)) = Len(s) + 1 /\ Append(s, line)[Len(s) + 1] = line
  OBVIOUS
<1> QED BY <1>1 DEF Longer

\* A stream whose program has no threads records when it is given a line.
LEMMA LinesRecorded ==
  ASSUME Shape, Kept, Steady
  PROVE  pls[plsc].write = TRUE
BY DEF Shape, Kept, Steady

\* A window on which nothing is being drawn shows its page.
LEMMA WholePage ==
  ASSUME NEW p, Shown(p), p # plsc \/ main.pc \notin Drawing \cup {"bop"}
  PROVE  Page(p, pls[p].width) = pls[p].canvas
<1>1. ~ (p = plsc /\ main.pc \in Drawing) /\ ~ (p = plsc /\ main.pc = "bop")
  OBVIOUS
<1>2. Pending(p) = {}
  BY <1>1 DEF Pending
<1>3. Page(p, pls[p].width) \ {} \subseteq pls[p].canvas /\ pls[p].canvas \subseteq Page(p, pls[p].width)
  BY <1>1, <1>2 DEF Shown
<1> QED BY <1>3

\* What MasterEH, called for the current stream, leaves of a page.
LEMMA MasterAlone ==
  ASSUME Shape, Steady, \A p \in Streams : Shows(p), Streams' = Streams,
         main.pc \in {"check", "wait"}, NEW p \in Streams, p = plsc,
         NEW e, NEW q, MasterEH(p, e, q),
         UNCHANGED << plsc, meant, lines, thread >>
  PROVE  Steady' /\ \A r \in Streams : Shows(r)'
<1>1. main'.pc = main.pc /\ main'.pls = main.pls /\ main'.line = main.line
  BY MasterShape
<1>2. \A r \in Streams : pls'[r].buffer = pls[r].buffer
  BY MasterShape
<1>3. \A r \in Streams : \A w : Page(r, w)' = Page(r, w')
  BY <1>2 DEF Page
<1>4. Steady'
  BY <1>1, <1>2 DEF Steady, Followed
<1>5. ASSUME NEW r \in Streams PROVE Shows(r)'
  <2>1. CASE pls[r].closed
    BY <2>1, MasterCanvas DEF Shows
  <2>2. CASE ~ pls[r].closed /\ pls'[r].canvas = pls[r].canvas /\ pls'[r].width = pls[r].width
    BY <1>1, <1>2, <2>2 DEF Shows, Shown, Pending, Page
  <2>3. CASE pls'[r].canvas = Page(r, pls'[r].width)
    BY <1>1, <1>2, <2>3 DEF Shows, Shown, Pending, Page, Drawing
  <2>4. CASE pls'[r].closed
    BY <2>4 DEF Shows
  <2> QED BY <2>1, <2>2, <2>3, <2>4, MasterCanvas
<1> QED BY <1>4, <1>5

\* A step that leaves the streams and the line being drawn as they are: it may end
\* a line or begin a page of a stream that is closed, or select a stream when
\* nothing is being drawn.
Leaves ==
  /\ Streams' = Streams /\ UNCHANGED lines
  /\ \A p \in Streams : /\ thread'[p].pc = thread[p].pc
                        /\ pls'[p].buffer = pls[p].buffer /\ pls'[p].canvas = pls[p].canvas
                        /\ pls'[p].width = pls[p].width /\ pls'[p].closed = pls[p].closed
  /\ plsc \in Streams /\ meant' = plsc' /\ Followed'
  /\ main'.pc \in Calling => main'.pls = plsc'
  /\ plsc' # plsc => {main.pc, main'.pc} \cap (Drawing \cup {"bop"}) = {}
  /\ main'.pc \in Drawing => main.pc \in Drawing /\ main'.line = main.line
  /\ (main.pc \in Drawing <=> main'.pc \in Drawing) \/ pls[plsc].closed
  /\ (main.pc = "bop" <=> main'.pc = "bop") \/ pls[plsc].closed

\* Such a step keeps window and record in accord.
LEMMA LeavesAlone ==
  ASSUME Steady, \A p \in Streams : Shows(p), Leaves
  PROVE  Steady' /\ \A p \in Streams : Shows(p)'
<1>1. Steady'
  BY DEF Steady, Leaves
<1>2. ASSUME NEW p \in Streams PROVE Shows(p)'
  <2>1. \A w : Page(p, w)' = Page(p, w')
    BY DEF Leaves, Page
  <2>2. CASE pls[p].closed
    BY <2>2 DEF Shows, Leaves
  <2>3. CASE ~ pls[p].closed
    <3>1. Shown(p)
      BY <2>3 DEF Shows
    <3>2. Pending(p)' = Pending(p)
      BY <2>3 DEF Pending, Leaves
    <3>3. (p = plsc' /\ main'.pc = "bop") <=> (p = plsc /\ main.pc = "bop")
      BY <2>3 DEF Leaves
    <3>4. /\ pls'[p].canvas = pls[p].canvas /\ pls'[p].width = pls[p].width
          /\ Page(p, pls[p].width)' = Page(p, pls[p].width)
      BY DEF Leaves, Page
    <3> QED BY <3>1, <3>2, <3>3, <3>4 DEF Shows, Shown
  <2> QED BY <2>2, <2>3
<1> QED BY <1>1, <1>2 DEF Leaves

\* Every step of the program keeps its window and the record in accord.
LEMMA AloneStep == Mutex /\ Kept /\ Alone /\ [Next]_vars => Alone'
<1> SUFFICES ASSUME Mutex, Kept, Steady, \A p \in Streams : Shows(p), [Next]_vars
             PROVE  Steady' /\ \A p \in Streams : Shows(p)'
  BY ProgramStays DEF Alone, Streams
<1>0. Shape /\ Streams' = Streams
  BY ProgramStays DEF Mutex, Streams
<1>1. CASE User
  <2>1. Leaves
    BY <1>0, <1>1 DEF User, Leaves, Steady, Followed, Shape
  <2> QED BY <2>1, LeavesAlone
<1>2. CASE Plsstrm \/ LineCall \/ LineLock \/ ResizeDrop \/ Call \/ Wait \/ Tidy
  <2>1. UNCHANGED << pls, thread, lines >>
    BY <1>2 DEF Plsstrm, LineCall, LineLock, ResizeDrop, Call, Wait, Tidy, Rest
  <2>2. ASSUME Plsstrm PROVE Leaves
    BY <1>0, <2>1, <2>2 DEF Plsstrm, Goes, Leaves, Steady, Followed, Shape, MFields, Idle, Calling, Drawing
  <2>3. ASSUME LineCall PROVE Leaves
    BY <1>0, <2>1, <2>3 DEF LineCall, Goes, Leaves, Steady, Followed, Shape, MFields, Idle, Calling, Drawing
  <2>4. ASSUME LineLock PROVE Leaves
    BY <1>0, <2>1, <2>4 DEF LineLock, Goes, Leaves, Steady, Followed, Shape, MFields, Idle, Calling, Drawing
  <2>5. ASSUME ResizeDrop PROVE Leaves
    BY <1>0, <2>1, <2>5 DEF ResizeDrop, Goes, Leaves, Steady, Followed, Shape, MFields, Idle, Calling, Drawing
  <2>6. ASSUME Call PROVE Leaves
    BY <1>0, <2>1, <2>6 DEF Call, Goes, Leaves, Steady, Followed, Shape, MFields, Idle, Calling, Drawing
  <2>7. ASSUME Wait PROVE Leaves
    BY <1>0, <2>1, <2>7 DEF Wait, Goes, Leaves, Steady, Followed, Shape, MFields, Idle, Calling, Drawing
  <2>8. ASSUME Tidy PROVE Leaves
    BY <1>0, <2>1, <2>8 DEF Tidy, Goes, Leaves, Steady, Followed, Shape, MFields, Idle, Calling, Drawing
  <2>9. Leaves => Steady' /\ \A p \in Streams : Shows(p)'
    BY LeavesAlone
  <2> QED BY <1>2, <2>2, <2>3, <2>4, <2>5, <2>6, <2>7, <2>8, <2>9
<1>3. CASE LineRecord
  <2> DEFINE line == << meant, lines + 1 >>
             was  == pls[plsc].buffer
  <2>0. /\ plsc \in Streams /\ meant = plsc /\ lines \in Nat /\ was \in Seq(Streams \X Nat)
        /\ pls[plsc].write = TRUE
    BY <1>0, LinesRecorded DEF Steady, Shape
  <2>1. /\ line \in Streams \X Nat /\ plsc \in Streams /\ was \in Seq(Streams \X Nat)
        /\ main' = [Idle EXCEPT !.pc = "line", !.line = line]
        /\ UNCHANGED << plsc, meant, thread >> /\ lines' = lines + 1
        /\ pls' = [pls EXCEPT ![plsc].buffer = Append(was, line)]
    BY <1>3, <2>0 DEF LineRecord, Rest
  <2>2. /\ pls'[plsc].buffer = Append(was, line) /\ pls'[plsc].canvas = pls[plsc].canvas
        /\ pls'[plsc].width = pls[plsc].width /\ pls'[plsc].closed = pls[plsc].closed
        /\ \A p \in Streams \ {plsc} : pls'[p] = pls[p]
        /\ main'.pc = "line" /\ main'.line = line
    BY <1>0, <2>1 DEF Shape, Fields, NewStream, Idle
  <2> HIDE DEF line, was
  <2>3. Append(was, line) \in Seq(Streams \X Nat) /\ Longer(was, Append(was, line), line)
    <3>1. line \in Streams \X Nat /\ was \in Seq(Streams \X Nat)
      BY <2>1
    <3> QED BY ONLY <3>1, AppendPage
  <2>4. Steady'
    BY <1>0, <2>1, <2>2, <2>3 DEF Steady, Followed, Calling, Drawing, Longer
  <2>5. ASSUME NEW p \in Streams, p = plsc PROVE Shows(p)'
    <3>1. main.pc = "idle"
      BY <1>3 DEF LineRecord, Goes
    <3> SUFFICES ASSUME ~ pls[plsc].closed PROVE Shows(p)'
      BY <2>2, <2>5 DEF Shows
    <3>2. Page(plsc, pls[plsc].width) = pls[plsc].canvas
      BY <2>0, <3>1, WholePage DEF Drawing, Shows
    <3>3. Pending(p)' = {Mark(line, pls[p].width)}
      BY <2>1, <2>2, <2>5 DEF Pending, Drawing
    <3>4. \A m : m \in Page(p, pls[p].width)' <=> m \in Page(p, pls[p].width) \/ m = Mark(line, pls[p].width)
      <4>1. /\ Page(p, pls[p].width)' = {Mark(Append(was, line)[i], pls[p].width) : i \in DOMAIN Append(was, line)}
            /\ Page(p, pls[p].width) = {Mark(was[i], pls[p].width) : i \in DOMAIN was}
        BY <2>2, <2>5 DEF Page, was
      <4> QED BY <2>3, <4>1 DEF Longer
    <3> QED BY <2>1, <2>2, <2>5, <3>2, <3>3, <3>4 DEF Shows, Shown
  <2>6. ASSUME NEW p \in Streams, p # plsc PROVE Shows(p)'
    BY <2>1, <2>2, <2>6 DEF Shows, Shown, Pending, Page
  <2> QED BY <1>0, <2>4, <2>5, <2>6
<1>4. CASE HandleEvents
  <2>1. main.pls = plsc /\ plsc \in Streams /\ main.pc = "check" /\ UNCHANGED << plsc, meant, lines, thread >>
    BY <1>0, <1>4, HandleCases DEF Steady, Shape, Calling, Rest
  <2>2. CASE main' = [main EXCEPT !.pc = "draw"] /\ UNCHANGED << pls, blank, queue >>
    <3>1. Leaves
      BY <1>0, <2>1, <2>2 DEF Leaves, Steady, Followed, Shape, MFields, Idle, Calling, Drawing
    <3> QED BY <3>1, LeavesAlone
  <2>3. CASE \E e, q : MasterEH(main.pls, e, q)
    BY <1>0, <2>1, <2>3, MasterAlone
  <2> QED BY <1>4, <2>2, <2>3, HandleCases
<1>5. CASE WaitForPage
  <2>1. main.pls = plsc /\ plsc \in Streams /\ main.pc = "wait" /\ UNCHANGED << plsc, meant, lines, thread >>
    BY <1>0, <1>5, WaitCases DEF Steady, Shape, Calling, Rest
  <2>2. CASE pls' = [pls EXCEPT ![main.pls].exit = FALSE] /\ main' = Idle
    <3>1. \A p \in Streams : /\ pls'[p].buffer = pls[p].buffer /\ pls'[p].canvas = pls[p].canvas
                             /\ pls'[p].width = pls[p].width /\ pls'[p].closed = pls[p].closed
      BY <1>0, <2>1, <2>2 DEF Shape, Fields, NewStream
    <3>2. Leaves
      BY <1>0, <2>1, <2>2, <3>1 DEF Leaves, Steady, Followed, Idle, Calling, Drawing
    <3> QED BY <3>2, LeavesAlone
  <2>3. CASE \E e, q : MasterEH(main.pls, e, q)
    BY <1>0, <2>1, <2>3, MasterAlone
  <2> QED BY <1>5, <2>2, <2>3, WaitCases
<1>6. CASE TidyCancel
  <2>1. Leaves
    BY <1>0, <1>6 DEF TidyCancel, Goes, Leaves, Steady, Followed, Shape, MFields, Idle, Calling, Drawing,
         TFields, NewThread
  <2> QED BY <2>1, LeavesAlone
<1>7. CASE LineDraw
  <2>1. main.pls = plsc /\ plsc \in Streams
    BY <1>0, <1>7 DEF LineDraw, Goes, Steady, Shape, Calling
  <2>2. /\ main.pc = "draw" /\ main' = Idle /\ UNCHANGED << plsc, meant, lines, thread >>
        /\ pls' = [pls EXCEPT ![plsc].canvas = @ \cup {Mark(main.line, pls[plsc].width)}]
    BY <1>7, <2>1 DEF LineDraw, Goes, Rest
  <2>3. /\ \A p \in Streams : pls'[p].buffer = pls[p].buffer /\ pls'[p].width = pls[p].width
        /\ \A p \in Streams : pls'[p].closed = pls[p].closed
        /\ \A p \in Streams \ {plsc} : pls'[p] = pls[p]
        /\ pls'[plsc].canvas = pls[plsc].canvas \cup {Mark(main.line, pls[plsc].width)}
    BY <1>0, <2>1, <2>2 DEF Shape, Fields, NewStream
  <2>4. Steady'
    BY <1>0, <2>2, <2>3 DEF Steady, Followed, Idle, Calling, Drawing
  <2>5. ASSUME NEW p \in Streams, p # plsc PROVE Shows(p)'
    BY <2>2, <2>3, <2>5 DEF Shows, Shown, Pending, Page
  <2>6. ASSUME NEW p \in Streams, p = plsc PROVE Shows(p)'
    <3>1. Mark(main.line, pls[p].width) \in Page(p, pls[p].width)
      BY <2>1, <2>2, <2>6 DEF Steady, Drawing, Page
    <3>2. Pending(p) = {Mark(main.line, pls[p].width)}
      BY <2>2, <2>6 DEF Pending, Drawing
    <3>3. Page(p, pls[p].width)' = Page(p, pls[p].width) /\ Pending(p)' = {}
      BY <2>2, <2>3 DEF Page, Pending, Idle, Drawing
    <3> SUFFICES ASSUME ~ pls[p].closed PROVE Shows(p)'
      BY <2>3 DEF Shows
    <3>4. /\ Page(p, pls[p].width) \ Pending(p) \subseteq pls[p].canvas
          /\ pls[p].canvas \subseteq Page(p, pls[p].width)
      BY <2>2, <2>6 DEF Shows, Shown
    <3> QED BY <2>2, <2>3, <2>6, <3>1, <3>2, <3>3, <3>4 DEF Shows, Shown, Idle
  <2> QED BY <1>0, <2>4, <2>5, <2>6
<1>8. CASE Close
  <2>1. main.pc = "closing" /\ main.pls = plsc /\ meant = plsc /\ plsc \in Streams
    BY <1>0, <1>8 DEF Close, Goes, Steady, Shape, Calling
  <2>2. /\ pls' = [pls EXCEPT ![plsc].open = FALSE] /\ UNCHANGED << thread, lines >>
        /\ main'.pc \in {"idle", "end"} /\ meant' = plsc'
    <3>1. {main.pls, meant} = {plsc}
      BY <2>1
    <3> QED BY <1>8, <2>1, <3>1 DEF Close, Rest, Idle
  <2>3. \A p \in Streams : /\ pls'[p].buffer = pls[p].buffer /\ pls'[p].canvas = pls[p].canvas
                           /\ pls'[p].width = pls[p].width /\ pls'[p].closed = pls[p].closed
    BY <1>0, <2>1, <2>2 DEF Shape, Fields, NewStream
  <2>4. Leaves
    BY <1>0, <2>1, <2>2, <2>3 DEF Leaves, Followed, Calling, Drawing
  <2> QED BY <2>4, LeavesAlone
<1>9. CASE BopClear
  <2>1. /\ main.pls = plsc /\ plsc \in Streams /\ main.pc = "bopLock"
        /\ main' = [Idle EXCEPT !.pc = "bop"] /\ UNCHANGED << plsc, meant, lines, thread >>
        /\ pls' = [pls EXCEPT ![plsc].canvas = {}]
    BY <1>0, <1>9 DEF BopClear, Goes, Steady, Shape, Calling, Rest
  <2>2. /\ \A p \in Streams : pls'[p].buffer = pls[p].buffer
        /\ \A p \in Streams \ {plsc} : pls'[p] = pls[p]
        /\ pls'[plsc].canvas = {} /\ main'.pc = "bop"
    BY <1>0, <2>1 DEF Shape, Fields, NewStream, Idle
  <2>3. Steady'
    BY <1>0, <2>1, <2>2 DEF Steady, Followed, Calling, Drawing
  <2>4. ASSUME NEW p \in Streams PROVE Shows(p)'
    BY <2>1, <2>2 DEF Shows, Shown, Pending, Page, Drawing
  <2> QED BY <1>0, <2>3, <2>4
<1>10. CASE BopRecord
  <2>1. /\ plsc \in Streams /\ main.pc = "bop" /\ main' = Idle
        /\ UNCHANGED << plsc, meant, lines, thread >>
        /\ pls' = [pls EXCEPT ![plsc].buffer = << >>]
    BY <1>0, <1>10, LinesRecorded DEF BopRecord, Goes, Shape, Rest
  <2>2. /\ \A p \in Streams \ {plsc} : pls'[p] = pls[p]
        /\ pls'[plsc].buffer = << >> /\ (pls'[plsc].closed \/ pls'[plsc].canvas = {})
    BY <1>0, <2>1 DEF Shape, Fields, NewStream, Shows, Shown
  <2>3. << >> \in Seq(Streams \X Nat) /\ DOMAIN << >> = {}
    OBVIOUS
  <2>4. Steady'
    BY <1>0, <2>1, <2>2, <2>3 DEF Steady, Followed, Idle, Calling, Drawing
  <2>5. ASSUME NEW p \in Streams PROVE Shows(p)'
    BY <2>1, <2>2, <2>3 DEF Shows, Shown, Pending, Page, Idle, Drawing
  <2> QED BY <1>0, <2>4, <2>5
<1>11. ASSUME NEW p \in Streams, Thread(p) PROVE FALSE
  <2>1. thread[p].pc = "none"
    BY DEF Steady
  <2> QED BY <1>11, <2>1 DEF Thread, ThreadStart, ThreadCancelled, ThreadLock, ThreadTake,
       ThreadExposed, ThreadReplay, ThreadReplayed, ThreadDrop, ThreadUnlock, ThreadWake, At
<1>12. CASE UNCHANGED vars
  <2>1. Leaves
    BY <1>0, <1>12 DEF vars, Leaves, Steady, Followed, Shape
  <2> QED BY <2>1, LeavesAlone
<1> QED BY <1>1, <1>2, <1>3, <1>4, <1>5, <1>6, <1>7, <1>8, <1>9, <1>10, <1>11, <1>12
     DEF Next, Main, Draw, Pages, Streams

\* Together they are invariant.
LEMMA AloneHolds == Spec => [](Mutex /\ Kept /\ OneSize /\ Alone /\ Ends /\ Points)
<1>1. Mutex => Shape
  BY DEF Mutex
<1> QED BY <1>1, KeptHolds, OneSizeInit, OneSizeStep, AloneInit, AloneStep, EndsInit, EndsStep, PTL DEF Spec

\* Neither the thread of a stream that plend1 has freed nor plsc is left with it,
\* but when another thread has moved plsc between the calls of the program: that
\* takes threads, and two streams.
THEOREM ThreadsEndHolds == Spec => []ThreadsEnd
<1>1. Shape /\ Alone /\ Ends /\ Points => ThreadsEnd
  <2> SUFFICES ASSUME Shape, Alone, Ends, Points PROVE ThreadsEnd
    OBVIOUS
  <2>1. ASSUME Followed, NEW p \in Streams, Gone(p) PROVE thread[p].pc \in {"none", "dead"}
    BY <2>1 DEF Ends, Gone, Resting
  <2>2. ASSUME Followed, main.pc # "end" PROVE pls[plsc].open
    BY <2>2 DEF Points
  <2>3. ASSUME ~ Followed PROVE program.usepthreads /\ Cardinality(program.streams) > 1
    <3>1. program.usepthreads
      BY <2>3 DEF Alone, Steady
    <3>2. PICK p, q \in Streams : p # q
      BY <2>3 DEF Points
    <3>3. IsFiniteSet(Streams)
      BY XwinAssumption DEF Shape, Streams
    <3>4. Cardinality(Streams) \in Nat /\ Cardinality(Streams) # 0
      BY <3>2, <3>3, FS_CardinalityType, FS_EmptySet
    <3>5. Cardinality(Streams) # 1
      BY <3>2, <3>3, FS_Singleton
    <3> QED BY <3>1, <3>4, <3>5 DEF Streams
  <2> QED BY <2>1, <2>2, <2>3 DEF ThreadsEnd, Streams
<1>2. Mutex => Shape
  BY DEF Mutex
<1> QED BY <1>1, <1>2, AloneHolds, PTL
-----------------------------------------------------------------------------
(* Types.                                                                  *)

\* The first of some numbers is one of them.
LEMMA FirstIs ==
  ASSUME NEW T, T \subseteq Nat, T # {}
  PROVE  First(T) \in T /\ \A j \in T : First(T) <= j
<1> DEFINE R == OpToRel(<, Nat)
<1>1. IsWellFoundedOn(R, Nat)
  BY NatLessThanWellFounded
<1>2. \A x, y \in Nat : << y, x >> \in R <=> y < x
  BY DEF OpToRel
<1> HIDE DEF R
<1>3. PICK x \in T : \A y \in T : ~ (<< y, x >> \in R)
  BY <1>1, WFMin
<1>4. ASSUME NEW y \in T PROVE x <= y
  <2>1. x \in Nat /\ y \in Nat
    OBVIOUS
  <2>2. ~ (y < x)
    BY <1>2, <1>3, <2>1, Zenon
  <2> QED BY <2>1, <2>2
<1> QED BY <1>4 DEF First

\* Among the places I of a queue there is an n-th one.
LEMMA NthPlace ==
  ASSUME NEW len \in Nat, NEW I, I \subseteq 1..len, NEW n \in 1..Cardinality(I)
  PROVE  \E i \in I : Cardinality({j \in I : j <= i}) = n
<1> DEFINE Upto(i) == {j \in I : j <= i}
           T == {i \in 0..len : Cardinality(Upto(i)) >= n}
<1>1. IsFiniteSet(I)
  <2>1. IsFiniteSet(1..len)
    BY FS_Interval
  <2> QED BY <2>1, FS_Subset
<1>2. \A i \in 0..len : IsFiniteSet(Upto(i)) /\ Cardinality(Upto(i)) \in Nat
  BY <1>1, FS_Subset, FS_CardinalityType
<1>3. Upto(len) = I /\ Upto(0) = {}
  <2>1. \A j \in I : j <= len /\ ~ (j <= 0)
    OBVIOUS
  <2> QED BY <2>1
<1>4. len \in T /\ 0 \notin T
  BY <1>2, <1>3, FS_EmptySet
<1>5. PICK i \in T : \A k \in T : i <= k
  <2>1. T \subseteq Nat
    OBVIOUS
  <2> HIDE DEF T
  <2> QED BY <1>4, <2>1, FirstIs
<1>6. i \in 0..len /\ i # 0 /\ i \in Nat /\ Cardinality(Upto(i)) >= n
  <2>1. i # 0
    <3> HIDE DEF T
    <3> QED BY <1>4, <1>5
  <2>2. i \in 0..len
    BY <1>5
  <2>3. Cardinality(Upto(i)) >= n
    BY <1>5
  <2> QED BY <2>1, <2>2, <2>3
<1>7. i - 1 \in 0..len /\ i - 1 < i /\ i - 1 \in Nat
  BY <1>6
<1>8. ~ (Cardinality(Upto(i - 1)) >= n)
  <2>1. i - 1 \notin T
    <3> HIDE DEF T
    <3> QED BY <1>5, <1>6, <1>7
  <2> HIDE DEF Upto
  <2> QED BY <1>7, <2>1
<1>9. \A k \in I : k <= i <=> k <= i - 1 \/ k = i
  BY <1>6
<1>10. Cardinality(Upto(i - 1)) \in Nat /\ Cardinality(Upto(i)) \in Nat /\ IsFiniteSet(Upto(i - 1))
  BY <1>2, <1>6, <1>7
<1>11. i \notin Upto(i - 1) /\ Upto(i) = IF i \in I THEN Upto(i - 1) \cup {i} ELSE Upto(i - 1)
  <2>1. i \notin Upto(i - 1)
    BY <1>6, <1>7
  <2>2. CASE i \in I
    <3>1. \A k : k \in Upto(i) <=> k \in Upto(i - 1) \/ k = i
      BY <1>6, <1>7, <1>9, <2>2
    <3> QED BY <2>1, <2>2, <3>1
  <2>3. CASE i \notin I
    <3>1. \A k : k \in Upto(i) <=> k \in Upto(i - 1)
      BY <1>6, <1>7, <1>9, <2>3
    <3> QED BY <2>1, <2>3, <3>1
  <2> QED BY <2>2, <2>3
<1> HIDE DEF Upto, T
<1>12. i \in I
  <2>1. Upto(i) # Upto(i - 1)
    <3> DEFINE a == Upto(i)
               b == Upto(i - 1)
    <3>1. Cardinality(a) >= n /\ ~ (Cardinality(b) >= n)
      BY <1>6, <1>8
    <3> HIDE DEF a, b
    <3>2. a # b
      BY <3>1
    <3> QED BY <3>2 DEF a, b
  <2> QED BY <1>11, <2>1
<1>13. Cardinality(Upto(i)) = Cardinality(Upto(i - 1)) + 1
  BY <1>10, <1>11, <1>12, FS_AddElement
<1>14. Cardinality(Upto(i)) = n
  BY <1>6, <1>8, <1>10, <1>13
<1> QED BY <1>12, <1>14 DEF Upto

\* What is left of a queue is a queue.
LEMMA ThoseType ==
  ASSUME NEW S, NEW q \in Seq(S), NEW I, I \subseteq DOMAIN q
  PROVE  Those(q, I) \in Seq(S)
<1>1. Len(q) \in Nat /\ I \subseteq 1..Len(q) /\ \A i \in I : q[i] \in S
  BY LenProperties, ElementOfSeq
<1>2. Cardinality(I) \in Nat
  <2>1. IsFiniteSet(1..Len(q))
    BY <1>1, FS_Interval
  <2> QED BY <1>1, <2>1, FS_Subset, FS_CardinalityType
<1>3. ASSUME NEW n \in 1..Cardinality(I)
      PROVE  q[CHOOSE i \in I : Cardinality({j \in I : j <= i}) = n] \in S
  <2>1. \E i \in I : Cardinality({j \in I : j <= i}) = n
    BY <1>1, NthPlace
  <2> QED BY <1>1, <2>1
<1>4. \A n \in 1..Cardinality(I) : Those(q, I)[n] \in S
  BY <1>3 DEF Those
<1> DEFINE c == Cardinality(I)
           v == [n \in 1..c |-> q[CHOOSE i \in I : Cardinality({j \in I : j <= i}) = n]]
<1>5. Those(q, I) = v
  BY DEF Those
<1>6. v \in [1..c -> S]
  BY <1>3
<1> HIDE DEF v, c
<1>7. c \in Nat
  BY <1>2 DEF c
<1> QED BY <1>5, <1>6, <1>7, SeqDef

\* The events of the display, the streams and the threads.
Plain    == [window : Streams, type : {"expose", "key", "delete"}, width : {0}, area : 0..program.events]
EventSet == Plain \cup [window : Streams, type : {"resize"}, width : Widths, area : {0}]

StreamOK(s) ==
  /\ DOMAIN s = Fields /\ s.buffer \in Seq(Line) /\ s.canvas \subseteq Line \X Widths
  /\ {s.write, s.read, s.exit, s.nopause, s.closed, s.open} \subseteq BOOLEAN /\ s.width \in Widths
ThreadOK(t) ==
  /\ DOMAIN t = TFields /\ t.oplsc \in {0} \cup Streams /\ t.write \in BOOLEAN
  /\ t.pc = "replay" => t.k \in Nat \ {0} /\ t.top \in Nat

Windows == /\ DOMAIN pls = Streams /\ \A p \in Streams : StreamOK(pls[p])
           /\ DOMAIN width = Streams /\ \A p \in Streams : width[p] \in Widths
Areas   == DOMAIN blank = Streams /\ \A p \in Streams : blank[p] \subseteq 1..program.events
Threads == DOMAIN thread = Streams /\ \A p \in Streams : ThreadOK(thread[p])
Place   == /\ main.pls \in {0} \cup Streams
           /\ main.pc \in {"line", "lock", "check", "draw"} => main.line \in Line
Counts  == /\ mutex \in {Free, Prog} \cup Streams /\ meant \in Streams
           /\ lines \in 0..program.lines /\ events \in 0..program.events

\* All that is drawn is drawn at the size of a window that there was.
Typed == Windows /\ Areas /\ Threads /\ Place /\ Counts /\ queue \in Seq(EventSet)

\* The bounds of a program are numbers.
LEMMA ProgramBounds ==
  ASSUME program \in Programs
  PROVE  program.lines \in Nat /\ program.events \in Nat /\ Streams \subseteq Nat \ {0}
BY XwinAssumption DEF Streams

\* It holds at first.
LEMMA TypedInit == Init => Typed
<1> SUFFICES ASSUME Init PROVE Typed
  OBVIOUS
<1>1. /\ program \in Programs /\ program.lines \in Nat /\ program.events \in Nat
      /\ program.nopause \in BOOLEAN
  BY ProgramBounds, XwinAssumption DEF Init
<1>2. << >> \in Seq(Line) /\ << >> \in Seq(EventSet)
  OBVIOUS
<1>3. PICK w \in Widths : /\ pls = [p \in Streams |-> NewStream(w, program.nopause)]
                          /\ width = [p \in Streams |-> w]
  BY DEF Init, Streams
<1>4. StreamOK(NewStream(w, program.nopause))
  BY <1>1, <1>2 DEF StreamOK, NewStream, Fields
<1>5. Windows
  BY <1>3, <1>4 DEF Windows
<1>6. Threads
  BY DEF Init, Threads, ThreadOK, NewThread, TFields, Streams
<1>7. Place /\ Counts
  BY <1>1 DEF Init, Place, Counts, Idle, Streams
<1>8. Areas
  BY <1>1 DEF Init, Areas, Streams
<1> QED BY <1>2, <1>5, <1>6, <1>7, <1>8 DEF Typed, Init

\* The page of a window is made of lines, at the width it is drawn for.
LEMMA PageType ==
  ASSUME NEW p \in Streams, StreamOK(pls[p]), NEW w \in Widths
  PROVE  Page(p, w) \subseteq Line \X Widths
<1>1. \A i \in DOMAIN pls[p].buffer : pls[p].buffer[i] \in Line
  <2>1. pls[p].buffer \in Seq(Line)
    BY DEF StreamOK
  <2> QED BY <2>1
<1> QED BY <1>1 DEF Page, Mark

\* What the handlers leave of a queue.
LEMMA DroppedType ==
  ASSUME NEW q \in Seq(EventSet), NEW p
  PROVE  Dropped(q, p) \in Seq(EventSet)
<1> DEFINE I == {i \in DOMAIN q : ~ (q[i].window = p /\ Redisplay(q[i]))}
<1>1. I \subseteq DOMAIN q
  OBVIOUS
<1>2. Dropped(q, p) = Those(q, I)
  BY DEF Dropped
<1> HIDE DEF I
<1> QED BY <1>1, <1>2, ThoseType

\* MasterEH for an event of the queue.
LEMMA MasterTyped ==
  ASSUME Windows, NEW p \in Streams, NEW e \in EventSet, NEW q \in Seq(EventSet), MasterEH(p, e, q)
  PROVE  /\ DOMAIN pls' = Streams /\ \A r \in Streams : StreamOK(pls'[r])
         /\ queue' \in Seq(EventSet)
<1>0. queue' \in Seq(EventSet)
  BY DEF MasterEH
<1>1. CASE pls' = [pls EXCEPT ![p].exit = TRUE]
  BY <1>0, <1>1 DEF Windows, StreamOK, Fields, NewStream
<1>4. CASE pls' = Closed(p)
  <2>1. pls' = [pls EXCEPT ![p] = [@ EXCEPT !.nopause = TRUE, !.closed = TRUE, !.exit = TRUE]]
    BY <1>4 DEF Closed
  <2>2. StreamOK([pls[p] EXCEPT !.nopause = TRUE, !.closed = TRUE, !.exit = TRUE])
    BY DEF Windows, StreamOK, Fields, NewStream
  <2> QED BY <1>0, <2>1, <2>2 DEF Windows
<1>2. CASE UNCHANGED pls
  BY <1>0, <1>2 DEF Windows
<1>3. CASE e.type = "resize" /\ pls' = ResizedTo(p, e.width)
  <2>1. e.width \in Widths
    BY <1>3 DEF EventSet, Plain
  <2> DEFINE page == IF pls[p].closed THEN {} ELSE Page(p, e.width)
  <2>2. page \subseteq Line \X Widths /\ pls' = [pls EXCEPT ![p].width = e.width, ![p].canvas = page]
    BY <1>3, <2>1, PageType DEF Windows, ResizedTo
  <2> HIDE DEF page
  <2> QED BY <1>0, <2>1, <2>2 DEF Windows, StreamOK, Fields, NewStream
<1> QED BY <1>1, <1>2, <1>3, <1>4 DEF MasterEH

\* The first event of a queue at some of its places, and the queue without it.
LEMMA FirstEvent ==
  ASSUME NEW S, NEW q \in Seq(S), NEW I, I \subseteq DOMAIN q, I # {}
  PROVE  First(I) \in I /\ q[First(I)] \in S /\ RemoveAt(q, First(I)) \in Seq(S)
<1>1. Len(q) \in Nat /\ DOMAIN q = 1..Len(q)
  BY LenProperties
<1>2. First(I) \in I
  <2>1. I \subseteq Nat
    BY <1>1
  <2> QED BY <2>1, FirstIs
<1> DEFINE i == First(I)
<1>3. i \in 1..Len(q)
  BY <1>1, <1>2
<1>4. RemoveAt(q, i) = SubSeq(q, 1, i - 1) \o SubSeq(q, i + 1, Len(q))
  BY DEF RemoveAt
<1> HIDE DEF i
<1>5. SubSeq(q, 1, i - 1) \in Seq(S) /\ SubSeq(q, i + 1, Len(q)) \in Seq(S)
  <2>1. \A k \in 1..i - 1 : q[k] \in S
    BY <1>1, <1>3, ElementOfSeq
  <2>2. \A k \in i + 1..Len(q) : q[k] \in S
    BY <1>1, <1>3, ElementOfSeq
  <2> QED BY <1>1, <1>3, <2>1, <2>2, SubSeqProperties
<1>6. q[i] \in S
  BY <1>3, ElementOfSeq
<1>7. RemoveAt(q, i) \in Seq(S)
  BY <1>4, <1>5, ConcatProperties
<1> QED BY <1>2, <1>6, <1>7 DEF i

\* A flag of a stream may be put down.
LEMMA FlagDown ==
  ASSUME Windows, NEW p \in Streams, program' = program, width' = width,
         \/ pls' = [pls EXCEPT ![p].exit = FALSE]
         \/ pls' = [pls EXCEPT ![p].open = FALSE]
  PROVE  Windows'
<1>1. /\ DOMAIN pls' = Streams
      /\ \A r \in Streams : pls'[r] = pls[r] \/ pls'[r] = [pls[r] EXCEPT !.exit = FALSE]
                                             \/ pls'[r] = [pls[r] EXCEPT !.open = FALSE]
  BY DEF Windows
<1>2. \A r \in Streams : StreamOK([pls[r] EXCEPT !.exit = FALSE])
  BY DEF Windows, StreamOK, Fields, NewStream
<1>3. \A r \in Streams : StreamOK([pls[r] EXCEPT !.open = FALSE])
  BY DEF Windows, StreamOK, Fields, NewStream
<1>4. \A r \in Streams : StreamOK(pls'[r])
  BY <1>1, <1>2, <1>3 DEF Windows
<1>5. Streams' = Streams /\ Line' = Line /\ Widths' = Widths
  BY DEF Streams, Line, Widths
<1> QED BY <1>1, <1>4, <1>5 DEF Windows, StreamOK, Fields, NewStream

\* The sets of types are the same in every step.
LEMMA SameTypes ==
  program' = program => /\ Streams' = Streams /\ Line' = Line /\ Widths' = Widths
                        /\ Plain' = Plain /\ EventSet' = EventSet
BY DEF Streams, Line, Widths, Plain, EventSet

\* What does not touch the queue nor the windows need only look at the rest.
LEMMA Untouched ==
  ASSUME program' = program, Windows, queue \in Seq(EventSet), UNCHANGED << pls, width, queue >>
  PROVE  Windows' /\ (queue \in Seq(EventSet))'
<1>1. Streams' = Streams /\ Line' = Line /\ Widths' = Widths /\ EventSet' = EventSet
  BY SameTypes
<1> QED BY <1>1 DEF Windows, StreamOK, Fields, NewStream

\* What shows nothing was exposed by an event that there was.
LEMMA AreasStep ==
  ASSUME Shape, Areas, Counts, program' = program, [Next]_vars
  PROVE  Areas'
<1>1. Streams' = Streams /\ program.events \in Nat /\ events \in 0..program.events
  BY SameTypes, ProgramBounds DEF Shape, Counts
<1>2. CASE User
  <2>1. events + 1 \in 1..program.events
    BY <1>1, <1>2 DEF User
  <2>2. blank' = blank \/ \E p \in Streams : blank' = [blank EXCEPT ![p] = @ \cup {events + 1}]
    BY <1>2 DEF User, Streams
  <2> QED BY <1>1, <2>1, <2>2 DEF Areas
<1>3. CASE ~ User
  <2>1. \A p, e, q : MasterEH(p, e, q) =>
          blank' = blank \/ blank' = [blank EXCEPT ![p] = {}] \/ blank' = [blank EXCEPT ![p] = @ \ {e.area}]
    BY DEF MasterEH, Refreshed
  <2>2. \/ blank' = blank
        \/ \E p : blank' = [blank EXCEPT ![p] = {}]
        \/ \E p : \E a : blank' = [blank EXCEPT ![p] = @ \ {a}]
    <3>1. CASE Main
      BY <2>1, <3>1, HandleCases, WaitCases DEF Main, Draw, Pages, Plsstrm, LineRecord, LineCall,
           LineLock, LineDraw, ResizeDrop, Call, BopClear, BopRecord, Wait, TidyCancel, Tidy, Close
    <3>2. ASSUME NEW p \in Streams, Thread(p)
          PROVE  \/ blank' = blank \/ blank' = [blank EXCEPT ![p] = {}]
                 \/ \E a : blank' = [blank EXCEPT ![p] = @ \ {a}]
      BY <3>2 DEF Thread, ThreadStart, ThreadCancelled, ThreadLock, ThreadTake, ThreadExposed,
           ThreadReplay, ThreadReplayed, ThreadDrop, ThreadUnlock, ThreadWake, Refreshed
    <3> QED BY <1>3, <3>1, <3>2 DEF Next, Streams, vars
  <2> QED BY <1>1, <2>2 DEF Areas
<1> QED BY <1>2, <1>3

\* Every step of the program and of the user keeps the types.
LEMMA MainTyped == Shape /\ Typed /\ program' = program /\ Areas' /\ (User \/ Main) => Typed'
<1> SUFFICES ASSUME Shape, Typed, program' = program, Areas', User \/ Main PROVE Typed'
  OBVIOUS
<1>0. /\ Streams' = Streams /\ Line' = Line /\ Widths' = Widths /\ EventSet' = EventSet
      /\ program.lines \in Nat /\ program.events \in Nat /\ plsc \in Streams
  BY SameTypes, ProgramBounds DEF Shape
<1> USE DEF Typed
<1>1. CASE User
  <2>1. PICK p \in Streams :
          \/ /\ \E type \in {"key", "delete"} : queue' = Append(queue, Event(p, type, 0, 0))
             /\ UNCHANGED width
          \/ queue' = Append(queue, Event(p, "expose", 0, events + 1)) /\ UNCHANGED width
          \/ \E w \in Widths \ {width[p]} :
               /\ width' = [width EXCEPT ![p] = w]
               /\ queue' = Append(Append(queue, Event(p, "resize", w, 0)), Event(p, "expose", 0, events + 1))
    BY <1>1 DEF User, Streams
  <2>2. /\ \A type \in {"key", "delete"} : Event(p, type, 0, 0) \in EventSet
        /\ \A w \in Widths : Event(p, "resize", w, 0) \in EventSet
        /\ Event(p, "expose", 0, events + 1) \in EventSet
    <3>1. events + 1 \in 0..program.events /\ 0 \in 0..program.events
      BY <1>0, <1>1 DEF User, Counts
    <3> QED BY <3>1 DEF Event, EventSet, Plain
  <2>3. queue' \in Seq(EventSet)
    BY <2>1, <2>2, AppendProperties
  <2>4. DOMAIN width' = Streams /\ \A r \in Streams : width'[r] \in Widths
    BY <2>1 DEF Windows
  <2>5. Windows'
    BY <1>0, <1>1, <2>4 DEF User, Windows, StreamOK, Fields, NewStream
  <2>6. Threads' /\ Place' /\ Counts'
    BY <1>0, <1>1 DEF User, Threads, ThreadOK, TFields, NewThread, Place, Counts
  <2> QED BY <1>0, <2>3, <2>5, <2>6
<1>2. CASE Plsstrm
  <2>1. UNCHANGED << pls, width, queue >>
    BY <1>2 DEF Plsstrm, Rest
  <2>2. Threads' /\ Place' /\ Counts'
    BY <1>0, <1>2 DEF Plsstrm, Streams, Rest, Goes, Shape, MFields, Idle, Calling, Threads, ThreadOK, TFields,
         NewThread, Place, Counts
  <2> QED BY <2>1, <2>2, Untouched
<1>3. CASE LineRecord
  <2> DEFINE line == << meant, lines + 1 >>
  <2>1. /\ lines < program.lines /\ lines' = lines + 1
        /\ main' = [Idle EXCEPT !.pc = "line", !.line = line]
        /\ pls' = IF pls[plsc].write THEN [pls EXCEPT ![plsc].buffer = Append(@, line)] ELSE pls
        /\ UNCHANGED << width, thread, events, plsc, queue, mutex, meant >>
    BY <1>3 DEF LineRecord, Rest
  <2>2. line \in Line /\ lines + 1 \in 0..program.lines
    BY <1>0, <2>1 DEF Counts, Line, Streams
  <2> HIDE DEF line
  <2>3. Append(pls[plsc].buffer, line) \in Seq(Line)
    <3>1. pls[plsc].buffer \in Seq(Line)
      BY <1>0 DEF Windows, StreamOK
    <3> QED BY <2>2, <3>1, AppendProperties
  <2>4. Windows'
    BY <1>0, <2>1, <2>3 DEF Windows, StreamOK, Fields, NewStream
  <2>5. Threads' /\ Place' /\ Counts'
    BY <1>0, <2>1, <2>2 DEF Threads, ThreadOK, TFields, NewThread, Place, Counts, Idle
  <2> QED BY <1>0, <2>1, <2>4, <2>5
<1>4. CASE LineCall
  <2>1. UNCHANGED << pls, width, queue >>
    BY <1>4 DEF LineCall, Rest
  <2>2. Threads' /\ Place' /\ Counts'
    BY <1>0, <1>4 DEF LineCall, Rest, Goes, Shape, MFields, Idle, Calling, Threads, ThreadOK, TFields,
         NewThread, Place, Counts
  <2> QED BY <2>1, <2>2, Untouched
<1>5. CASE LineLock
  <2>1. UNCHANGED << pls, width, queue >>
    BY <1>5 DEF LineLock, Rest
  <2>2. Threads' /\ Place' /\ Counts'
    BY <1>0, <1>5 DEF LineLock, Rest, Goes, Shape, MFields, Idle, Calling, Threads, ThreadOK, TFields,
         NewThread, Place, Counts
  <2> QED BY <2>1, <2>2, Untouched
<1>6. CASE HandleEvents
  <2>1. main.pls \in Streams
    BY <1>6 DEF HandleEvents, Goes, Shape, Calling
  <2>2. UNCHANGED << plsc, mutex, meant, lines, width, thread, events >>
    BY <1>6 DEF HandleEvents, Rest
  <2>3. CASE Own(main.pls) = {}
    <3>1. UNCHANGED << pls, width, queue >> /\ main' = [main EXCEPT !.pc = "draw"]
      BY <1>6, <2>2, <2>3 DEF HandleEvents
    <3>2. Threads' /\ Place' /\ Counts'
      BY <1>0, <1>6, <2>2, <3>1 DEF HandleEvents, Goes, Shape, MFields, Idle, Threads, ThreadOK, TFields, NewThread, Place, Counts
    <3> QED BY <3>1, <3>2, Untouched
  <2>4. CASE Own(main.pls) # {}
    <3> DEFINE mine == Own(main.pls)
    <3>1. PICK these : /\ these \subseteq mine /\ these # {}
                      /\ MasterEH(main.pls, queue[First(these)], RemoveAt(queue, First(these)))
      <4> DEFINE closes == {i \in mine : queue[i].type = "delete"}
                 these  == IF closes # {} THEN closes ELSE mine
      <4>1. these \subseteq mine /\ these # {}
        BY <2>4
      <4>2. MasterEH(main.pls, queue[First(these)], RemoveAt(queue, First(these)))
        BY <1>6, <2>4 DEF HandleEvents, Without
      <4> HIDE DEF these
      <4> QED BY <4>1, <4>2
    <3>2. these \subseteq DOMAIN queue
      BY <3>1 DEF Own
    <3> HIDE DEF mine
    <3>3. queue[First(these)] \in EventSet /\ RemoveAt(queue, First(these)) \in Seq(EventSet)
      BY <3>1, <3>2, FirstEvent
    <3>4. /\ DOMAIN pls' = Streams /\ \A r \in Streams : StreamOK(pls'[r])
          /\ queue' \in Seq(EventSet)
      BY <2>1, <3>1, <3>3, MasterTyped
    <3>5. Windows'
      BY <1>0, <2>2, <3>4 DEF Windows, StreamOK, Fields, NewStream
    <3>6. Threads' /\ Place' /\ Counts'
      <4>1. main'.pc = main.pc /\ main'.pls = main.pls /\ main'.line = main.line
        BY <2>1, <3>1, MasterShape
      <4> QED BY <1>0, <2>2, <4>1 DEF Threads, ThreadOK, TFields, NewThread, Place, Counts
    <3> QED BY <1>0, <3>4, <3>5, <3>6
  <2> QED BY <2>3, <2>4
<1>7. CASE LineDraw
  <2>1. /\ main.pls \in Streams /\ main.line \in Line /\ main' = Idle /\ mutex' = Free
        /\ UNCHANGED << plsc, queue, meant, lines, width, thread, events >>
        /\ pls' = [pls EXCEPT ![main.pls].canvas = @ \cup {Mark(main.line, pls[main.pls].width)}]
    BY <1>7 DEF LineDraw, Goes, Shape, Calling, Place, Rest
  <2>2. Mark(main.line, pls[main.pls].width) \in Line \X Widths
    BY <2>1 DEF Mark, Windows, StreamOK
  <2> DEFINE mark == Mark(main.line, pls[main.pls].width)
  <2>3. pls' = [pls EXCEPT ![main.pls].canvas = @ \cup {mark}] /\ mark \in Line \X Widths
    BY <2>1, <2>2
  <2> HIDE DEF mark
  <2>4. Windows'
    BY <1>0, <2>1, <2>3 DEF Windows, StreamOK, Fields, NewStream
  <2>5. Threads' /\ Place' /\ Counts'
    BY <1>0, <2>1 DEF Threads, ThreadOK, TFields, NewThread, Place, Counts, Idle
  <2> QED BY <1>0, <2>1, <2>4, <2>5
<1>8. CASE Call
  <2>1. UNCHANGED << pls, width, queue >>
    BY <1>8 DEF Call, Rest
  <2>2. Threads' /\ Place' /\ Counts'
    BY <1>0, <1>8 DEF Call, Rest, Goes, Shape, MFields, Idle, Calling, Threads, ThreadOK, TFields,
         NewThread, Place, Counts
  <2> QED BY <2>1, <2>2, Untouched
<1>9. CASE BopClear
  <2>1. main.pls \in Streams
    BY <1>9 DEF BopClear, Goes, Shape, Calling
  <2>2. Windows' /\ queue' = queue
    BY <1>0, <1>9, <2>1 DEF BopClear, Goes, Rest, Windows, StreamOK, Fields, NewStream
  <2>3. Threads' /\ Place' /\ Counts'
    BY <1>0, <1>9 DEF BopClear, Rest, Goes, Threads, ThreadOK, TFields, NewThread, Place, Counts, Idle
  <2> QED BY <1>0, <2>2, <2>3
<1>10. CASE BopRecord
  <2>1. << >> \in Seq(Line)
    OBVIOUS
  <2>2. Windows' /\ queue' = queue
    BY <1>0, <1>10, <2>1 DEF BopRecord, Rest, Windows, StreamOK, Fields, NewStream
  <2>3. Threads' /\ Place' /\ Counts'
    BY <1>0, <1>10 DEF BopRecord, Rest, Threads, ThreadOK, TFields, NewThread, Place, Counts, Idle
  <2> QED BY <1>0, <2>2, <2>3
<1>11. CASE Wait
  <2>1. UNCHANGED << pls, width, queue >>
    BY <1>11 DEF Wait, Rest
  <2>2. Threads' /\ Place' /\ Counts'
    BY <1>0, <1>11 DEF Wait, Rest, Goes, Shape, MFields, Idle, Calling, Threads, ThreadOK, TFields,
         NewThread, Place, Counts
  <2> QED BY <2>1, <2>2, Untouched
<1>12. CASE WaitForPage
  <2>1. main.pls \in Streams
    BY <1>12 DEF WaitForPage, Goes, Shape, Calling
  <2>2. UNCHANGED << plsc, meant, lines, width, thread, events >>
    BY <1>12 DEF WaitForPage, Rest
  <2>3. CASE pls[main.pls].exit
    <3>1. /\ pls' = [pls EXCEPT ![main.pls].exit = FALSE] /\ main' = Idle /\ mutex' = Free
          /\ queue' = queue
      BY <1>12, <2>3 DEF WaitForPage
    <3>2. Windows'
      BY <2>1, <2>2, <3>1, FlagDown
    <3>3. Threads' /\ Place' /\ Counts'
      BY <1>0, <2>2, <3>1 DEF Threads, ThreadOK, TFields, NewThread, Place, Counts, Idle
    <3> QED BY <1>0, <3>1, <3>2, <3>3
  <2>4. CASE ~ pls[main.pls].exit
    <3>1. /\ queue # << >> /\ MasterEH(main.pls, Head(queue), Tail(queue))
          /\ UNCHANGED mutex
      BY <1>12, <2>4 DEF WaitForPage
    <3>2. Head(queue) \in EventSet /\ Tail(queue) \in Seq(EventSet)
      BY <3>1, HeadTailProperties
    <3>3. /\ DOMAIN pls' = Streams /\ \A r \in Streams : StreamOK(pls'[r])
          /\ queue' \in Seq(EventSet)
      BY <2>1, <3>1, <3>2, MasterTyped
    <3>4. Windows'
      BY <1>0, <2>2, <3>3 DEF Windows, StreamOK, Fields, NewStream
    <3>5. Threads' /\ Place' /\ Counts'
      <4>1. main'.pc = main.pc /\ main'.pls = main.pls /\ main'.line = main.line
        BY <2>1, <3>1, MasterShape
      <4> QED BY <1>0, <2>2, <3>1, <4>1 DEF Threads, ThreadOK, TFields, NewThread, Place, Counts
    <3> QED BY <1>0, <3>3, <3>4, <3>5
  <2> QED BY <2>3, <2>4
<1>13. CASE TidyCancel
  <2>1. UNCHANGED << pls, width, queue >>
    BY <1>13 DEF TidyCancel
  <2>2. Threads' /\ Place' /\ Counts'
    BY <1>0, <1>13 DEF TidyCancel, Goes, Shape, MFields, Idle, Calling, Threads, ThreadOK, TFields,
         NewThread, Place, Counts
  <2> QED BY <2>1, <2>2, Untouched
<1>14. CASE Tidy
  <2>1. UNCHANGED << pls, width, queue >>
    BY <1>14 DEF Tidy, Rest
  <2>2. Threads' /\ Place' /\ Counts'
    BY <1>0, <1>14 DEF Tidy, Rest, Goes, Shape, MFields, Idle, Calling, Threads, ThreadOK, TFields,
         NewThread, Place, Counts
  <2> QED BY <2>1, <2>2, Untouched
<1>15. CASE ResizeDrop
  <2>1. /\ queue' = Dropped(queue, main.pls) /\ main' = [main EXCEPT !.drop = FALSE]
        /\ UNCHANGED << plsc, pls, mutex, meant, lines, width, thread, events >>
    BY <1>15 DEF ResizeDrop, Rest
  <2>2. queue' \in Seq(EventSet)
    BY <2>1, DroppedType
  <2>3. Windows'
    BY <1>0, <2>1 DEF Windows, StreamOK, Fields, NewStream
  <2>4. Threads' /\ Place' /\ Counts'
    BY <1>0, <2>1 DEF Shape, MFields, Idle, Threads, ThreadOK, TFields, NewThread, Place, Counts
  <2> QED BY <1>0, <2>2, <2>3, <2>4
<1>16. CASE Close
  <2>1. /\ pls' = [pls EXCEPT ![plsc].open = FALSE]
        /\ UNCHANGED << queue, mutex, lines, width, thread, events >>
        /\ main' \in {[main EXCEPT !.pc = "lost"], Idle, [Idle EXCEPT !.pc = "end"]}
        /\ meant' \in Streams
    BY <1>16 DEF Close, Rest, Counts, Streams
  <2>2. Windows'
    BY <1>0, <2>1, FlagDown DEF Close
  <2>3. Threads' /\ Place' /\ Counts'
    BY <1>0, <2>1 DEF Shape, MFields, Threads, ThreadOK, TFields, NewThread, Place, Counts, Idle
  <2> QED BY <1>0, <2>1, <2>2, <2>3
<1> QED BY <1>1, <1>2, <1>3, <1>4, <1>5, <1>6, <1>7, <1>8, <1>9, <1>10, <1>11, <1>12, <1>13, <1>14,
           <1>15, <1>16
     DEF Main, Draw, Pages

\* A step of a thread leaves the places of the others.
LEMMA PlaceStays ==
  ASSUME Typed, UNCHANGED << program, main, meant, lines, events >>,
         mutex' \in {Free, Prog} \cup Streams
  PROVE  Place' /\ Counts'
BY SameTypes DEF Typed, Place, Counts

\* A thread with a type has a place.
LEMMA ThreadsStay ==
  ASSUME Threads, NEW p \in Streams, program' = program, DOMAIN thread' = Streams,
         \A r \in Streams \ {p} : thread'[r] = thread[r], ThreadOK(thread'[p])
  PROVE  Threads'
<1>1. \A r \in Streams : ThreadOK(thread'[r])
  BY DEF Threads
<1> QED BY <1>1, SameTypes DEF Threads, ThreadOK, TFields, NewThread

\* The stream that a thread draws on.
LEMMA WindowsStay ==
  ASSUME Windows, NEW p \in Streams, program' = program, width' = width, DOMAIN pls' = Streams,
         \A r \in Streams \ {p} : pls'[r] = pls[r], StreamOK(pls'[p])
  PROVE  Windows'
<1>1. \A r \in Streams : StreamOK(pls'[r])
  BY DEF Windows
<1> QED BY <1>1, SameTypes DEF Windows, StreamOK, Fields, NewStream

\* A thread that goes on, or to its loop again.
LEMMA HeldType ==
  ASSUME Threads, NEW p \in Streams, program' = program, Held(p)
  PROVE  Threads'
<1>1. thread' = [thread EXCEPT ![p] = [NewThread("held") EXCEPT
                   !.async = thread[p].async, !.cancelled = thread[p].cancelled]]
  BY DEF Held
<1>2. ThreadOK([NewThread("held") EXCEPT !.async = thread[p].async, !.cancelled = thread[p].cancelled])
  BY DEF ThreadOK, NewThread, TFields
<1> DEFINE t == [NewThread("held") EXCEPT !.async = thread[p].async, !.cancelled = thread[p].cancelled]
<1>3. thread' = [thread EXCEPT ![p] = t] /\ ThreadOK(t)
  BY <1>1, <1>2
<1> HIDE DEF t
<1> QED BY <1>3, ThreadsStay DEF Threads

\* A thread that goes on to another place keeps its type.
LEMMA NowType ==
  ASSUME Threads, NEW p \in Streams, program' = program, NEW pc, pc # "replay", Now(p, pc)
  PROVE  Threads'
<1>1. thread' = [thread EXCEPT ![p] = [@ EXCEPT !.pc = pc]]
  BY DEF Now
<1>2. ThreadOK([thread[p] EXCEPT !.pc = pc])
  BY DEF Threads, ThreadOK, NewThread, TFields
<1> QED BY <1>1, <1>2, ThreadsStay DEF Threads

\* Every step of a thread keeps the types.
LEMMA ThreadTyped ==
  ASSUME Shape, Typed, program' = program, Areas', NEW p \in Streams, Thread(p)
  PROVE  Typed'
<1>0. /\ Streams' = Streams /\ Line' = Line /\ Widths' = Widths /\ EventSet' = EventSet /\ plsc \in Streams
      /\ Windows /\ Threads /\ queue \in Seq(EventSet)
      /\ mutex \in {Free, Prog} \cup Streams
  BY SameTypes DEF Shape, Typed, Counts
<1>1. SUFFICES Windows' /\ Threads' /\ queue' \in Seq(EventSet)
  <2>1. UNCHANGED << program, main, meant, lines, events >> /\ mutex' \in {Free, Prog} \cup Streams
    BY <1>0 DEF Thread, ThreadStart, ThreadCancelled, ThreadLock, ThreadTake, ThreadExposed,
         ThreadReplay, ThreadReplayed, ThreadDrop, ThreadUnlock, ThreadWake, Aside
  <2> QED BY <1>0, <2>1, PlaceStays DEF Typed
<1>2. width' = width
  BY DEF Thread, ThreadStart, ThreadCancelled, ThreadLock, ThreadTake, ThreadExposed, ThreadReplay,
       ThreadReplayed, ThreadDrop, ThreadUnlock, ThreadWake, Aside
<1>3. CASE UNCHANGED << pls, queue >> /\ \E pc \in {"dead", "held", "unlock", "sleep", "loop", "drop"} : Now(p, pc)
  <2>1. Windows' /\ (queue \in Seq(EventSet))'
    BY <1>0, <1>2, <1>3, Untouched
  <2> QED BY <1>0, <1>3, <2>1, NowType
<1>4. CASE ThreadStart(p)
  <2>1. /\ thread' = [thread EXCEPT ![p].pc = IF thread[p].cancelled THEN "dead" ELSE "loop", ![p].async = TRUE]
        /\ UNCHANGED << pls, queue >>
    BY <1>4 DEF ThreadStart
  <2>2. ThreadOK([thread[p] EXCEPT !.pc = IF thread[p].cancelled THEN "dead" ELSE "loop", !.async = TRUE])
    BY <1>0 DEF Threads, ThreadOK, NewThread, TFields
  <2>3. /\ DOMAIN thread' = Streams /\ \A r \in Streams \ {p} : thread'[r] = thread[r]
        /\ thread'[p] = [thread[p] EXCEPT !.pc = IF thread[p].cancelled THEN "dead" ELSE "loop", !.async = TRUE]
    BY <1>0, <2>1 DEF Threads
  <2>4. Threads'
    BY <1>0, <2>2, <2>3, ThreadsStay
  <2> QED BY <1>0, <1>2, <2>1, <2>4, Untouched
<1>5. CASE ThreadTake(p)
  <2> DEFINE mine == Waiting(p)
             e    == queue[First(mine)]
  <2>1. mine # {} /\ queue' = RemoveAt(queue, First(mine))
    BY <1>5 DEF ThreadTake, Without
  <2>2. mine \subseteq DOMAIN queue /\ \A i \in mine : Redisplay(queue[i])
    BY DEF Waiting, Own
  <2> HIDE DEF mine
  <2>3. e \in EventSet /\ queue' \in Seq(EventSet)
    BY <1>0, <2>1, <2>2, FirstEvent
  <2>4. CASE e.type = "resize" /\ e.width # pls[p].width
    <3>1. /\ thread' = [thread EXCEPT ![p] = [@ EXCEPT
               !.pc = "replay", !.oplsc = plsc, !.k = 1,
               !.top = Len(pls[p].buffer), !.write = pls[p].write]]
          /\ pls' = [pls EXCEPT ![p].width = e.width, ![p].canvas = {},
                                ![p].write = FALSE, ![p].read = TRUE]
      BY <1>5, <2>4 DEF ThreadTake, mine
    <3>2. e.width \in Widths
      BY <2>3, <2>4 DEF EventSet, Plain
    <3> HIDE DEF e
    <3>3. DOMAIN pls' = Streams /\ (\A r \in Streams \ {p} : pls'[r] = pls[r]) /\ StreamOK(pls'[p])
      BY <1>0, <3>1, <3>2 DEF Windows, StreamOK, Fields, NewStream
    <3>4. Len(pls[p].buffer) \in Nat /\ pls[p].write \in BOOLEAN
      BY <1>0, LenProperties DEF Windows, StreamOK
    <3> DEFINE top == Len(pls[p].buffer)
               write == pls[p].write
    <3>5. /\ thread' = [thread EXCEPT ![p] = [@ EXCEPT
               !.pc = "replay", !.oplsc = plsc, !.k = 1, !.top = top, !.write = write]]
          /\ top \in Nat /\ write \in BOOLEAN
      BY <3>1, <3>4
    <3> HIDE DEF top, write
    <3>6. /\ DOMAIN thread' = Streams /\ (\A r \in Streams \ {p} : thread'[r] = thread[r])
          /\ ThreadOK(thread'[p])
      BY <1>0, <3>5 DEF Threads, ThreadOK, TFields, NewThread
    <3> QED BY <1>0, <1>2, <2>3, <3>3, <3>6, ThreadsStay, WindowsStay
  <2>5. CASE ~ (e.type = "resize" /\ e.width # pls[p].width)
    <3>1. thread' = [thread EXCEPT ![p].pc = "expose", ![p].oplsc = plsc] /\ UNCHANGED pls
      BY <1>5, <2>5 DEF ThreadTake, mine
    <3>2. /\ DOMAIN thread' = Streams /\ (\A r \in Streams \ {p} : thread'[r] = thread[r])
          /\ ThreadOK(thread'[p])
      BY <1>0, <3>1 DEF Threads, ThreadOK, TFields, NewThread
    <3>3. Windows'
      BY <1>0, <1>2, <3>1 DEF Windows, StreamOK, Fields, NewStream
    <3> QED BY <1>0, <2>3, <3>2, <3>3, ThreadsStay
  <2> QED BY <2>4, <2>5
<1>6. CASE ThreadExposed(p)
  <2>1. UNCHANGED << pls, queue >> /\ Held(p)
    BY <1>6 DEF ThreadExposed
  <2>2. Windows' /\ (queue \in Seq(EventSet))'
    BY <1>0, <1>2, <2>1, Untouched
  <2> QED BY <1>0, <2>1, <2>2, HeldType
<1>7. CASE ThreadReplay(p)
  <2> DEFINE k    == thread[p].k
             line == pls[p].buffer[k]
             s    == pls[plsc]
             mark == Mark(line, s.width)
             more == [s EXCEPT !.buffer = IF s.write THEN Append(@, line) ELSE @, 
                        !.canvas = IF s.closed THEN @ ELSE @ \cup {mark}]
  <2>1. /\ At(p, "replay") /\ k <= Len(pls[p].buffer)
        /\ pls' = [pls EXCEPT ![plsc] = more]
        /\ thread' = [thread EXCEPT ![p].k = @ + 1] /\ queue' = queue
    BY <1>7 DEF ThreadReplay, Reading
  <2>2. k \in Nat \ {0} /\ thread[p].top \in Nat
    BY <1>0, <2>1 DEF At, Threads, ThreadOK
  <2>3. pls[p].buffer \in Seq(Line) /\ StreamOK(s)
    BY <1>0 DEF Windows, StreamOK
  <2>4. line \in Line
    <3>1. k \in 1..Len(pls[p].buffer)
      BY <2>1, <2>2, <2>3, LenProperties
    <3> HIDE DEF k
    <3> QED BY <2>3, <3>1, ElementOfSeq
  <2> HIDE DEF line
  <2>5. Append(s.buffer, line) \in Seq(Line) /\ mark \in Line \X Widths
    BY <2>3, <2>4, AppendProperties DEF StreamOK, Mark
  <2> HIDE DEF s, mark
  <2>6. StreamOK(more)
    BY <2>3, <2>5 DEF StreamOK, Fields, NewStream
  <2> HIDE DEF more
  <2>7. DOMAIN pls' = Streams /\ (\A r \in Streams \ {plsc} : pls'[r] = pls[r]) /\ StreamOK(pls'[plsc])
    BY <1>0, <2>1, <2>6 DEF Windows
  <2>8. /\ DOMAIN thread' = Streams /\ (\A r \in Streams \ {p} : thread'[r] = thread[r])
        /\ thread'[p] = [thread[p] EXCEPT !.k = k + 1]
    BY <1>0, <2>1 DEF Threads
  <2>9. k + 1 \in Nat \ {0}
    <3> HIDE DEF k
    <3> QED BY <2>2
  <2>10. ThreadOK(thread'[p])
    <3> HIDE DEF k
    <3> QED BY <1>0, <2>2, <2>8, <2>9 DEF Threads, ThreadOK, TFields, NewThread
  <2> QED BY <1>0, <1>2, <2>1, <2>7, <2>8, <2>10, ThreadsStay, WindowsStay
<1>8. CASE ThreadReplayed(p)
  <2>1. /\ pls' = [pls EXCEPT ![p].write = thread[p].write, ![p].read = FALSE]
        /\ queue' = queue /\ Now(p, "drop")
    BY <1>8 DEF ThreadReplayed
  <2>2. thread[p].write \in BOOLEAN
    BY <1>0 DEF Threads, ThreadOK
  <2> DEFINE write == thread[p].write
  <2>3. pls' = [pls EXCEPT ![p].write = write, ![p].read = FALSE] /\ write \in BOOLEAN
    BY <2>1, <2>2
  <2> HIDE DEF write
  <2>4. DOMAIN pls' = Streams /\ (\A r \in Streams \ {p} : pls'[r] = pls[r]) /\ StreamOK(pls'[p])
    BY <1>0, <2>3 DEF Windows, StreamOK, Fields, NewStream
  <2> QED BY <1>0, <1>2, <2>1, <2>4, WindowsStay, NowType
<1>9. CASE ThreadDrop(p)
  <2>1. queue' = Dropped(queue, p) /\ UNCHANGED pls /\ Held(p)
    BY <1>9 DEF ThreadDrop
  <2>2. Windows'
    BY <1>0, <1>2, <2>1 DEF Windows, StreamOK, Fields, NewStream
  <2> QED BY <1>0, <2>1, <2>2, DroppedType, HeldType
<1>10. \/ UNCHANGED << pls, queue >> /\ \E pc \in {"dead", "held", "unlock", "sleep", "loop", "drop"} : Now(p, pc)
       \/ ThreadStart(p) \/ ThreadTake(p) \/ ThreadExposed(p) \/ ThreadReplay(p) \/ ThreadReplayed(p)
       \/ ThreadDrop(p)
  BY DEF Thread, ThreadCancelled, ThreadLock, ThreadUnlock, ThreadWake
<1> QED BY <1>3, <1>4, <1>5, <1>6, <1>7, <1>8, <1>9, <1>10

\* Every step keeps the types.
LEMMA TypedStep == Shape /\ Typed /\ [Next]_vars => Typed'
<1> SUFFICES ASSUME Shape, Typed, [Next]_vars PROVE Typed'
  OBVIOUS
<1>1. program' = program /\ Areas'
  BY ProgramStays, AreasStep DEF Typed
<1>2. CASE User \/ Main
  BY <1>1, <1>2, MainTyped
<1>3. ASSUME NEW p \in Streams, Thread(p) PROVE Typed'
  BY <1>1, <1>3, ThreadTyped
<1>4. CASE UNCHANGED vars
  BY <1>4, SameTypes DEF vars, Typed, Windows, Areas, StreamOK, Fields, NewStream, Threads, ThreadOK,
       TFields, NewThread, Place, Counts
<1> QED BY <1>2, <1>3, <1>4 DEF Next, Streams

\* Whatever the user and the threads do, streams, threads and events have their
\* types, and what is drawn is a line at the size of a window.
THEOREM TypeHolds == Spec => []TypeOK
<1>1. Shape /\ Typed => TypeOK
  <2>1. ASSUME Shape, Typed, NEW i \in DOMAIN queue PROVE queue[i].type \in {"expose", "resize", "key", "delete"}
    <3>1. queue[i] \in EventSet
      BY <2>1 DEF Typed
    <3> QED BY <3>1 DEF EventSet, Plain
  <2> QED BY <2>1 DEF Shape, Typed, Windows, Areas, StreamOK, Threads, ThreadOK, Place, Counts, TypeOK, Streams
<1>2. Mutex => Shape
  BY DEF Mutex
<1> QED BY <1>1, <1>2, MutexInit, MutexStep, TypedInit, TypedStep, PTL DEF Spec
-----------------------------------------------------------------------------
(* What shows nothing waits to be redrawn.                                 *)

OneWidth == Cardinality(Widths) = 1
OwnOnly  == program.nopause \/ Cardinality(Streams) = 1

\* In a program whose windows keep their size nothing is resized nor dropped.
Lasting == OneWidth =>
  /\ queue \in Seq(Plain) /\ main.drop = FALSE
  /\ \A p \in Streams : thread[p].pc \notin {"replay", "drop"}

\* A program that does not pause never waits.
NoPause == program.nopause =>
  /\ main.pc \notin {"waitLock", "wait"}
  /\ \A p \in Streams : pls[p].nopause = TRUE

\* The expose of what shows nothing is in the queue.
Has(q, e) == \E i \in DOMAIN q : q[i] = e
Awaited   == \A p \in Streams : \A area \in blank[p] : Has(queue, Event(p, "expose", 0, area))
Waits     == OneWidth /\ OwnOnly => Awaited

\* It holds at first.
LEMMA WaitsInit == Init => Lasting /\ NoPause /\ Waits
<1> SUFFICES ASSUME Init PROVE Lasting /\ NoPause /\ Waits
  OBVIOUS
<1>1. /\ queue = << >> /\ main = Idle /\ program.nopause \in BOOLEAN
      /\ \A p \in Streams : /\ thread[p].pc \in {"new", "none"} /\ blank[p] = {}
                            /\ pls[p].nopause = program.nopause
  BY XwinAssumption DEF Init, NewStream, NewThread, Streams
<1>2. << >> \in Seq(Plain)
  OBVIOUS
<1> QED BY <1>1, <1>2 DEF Lasting, NoPause, Waits, Awaited, Idle

\* Only the program waits, and the user's closing of a window does not undo -np.
LEMMA NoPauseStep == Shape /\ NoPause /\ [Next]_vars => NoPause'
<1> SUFFICES ASSUME Shape, NoPause, [Next]_vars, program.nopause
             PROVE  /\ main'.pc \notin {"waitLock", "wait"}
                    /\ \A p \in Streams : pls'[p].nopause = TRUE
  BY ProgramStays DEF NoPause, Streams
<1>0. /\ main.pc \notin {"waitLock", "wait"} /\ \A p \in Streams : pls[p].nopause = TRUE
      /\ plsc \in Streams
  BY DEF NoPause, Shape
<1>1. CASE User \/ Plsstrm \/ LineCall \/ LineLock \/ ResizeDrop \/ Call \/ TidyCancel \/ Tidy \/ UNCHANGED vars
  <2>1. pls' = pls
    BY <1>1 DEF User, Plsstrm, LineCall, LineLock, ResizeDrop, Call, TidyCancel, Tidy, vars
  <2>2. CASE User \/ Plsstrm \/ UNCHANGED vars
    BY <1>0, <2>1, <2>2 DEF User, Plsstrm, vars
  <2>3. CASE LineCall \/ LineLock \/ ResizeDrop \/ TidyCancel \/ Tidy
    <3>1. main'.pc \in {main.pc, "idle", "lock", "check", "draw", "tidy", "closing"}
      <4>1. ASSUME LineCall PROVE main'.pc \in {main.pc, "idle", "lock", "check", "draw", "tidy", "closing"}
        BY <4>1 DEF LineCall, Shape, MFields, Idle
      <4>2. ASSUME LineLock PROVE main'.pc \in {main.pc, "idle", "lock", "check", "draw", "tidy", "closing"}
        BY <4>2 DEF LineLock, Shape, MFields, Idle
      <4>3. ASSUME ResizeDrop PROVE main'.pc \in {main.pc, "idle", "lock", "check", "draw", "tidy", "closing"}
        BY <4>3 DEF ResizeDrop, Shape, MFields, Idle
      <4>4. ASSUME TidyCancel PROVE main'.pc \in {main.pc, "idle", "lock", "check", "draw", "tidy", "closing"}
        BY <4>4 DEF TidyCancel, Shape, MFields, Idle
      <4>5. ASSUME Tidy PROVE main'.pc \in {main.pc, "idle", "lock", "check", "draw", "tidy", "closing"}
        BY <4>5 DEF Tidy, Shape, MFields, Idle
      <4> QED BY <2>3, <4>1, <4>2, <4>3, <4>4, <4>5
    <3> QED BY <1>0, <2>1, <3>1
  <2>4. CASE Call
    <3>1. pls[plsc].nopause
      BY <1>0
    <3>2. main'.pc \in {"bop", "bopLock", "tidyLock"}
      BY <2>4, <3>1 DEF Call, Idle
    <3> QED BY <1>0, <2>1, <3>2
  <2> QED BY <1>1, <2>2, <2>3, <2>4
<1>2. CASE LineRecord \/ LineDraw \/ BopClear \/ BopRecord \/ Close
  <2>1. \A p \in Streams : pls'[p].nopause = pls[p].nopause
    BY <1>2 DEF LineRecord, LineDraw, BopClear, BopRecord, Close, Shape, Fields, NewStream
  <2>2. main'.pc \in {"line", "idle", "bop", "lost", "end"}
    <3>1. CASE LineRecord \/ LineDraw \/ BopClear \/ BopRecord
      <4>1. CASE LineRecord
        BY <4>1 DEF LineRecord, Idle
      <4>2. CASE LineDraw \/ BopClear \/ BopRecord
        BY <4>2 DEF LineDraw, BopClear, BopRecord, Idle
      <4> QED BY <3>1, <4>1, <4>2
    <3>2. CASE Close
      BY <3>2 DEF Close, Shape, MFields, Idle
    <3> QED BY <1>2, <3>1, <3>2
  <2> QED BY <1>0, <2>1, <2>2
<1>3. CASE HandleEvents
  <2>1. main.pls \in Streams
    BY <1>3, HandleCases DEF Shape, Calling
  <2>2. CASE \E e, q : MasterEH(main.pls, e, q)
    BY <1>0, <2>1, <2>2, MasterShape
  <2> QED BY <1>0, <1>3, <2>2, HandleCases DEF Shape, MFields, Idle
<1>4. CASE Wait \/ WaitForPage
  BY <1>0, <1>4 DEF Wait, WaitForPage, Goes
<1>5. ASSUME NEW p \in Streams, Thread(p)
      PROVE  main' = main /\ \A r \in Streams : pls'[r].nopause = pls[r].nopause
  <2>1. main' = main
    BY <1>5 DEF Thread, ThreadStart, ThreadCancelled, ThreadLock, ThreadTake, ThreadExposed,
         ThreadReplay, ThreadReplayed, ThreadDrop, ThreadUnlock, ThreadWake, Aside
  <2>2. CASE ThreadTake(p)
    BY <2>1, <2>2, TakeEffect
  <2>3. CASE ThreadReplay(p)
    BY <1>0, <2>1, <2>3 DEF ThreadReplay, Shape, Fields, NewStream
  <2>4. CASE ThreadReplayed(p)
    BY <2>1, <2>4 DEF ThreadReplayed, Shape, Fields, NewStream
  <2> QED BY <1>5, <2>1, <2>2, <2>3, <2>4 DEF Thread, ThreadStart, ThreadCancelled, ThreadLock,
       ThreadExposed, ThreadDrop, ThreadUnlock, ThreadWake
<1> QED BY <1>0, <1>1, <1>2, <1>3, <1>4, <1>5 DEF Next, Main, Draw, Pages, Streams

\* Events that follow leave the others in the queue.
LEMMA AppendHas ==
  ASSUME NEW S, NEW q \in Seq(S), NEW e
  PROVE  Has(Append(q, e), e) /\ \A x : Has(q, x) => Has(Append(q, e), x)
<1>1. /\ Len(Append(q, e)) = Len(q) + 1 /\ Len(q) \in Nat /\ Append(q, e)[Len(q) + 1] = e
      /\ \A i \in 1..Len(q) : Append(q, e)[i] = q[i]
      /\ DOMAIN q = 1..Len(q) /\ DOMAIN Append(q, e) = 1..(Len(q) + 1)
  OBVIOUS
<1> QED BY <1>1 DEF Has

\* An event that is taken leaves the others.
LEMMA RemoveHas ==
  ASSUME NEW S, NEW q \in Seq(S), NEW i \in DOMAIN q
  PROVE  \A x : Has(q, x) /\ x # q[i] => Has(RemoveAt(q, i), x)
<1>1. Len(q) \in Nat /\ DOMAIN q = 1..Len(q) /\ i \in 1..Len(q)
  BY LenProperties
<1> DEFINE front == SubSeq(q, 1, i - 1)
           back  == SubSeq(q, i + 1, Len(q))
<1>2. /\ front \in Seq(S) /\ back \in Seq(S) /\ Len(front) = i - 1 /\ Len(back) = Len(q) - i
      /\ \A j \in 1..(i - 1) : front[j] = q[j]
      /\ \A j \in 1..(Len(q) - i) : back[j] = q[i + j]
  <2>1. \A j \in 1..Len(q) : q[j] \in S
    BY <1>1, ElementOfSeq
  <2>2. /\ front \in Seq(S) /\ Len(front) = i - 1 /\ \A j \in 1..(i - 1) : front[j] = q[j]
    BY <1>1, <2>1, SubSeqProperties
  <2>3. /\ back \in Seq(S) /\ Len(back) = Len(q) - i /\ \A j \in 1..(Len(q) - i) : back[j] = q[i + j]
    BY <1>1, <2>1, SubSeqProperties
  <2> QED BY <2>2, <2>3
<1>3. RemoveAt(q, i) = front \o back
  BY DEF RemoveAt
<1> HIDE DEF front, back
<1> DEFINE cut == front \o back
           n   == Len(q)
<1>4. /\ DOMAIN cut = 1..(n - 1)
      /\ \A j \in 1..(n - 1) : cut[j] = IF j <= i - 1 THEN front[j] ELSE back[j - (i - 1)]
  <2>1. /\ cut \in Seq(S) /\ Len(cut) = Len(front) + Len(back)
        /\ \A j \in 1..Len(front) + Len(back) :
             cut[j] = IF j <= Len(front) THEN front[j] ELSE back[j - Len(front)]
    BY <1>2, ConcatProperties
  <2>2. Len(cut) \in Nat /\ DOMAIN cut = 1..Len(cut)
    BY <2>1, LenProperties
  <2> HIDE DEF cut, n
  <2>3. Len(front) = i - 1 /\ Len(front) + Len(back) = n - 1
    BY <1>1, <1>2 DEF n
  <2> QED BY <2>1, <2>2, <2>3
<1> HIDE DEF cut, n
<1>5. ASSUME NEW j \in 1..n, q[j] # q[i] PROVE \E k \in 1..(n - 1) : cut[k] = q[j]
  <2>1. n \in Nat /\ i \in 1..n /\ j # i
    BY <1>1, <1>5 DEF n
  <2>2. CASE j < i
    <3>1. j \in 1..(i - 1) /\ j \in 1..(n - 1) /\ j <= i - 1
      BY <2>1, <2>2
    <3>2. front[j] = q[j]
      BY <1>2, <3>1
    <3> QED BY <1>4, <3>1, <3>2
  <2>3. CASE j > i
    <3>1. j - 1 \in 1..(n - 1) /\ ~ (j - 1 <= i - 1) /\ j - i \in 1..(n - i) /\ (j - 1) - (i - 1) = j - i
          /\ i + (j - i) = j
      BY <2>1, <2>3
    <3>2. back[j - i] = q[j]
      BY <1>2, <3>1 DEF n
    <3> QED BY <1>4, <3>1, <3>2
  <2> QED BY <2>1, <2>2, <2>3
<1>6. ASSUME NEW x, Has(q, x), x # q[i] PROVE Has(cut, x)
  BY <1>1, <1>4, <1>5, <1>6 DEF Has, n
<1> QED BY <1>3, <1>6 DEF cut

\* The head of a queue is taken.
LEMMA TailHas ==
  ASSUME NEW S, NEW q \in Seq(S), q # << >>
  PROVE  \A x : Has(q, x) /\ x # Head(q) => Has(Tail(q), x)
<1>1. /\ Len(q) \in Nat \ {0} /\ DOMAIN q = 1..Len(q) /\ Head(q) = q[1]
      /\ DOMAIN Tail(q) = 1..(Len(q) - 1) /\ \A i \in 1..(Len(q) - 1) : Tail(q)[i] = q[i + 1]
  BY HeadTailProperties, LenProperties, EmptySeq
<1>2. ASSUME NEW j \in 1..Len(q), q[j] # Head(q)
      PROVE  j - 1 \in 1..(Len(q) - 1) /\ Tail(q)[j - 1] = q[j]
  <2> DEFINE n == Len(q)
  <2>1. j # 1 /\ n \in Nat /\ j \in 1..n
    BY <1>1, <1>2
  <2> HIDE DEF n
  <2>2. j - 1 \in 1..(n - 1) /\ (j - 1) + 1 = j
    BY <2>1
  <2> QED BY <1>1, <2>2 DEF n
<1> QED BY <1>1, <1>2 DEF Has

\* An expose that is taken shows what it is of; any other event shows nothing.
LEMMA TakenWaits ==
  ASSUME Awaited, NEW p \in Streams, NEW e, NEW q, DOMAIN blank = Streams, Streams' = Streams,
         e.window = p, queue' = q, \A x : Has(queue, x) /\ x # e => Has(q, x),
         \/ e.type # "expose" /\ blank' = blank
         \/ blank' = Refreshed(p, e)
  PROVE  Awaited'
<1> SUFFICES ASSUME NEW r \in Streams, NEW area \in blank'[r]
             PROVE  Has(q, Event(r, "expose", 0, area))
  BY DEF Awaited
<1> DEFINE x == Event(r, "expose", 0, area)
<1>1. x.window = r /\ x.type = "expose" /\ x.area = area
  BY DEF Event
<1>2. area \in blank[r]
  BY DEF Refreshed
<1>3. Has(queue, x)
  BY <1>2 DEF Awaited
<1>4. x # e
  <2> SUFFICES ASSUME x = e PROVE FALSE
    OBVIOUS
  <2>1. r = p /\ e.type = "expose" /\ e.area = area
    BY <1>1
  <2>2. blank'[p] = blank[p] \ {area}
    BY <2>1 DEF Refreshed
  <2> QED BY <2>1, <2>2
<1> QED BY <1>3, <1>4

\* A step that takes no event and shows something only where it shows all.
LEMMA SameWaits ==
  ASSUME Awaited, DOMAIN blank = Streams, Streams' = Streams, queue' = queue,
         blank' = blank \/ \E p : blank' = [blank EXCEPT ![p] = {}]
  PROVE  Awaited'
<1> SUFFICES ASSUME NEW r \in Streams, NEW area \in blank'[r] PROVE area \in blank[r]
  BY DEF Awaited
<1> QED OBVIOUS

\* MasterEH of a program whose windows keep their size.
LEMMA MasterWaits ==
  ASSUME Awaited, NEW p \in Streams, NEW e \in Plain, NEW q, MasterEH(p, e, q), e.window = p,
         DOMAIN blank = Streams, Streams' = Streams, \A x : Has(queue, x) /\ x # e => Has(q, x)
  PROVE  Awaited'
<1>1. e.type \in {"expose", "key", "delete"} /\ queue' = q
  BY DEF MasterEH, Plain
<1>2. \/ e.type # "expose" /\ blank' = blank
      \/ blank' = Refreshed(p, e)
  BY <1>1 DEF MasterEH
<1> QED BY <1>1, <1>2, TakenWaits

\* It resizes nothing.
LEMMA MasterLasting ==
  ASSUME NEW p, NEW e \in Plain, NEW q, MasterEH(p, e, q)
  PROVE  main' = main /\ queue' = q
BY DEF MasterEH, Plain

\* The program takes an event of its window, and leaves the others.
LEMMA HandleTakes ==
  ASSUME HandleEvents, Own(main.pls) # {}, queue \in Seq(Plain)
  PROVE  \E e \in Plain, q \in Seq(Plain) :
           /\ MasterEH(main.pls, e, q) /\ e.window = main.pls
           /\ \A x : Has(queue, x) /\ x # e => Has(q, x)
<1> DEFINE mine   == Own(main.pls)
           closes == {i \in mine : queue[i].type = "delete"}
           these  == IF closes # {} THEN closes ELSE mine
           first  == First(these)
<1>1. MasterEH(main.pls, queue[first], RemoveAt(queue, first))
  BY DEF HandleEvents, Without
<1>2. /\ these # {} /\ these \subseteq DOMAIN queue
      /\ \A i \in these : queue[i].window = main.pls
  BY DEF Own
<1> HIDE DEF these
<1>3. first \in these /\ queue[first] \in Plain /\ RemoveAt(queue, first) \in Seq(Plain)
  BY <1>2, FirstEvent
<1>4. first \in DOMAIN queue
  BY <1>2, <1>3
<1> HIDE DEF first
<1>5. \A x : Has(queue, x) /\ x # queue[first] => Has(RemoveAt(queue, first), x)
  BY <1>4, RemoveHas
<1>6. queue[first].window = main.pls
  BY <1>2, <1>3
<1> QED BY <1>1, <1>3, <1>5, <1>6

\* Windows that keep their size show what is not in the queue any more: nobody
\* drops an event, and each is handled for the window that it is of.
LEMMA WaitsStep == Shape /\ Typed /\ Lasting /\ NoPause /\ Waits /\ [Next]_vars => Lasting' /\ Waits'
<1> SUFFICES ASSUME Shape, Typed, Lasting, NoPause, Waits, [Next]_vars PROVE Lasting' /\ Waits'
  OBVIOUS
<1>s. /\ program' = program /\ Streams' = Streams /\ Widths' = Widths /\ Plain' = Plain
      /\ DOMAIN blank = Streams /\ plsc \in Streams
  BY ProgramStays, SameTypes DEF Shape
<1> SUFFICES ASSUME OneWidth
             PROVE  /\ queue' \in Seq(Plain) /\ main'.drop = FALSE
                    /\ \A p \in Streams : thread'[p].pc \notin {"replay", "drop"}
                    /\ OwnOnly => Awaited'
  BY <1>s DEF Lasting, Waits, OneWidth, OwnOnly
<1>0. /\ Streams' = Streams /\ DOMAIN blank = Streams /\ plsc \in Streams
      /\ queue \in Seq(Plain) /\ main.drop = FALSE
      /\ \A p \in Streams : thread[p].pc \notin {"replay", "drop"}
      /\ OwnOnly => Awaited
  BY <1>s DEF Lasting, Waits
<1>1. CASE User
  <2>1. PICK p \in Streams :
          \/ /\ \E type \in {"key", "delete"} : queue' = Append(queue, Event(p, type, 0, 0))
             /\ blank' = blank
          \/ /\ queue' = Append(queue, Event(p, "expose", 0, events + 1))
             /\ blank' = [blank EXCEPT ![p] = @ \cup {events + 1}]
          \/ Widths \ {width[p]} # {}
    BY <1>1 DEF User, Streams
  <2>2. Widths \ {width[p]} = {}
    <3>1. IsFiniteSet(Widths)
      BY XwinAssumption DEF Shape, Widths
    <3>2. PICK w : Widths = {w}
      BY <3>1, FS_Singleton DEF OneWidth
    <3> QED BY <3>2 DEF Typed, Windows
  <2>3. PICK e : queue' = Append(queue, e) /\ e \in Plain
                 /\ \/ blank' = blank
                    \/ e = Event(p, "expose", 0, events + 1) /\ blank' = [blank EXCEPT ![p] = @ \cup {events + 1}]
    <3>1. events + 1 \in 0..program.events /\ 0 \in 0..program.events
      BY <1>1, ProgramBounds DEF User, Typed, Counts, Shape
    <3>2. /\ \A type \in {"key", "delete"} : Event(p, type, 0, 0) \in Plain
          /\ Event(p, "expose", 0, events + 1) \in Plain
      BY <3>1 DEF Event, Plain
    <3> QED BY <2>1, <2>2, <3>2
  <2>4. queue' \in Seq(Plain) /\ Has(queue', e) /\ \A x : Has(queue, x) => Has(queue', x)
    BY <1>0, <2>3, AppendHas, AppendProperties
  <2>5. ASSUME Awaited PROVE Awaited'
    BY <1>0, <2>3, <2>4, <2>5 DEF Awaited
  <2>6. UNCHANGED << main, thread >>
    BY <1>1 DEF User
  <2> QED BY <1>0, <2>4, <2>5, <2>6
<1>2. CASE /\ queue' = queue /\ (blank' = blank \/ \E p : blank' = [blank EXCEPT ![p] = {}])
           /\ main'.drop = FALSE /\ \A p \in Streams : thread'[p].pc \notin {"replay", "drop"}
  BY <1>0, <1>2, SameWaits
<1>3. CASE Main /\ ~ HandleEvents /\ ~ WaitForPage
  <2>1. CASE TidyCancel
    BY <1>0, <1>2, <2>1 DEF TidyCancel, Shape, TFields, NewThread, MFields, Idle
  <2>2. CASE Main /\ ~ HandleEvents /\ ~ WaitForPage /\ ~ TidyCancel
    <3>1. queue' = queue /\ thread' = thread
      BY <1>0, <2>2 DEF Main, Draw, Pages, Plsstrm, LineRecord, LineCall, LineLock, LineDraw, ResizeDrop,
           Call, BopClear, BopRecord, Wait, Tidy, Close, Rest
    <3>2. blank' = blank \/ \E p : blank' = [blank EXCEPT ![p] = {}]
      BY <1>0, <2>2 DEF Main, Draw, Pages, Plsstrm, LineRecord, LineCall, LineLock, LineDraw, ResizeDrop,
           Call, BopClear, BopRecord, Wait, Tidy, Close, Rest
    <3>3. main'.drop = FALSE
      <4>1. CASE Plsstrm \/ LineRecord \/ LineDraw \/ BopClear \/ BopRecord \/ Call
        <5>1. main' = main \/ \E pc, line, p : main' = [pc |-> pc, line |-> line, pls |-> p, drop |-> FALSE]
          <6>1. CASE Plsstrm
            BY <6>1 DEF Plsstrm
          <6>2. CASE LineRecord
            BY <6>2 DEF LineRecord, Idle
          <6>3. CASE LineDraw \/ BopClear \/ BopRecord
            BY <6>3 DEF LineDraw, BopClear, BopRecord, Idle
          <6>4. CASE Call
            BY <6>4 DEF Call, Idle
          <6> QED BY <4>1, <6>1, <6>2, <6>3, <6>4
        <5> QED BY <1>0, <5>1
      <4>2. CASE LineCall \/ LineLock \/ Wait \/ Tidy
        <5>1. CASE LineCall
          BY <1>0, <5>1 DEF LineCall, Shape, MFields, Idle
        <5>2. CASE LineLock \/ Wait \/ Tidy
          <6>1. \E pc : main' = [main EXCEPT !.pc = pc]
            BY <5>2 DEF LineLock, Wait, Tidy
          <6> QED BY <1>0, <6>1 DEF Shape, MFields, Idle
        <5> QED BY <4>2, <5>1, <5>2
      <4>3. CASE ResizeDrop
        BY <1>0, <4>3 DEF ResizeDrop
      <4>4. CASE Close
        BY <1>0, <4>4 DEF Close, Shape, MFields, Idle
      <4> QED BY <2>2, <4>1, <4>2, <4>3, <4>4 DEF Main, Draw, Pages
    <3> QED BY <1>0, <1>2, <3>1, <3>2, <3>3
  <2> QED BY <1>3, <2>1, <2>2
<1>4. CASE HandleEvents
  <2>1. main.pls \in Streams /\ thread' = thread
    BY <1>4, HandleCases DEF Shape, Calling, Rest
  <2>2. CASE Own(main.pls) = {}
    <3>1. main' = [main EXCEPT !.pc = "draw"] /\ UNCHANGED << blank, queue >>
      BY <1>4, <2>2 DEF HandleEvents
    <3>2. main'.drop = FALSE
      BY <1>0, <3>1 DEF Shape, MFields, Idle
    <3> QED BY <1>0, <1>2, <2>1, <3>1, <3>2
  <2>3. CASE Own(main.pls) # {}
    <3>1. PICK e \in Plain, q \in Seq(Plain) :
            /\ MasterEH(main.pls, e, q) /\ e.window = main.pls
            /\ \A x : Has(queue, x) /\ x # e => Has(q, x)
      BY <1>0, <1>4, <2>3, HandleTakes
    <3>2. main' = main /\ queue' = q
      BY <3>1, MasterLasting
    <3>3. ASSUME Awaited PROVE Awaited'
      BY <1>0, <2>1, <3>1, <3>3, MasterWaits
    <3> QED BY <1>0, <2>1, <3>2, <3>3
  <2> QED BY <2>2, <2>3
<1>5. CASE WaitForPage
  <2>1. main.pls \in Streams /\ thread' = thread
    BY <1>5, WaitCases DEF Shape, Calling, Rest
  <2>2. CASE UNCHANGED << blank, queue >> /\ main' = Idle
    BY <1>0, <1>2, <2>1, <2>2 DEF Idle
  <2>3. CASE queue # << >> /\ MasterEH(main.pls, Head(queue), Tail(queue))
    <3> DEFINE e == Head(queue)
    <3>1. e \in Plain /\ Tail(queue) \in Seq(Plain) /\ e.window \in Streams
      <4>1. e \in Plain /\ Tail(queue) \in Seq(Plain)
        BY <1>0, <2>3, HeadTailProperties
      <4> QED BY <4>1 DEF Plain
    <3>2. main' = main /\ queue' = Tail(queue)
      BY <2>3, <3>1, MasterLasting
    <3>3. \A x : Has(queue, x) /\ x # e => Has(Tail(queue), x)
      BY <1>0, <2>3, TailHas
    <3>4. ASSUME OwnOnly PROVE e.window = main.pls
      <4>1. Cardinality(Streams) = 1
        BY <1>5, <3>4 DEF OwnOnly, NoPause, WaitForPage, Goes
      <4>2. IsFiniteSet(Streams)
        BY XwinAssumption DEF Shape, Streams
      <4>3. PICK r : Streams = {r}
        BY <4>1, <4>2, FS_Singleton
      <4> QED BY <2>1, <3>1, <4>3
    <3> HIDE DEF e
    <3>5. ASSUME OwnOnly PROVE Awaited'
      <4>1. MasterEH(main.pls, e, Tail(queue))
        BY <2>3 DEF e
      <4> QED BY <1>0, <2>1, <3>1, <3>3, <3>4, <3>5, <4>1, MasterWaits
    <3> QED BY <1>0, <2>1, <3>1, <3>2, <3>5
  <2> QED BY <1>5, <2>2, <2>3 DEF WaitForPage
<1>6. ASSUME NEW p \in Streams, Thread(p)
      PROVE  /\ queue' \in Seq(Plain) /\ main'.drop = FALSE
             /\ \A r \in Streams : thread'[r].pc \notin {"replay", "drop"}
             /\ OwnOnly => Awaited'
  <2>1. main' = main
    BY <1>6 DEF Thread, ThreadStart, ThreadCancelled, ThreadLock, ThreadTake, ThreadExposed,
         ThreadReplay, ThreadReplayed, ThreadDrop, ThreadUnlock, ThreadWake, Aside
  <2>2. CASE ThreadTake(p)
    <3> DEFINE mine == Waiting(p)
               i    == First(mine)
    <3>1. /\ mine # {} /\ mine \subseteq DOMAIN queue /\ queue' = RemoveAt(queue, i)
          /\ \A j \in mine : queue[j].window = p /\ Redisplay(queue[j])
      BY <2>2 DEF ThreadTake, Waiting, Own, Without
    <3> HIDE DEF mine
    <3>2. i \in mine /\ queue[i] \in Plain /\ queue' \in Seq(Plain)
      BY <1>0, <3>1, FirstEvent
    <3> DEFINE e == queue[i]
    <3>3. e.type = "expose" /\ e.window = p
      BY <3>1, <3>2 DEF Redisplay, Plain
    <3>4. blank' = Refreshed(p, e) /\ thread' = [thread EXCEPT ![p].pc = "expose", ![p].oplsc = plsc]
      BY <2>2, <3>3 DEF ThreadTake, mine
    <3>5. \A x : Has(queue, x) /\ x # e => Has(queue', x)
      <4>1. i \in DOMAIN queue
        BY <3>1, <3>2
      <4> HIDE DEF i
      <4> QED BY <1>0, <3>1, <4>1, RemoveHas
    <3> HIDE DEF e, i
    <3>6. ASSUME Awaited PROVE Awaited'
      BY <1>0, <3>3, <3>4, <3>5, <3>6, TakenWaits
    <3>7. \A r \in Streams : thread'[r].pc \notin {"replay", "drop"}
      BY <1>0, <3>4 DEF Shape, TFields, NewThread
    <3> QED BY <1>0, <2>1, <3>2, <3>6, <3>7
  <2>3. CASE ThreadStart(p) \/ ThreadCancelled(p) \/ ThreadLock(p) \/ ThreadExposed(p)
               \/ ThreadUnlock(p) \/ ThreadWake(p)
    <3>1. UNCHANGED << blank, queue >>
      BY <2>3 DEF ThreadStart, ThreadCancelled, ThreadLock, ThreadExposed, ThreadUnlock, ThreadWake
    <3>2. \A r \in Streams : thread'[r].pc \notin {"replay", "drop"}
      <4>1. thread'[p].pc \notin {"replay", "drop"}
        <5>1. CASE ThreadStart(p)
          BY <5>1 DEF ThreadStart, Shape, TFields, NewThread
        <5>2. CASE ThreadExposed(p)
          BY <5>2 DEF ThreadExposed, Held, Shape, NewThread
        <5>3. CASE ThreadCancelled(p) \/ ThreadLock(p) \/ ThreadUnlock(p) \/ ThreadWake(p)
          BY <5>3 DEF ThreadCancelled, ThreadLock, ThreadUnlock, ThreadWake, Now, Shape, TFields, NewThread
        <5> QED BY <2>3, <5>1, <5>2, <5>3
      <4>2. \A r \in Streams \ {p} : thread'[r] = thread[r]
        BY <2>3 DEF ThreadStart, ThreadCancelled, ThreadLock, ThreadExposed, ThreadUnlock, ThreadWake,
             Now, Held, Shape
      <4> QED BY <1>0, <4>1, <4>2
    <3> QED BY <1>0, <2>1, <3>1, <3>2, SameWaits
  <2>4. CASE ThreadReplay(p) \/ ThreadReplayed(p) \/ ThreadDrop(p)
    BY <1>0, <2>4 DEF ThreadReplay, ThreadReplayed, ThreadDrop, At
  <2> QED BY <1>6, <2>2, <2>3, <2>4 DEF Thread
<1>7. CASE UNCHANGED vars
  BY <1>0, <1>2, <1>7 DEF vars
<1> QED BY <1>1, <1>3, <1>4, <1>5, <1>6, <1>7 DEF Next, Streams

\* A window never mixes two sizes.  Without threads the window of an open stream
\* shows what was recorded for it, whatever happened to it in a driver call.  And
\* when nothing is dropped or given to another window, what shows nothing waits
\* for an expose that is still in the queue.
THEOREM ShowsRecordedHolds == Spec => []ShowsRecorded
<1>1. OneSize /\ Alone /\ Waits => ShowsRecorded
  <2>1. ASSUME Alone, ~ program.usepthreads, main.pc \in {"idle", "check", "wait"}, NEW p \in program.streams,
               ~ pls[p].closed
        PROVE  LET page == Page(p, pls[p].width)
                   now  == IF main.pc = "check" THEN {Mark(main.line, pls[p].width)} ELSE {}
               IN  page \ now \subseteq pls[p].canvas /\ pls[p].canvas \subseteq page
    BY <2>1 DEF Alone, Shows, Shown, Pending, Drawing, Streams
  <2> QED BY <2>1 DEF OneSize, ShowsRecorded, Waits, Awaited, OneWidth, OwnOnly, Has, Streams
<1>2. Mutex => Shape
  BY DEF Mutex
<1> QED BY <1>1, <1>2, AloneHolds, TypedInit, TypedStep, WaitsInit, NoPauseStep, WaitsStep, PTL DEF Spec
=============================================================================
