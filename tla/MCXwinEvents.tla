---------------------------- MODULE MCXwinEvents ----------------------------
(***************************************************************************)
(* Programs for XwinEvents: one stream with its thread, two without        *)
(* threads, two with theirs; and programs whose windows keep their size.   *)
(***************************************************************************)
EXTENDS XwinEvents

Program(streams, usepthreads, nopause, widths, n, m) ==
  [streams |-> streams, usepthreads |-> usepthreads, nopause |-> nopause, widths |-> widths,
   lines |-> n, events |-> m]

MCPrograms == {
  Program({1},    TRUE,  FALSE, {1, 2}, 2, 3),
  Program({1, 2}, FALSE, FALSE, {1, 2}, 2, 2),
  Program({1, 2}, TRUE,  FALSE, {1, 2}, 1, 2),
  Program({1},    TRUE,  FALSE, {1},    1, 3),
  Program({1, 2}, TRUE,  TRUE,  {1},    1, 2) }
=============================================================================
