---------------------------- MODULE MCPlotReplay ----------------------------
(***************************************************************************)
(* The programs of PlotReplay's runs.                                      *)
(***************************************************************************)
EXTENDS PlotReplay

Program(streams, widthlock, calls, items) ==
  [streams |-> streams, widthlock |-> widthlock, calls |-> calls, items |-> items]

\* Each is small in its own direction: colours and their maps; widths, fonts
\* and sizes on two subpages; a longer page of lines, clears and subpages; two
\* streams, with the calls a replay does not follow faithfully; two streams, the
\* width of one of them locked.
MCPrograms == {
  Program({1}, {}, {"plcol", "plscol", "line", "pladv"}, 5),
  Program({1}, {}, {"plwidth", "plschr", "plssym", "plsfci", "line", "text", "symbol", "clear",
                "plbop", "pleop", "pladv"}, 5),
  Program({1}, {}, {"line", "clear", "pladv"}, 8),
  Program({1, 2}, {}, {"plscmap0", "plsdiori", "line", "plbop", "pleop", "pladv"}, 3),
  Program({1, 2}, {1}, {"plwidth", "line", "pladv"}, 3) }
=============================================================================
