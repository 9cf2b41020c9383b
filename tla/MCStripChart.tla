---------------------------- MODULE MCStripChart ----------------------------
(* Charts for StripChart: one that slides and one that accumulates.        *)
EXTENDS StripChart

Kind(acc, y_ascl, xlen, xjump) == [acc |-> acc, y_ascl |-> y_ascl, xlen |-> xlen, xjump |-> xjump]

MCKinds == {Kind(FALSE, TRUE, 4, 50), Kind(FALSE, FALSE, 4, 25), Kind(TRUE, TRUE, 4, 50)}
MCYs    == {5, 20, -5}
=============================================================================
