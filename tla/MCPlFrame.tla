----------------------------- MODULE MCPlFrame ------------------------------
(* Worlds for PlFrame.                                                     *)
EXTENDS PlFrame

MCWorlds == {{"redraw", "configure", "unmap"}, {"unmap", "destroy"}, {"link", "destroy"},
             {"xhairs", "unmap"}, {"xhairs", "configure"}, {"rband", "redraw"},
             {"xhairs", "rband", "configure"}}
\* A widget that is destroyed at any time.
MCEnds == {{"unmap", "destroy"}}
=============================================================================
