---------------------------- MODULE MCInputQueue ----------------------------
(* InputQueue for TLC: an arrow key that repeats, a mouse button, and keys *)
(* with no release; some chords of them are bound.                         *)
EXTENDS InputQueue, TLC

MCKeys    == {"left", "q"}
MCButtons == {"btn", "arrow"}
MCMouse   == {"btn"}
MCDbl     == [b \in {"btn"} |-> "btn_dbl"]
MCBind    == [c \in {<<"left">>, <<"arrow">>} |-> "seek"]
          @@ [c \in {<<"q">>, <<"arrow", "btn">>} |-> "quit"]
          @@ [c \in {<<"btn">>} |-> "other"]
          @@ [c \in {<<"btn_dbl">>} |-> "prev"]
=============================================================================
