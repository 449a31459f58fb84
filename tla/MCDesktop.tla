------------------------------ MODULE MCDesktop ------------------------------
(* Two dialogs and every crash with one restart at a time; one dialog, two *)
(* restarts at once and a check that the cache answers; and, without the   *)
(* menu, four checks over two and a half hours with every outcome.         *)
EXTENDS Desktop, TLC
CONSTANTS d1, d2
MCDialog == {d1, d2}
MCSymmetry == Permutations(MCDialog)
MCRelease == {<<>>, <<1>>, <<1, 1>>}
MCCurrent == <<1, 0>>
MCFiles == {{}} \cup {{c} : c \in Config}
MCFewFiles == {{}, {[proxy |-> "default", updates |-> FALSE]}}
Menu(dialogs, restarts, runs) ==
    [menu |-> TRUE, dialogs |-> dialogs, restarts |-> restarts, files |-> MCFiles,
     check |-> runs, time |-> 1, cached |-> TRUE, shown |-> {<<1, 1>>}]
NoMenu ==
    [menu |-> FALSE, dialogs |-> 0, restarts |-> 0, files |-> MCFewFiles,
     check |-> TRUE, time |-> 5, cached |-> FALSE, shown |-> MCRelease]
MCScope == {Menu(2, 1, FALSE), Menu(1, 2, TRUE), NoMenu}
=============================================================================
