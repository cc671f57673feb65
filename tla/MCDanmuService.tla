--------------------------- MODULE MCDanmuService ---------------------------
(* Model-checking instance of DanmuService: sessions, streamers and the    *)
(* shared None sentinel are model values bound in the .cfg files.          *)
EXTENDS DanmuService, TLC

CONSTANTS s1, s2, x1, x2

MCSessions  == {s1, s2}
MCStreamers == {x1, x2}
OneStreamer == {x1}

SessionSymmetry == Permutations(MCSessions)
====
