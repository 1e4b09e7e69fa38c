----------------------------- MODULE MCReplayer -----------------------------
(* Two sessions over two segments of four frames each, the second a later  *)
(* stretch with a gap wider than the token cap pays for.                   *)
EXTENDS Replayer

MCSegData == [s \in {"seg1", "seg2"} |->
                 IF s = "seg1" THEN <<1, 1, 2, 3>> ELSE <<4, 5, 9, 9>>]

====
