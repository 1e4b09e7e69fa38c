---------------------------- MODULE MCAlgorithms ----------------------------
(* Topics and patterns of up to three characters over a letter and the     *)
(* separator '.', and bucket vectors of up to three bounds.                  *)
EXTENDS Algorithms

====
