----------------------------- MODULE MCPipeline -----------------------------
(* Two normalizer workers and two symbols, so that both workers can miss    *)
(* the same new symbol at once.                                              *)
EXTENDS Pipeline

====
