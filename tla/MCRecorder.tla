----------------------------- MODULE MCRecorder -----------------------------
(* Recorder with two seconds of two ticks each, frames of one or two units  *)
(* and a header of one unit, so that three or four frames fill a segment.   *)
EXTENDS Recorder

MCStamps == 0..3

====
