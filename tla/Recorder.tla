------------------------------ MODULE Recorder ------------------------------
(***************************************************************************)
(* The segment recorder of src/recorder/recorder.cpp.  The distribution    *)
(* thread enqueues every frame on the recorder queue (main_core.cpp); the   *)
(* recording thread takes them in order and, per frame, rolls the segment   *)
(* if needed (roll_file_if_needed) and appends it (write_frame), adding an  *)
(* index entry every IndexInterval frames and rewriting the header every    *)
(* HeaderEvery frames.  stop() closes the segment; the process may then be  *)
(* started again over the same data directory.                              *)
(*                                                                         *)
(* Data abstracted: a frame is its number, its timestamp (a tick of a       *)
(* clock with TicksPerSec ticks a second) and its encoded size in units;    *)
(* a segment file is named by the second of the timestamp it was opened    *)
(* with (generate_filename formats whole seconds).  The file system maps a  *)
(* name to the content of the .mdf and .idx pair last created under it.    *)
(***************************************************************************)
EXTENDS Naturals, Sequences, SequencesExt

CONSTANTS
    Stamps,         \* frame timestamps (ticks)
    TicksPerSec,    \* ticks per second: generate_filename drops the rest
    Sizes,          \* encoded frame sizes (units)
    HeaderBytes,    \* sizeof(MdfHeader)
    RollBytes,      \* roll_bytes_
    IndexInterval,  \* index_interval_
    HeaderEvery,    \* update_mdf_header every 1000 frames
    MaxFrames       \* bound: frames the distribution thread enqueues

ASSUME /\ Stamps \subseteq Nat /\ Sizes \subseteq Nat \ {0}
       /\ TicksPerSec \in Nat \ {0}
       /\ {HeaderBytes, RollBytes, IndexInterval, HeaderEvery} \subseteq Nat \ {0}

Second(ts) == ts \div TicksPerSec
Names == {Second(ts) : ts \in Stamps}

Frame == [id : 1..MaxFrames, ts : Stamps, sz : Sizes]
IndexEntry == [ts : Stamps, off : Nat]
Segment == [data : Seq(Frame), idx : Seq(IndexEntry), hdrCount : Nat,
            closed : BOOLEAN, failed : BOOLEAN]

NewSegment == [data |-> <<>>, idx |-> <<>>, hdrCount |-> 0,
               closed |-> FALSE, failed |-> FALSE]

VARIABLES
    inQ,            \* normalizer_to_recorder_ (one producer: FIFO)
    produced,       \* frames enqueued so far
    lastTs,         \* timestamp of the last frame enqueued
    running,        \* Recorder::running_
    open,           \* mdf_file_ && idx_file_ hold open streams
    cur,            \* name of the open segment
    curBytes,       \* current_file_bytes_
    frameCount,     \* current_frame_count_
    sinceIdx,       \* frames_since_last_index_
    files,          \* the data directory: name -> segment (absent: not created)
    written         \* frames write_frame appended successfully

vars == <<inQ, produced, lastTs, running, open, cur, curBytes, frameCount, sinceIdx,
          files, written>>

-----------------------------------------------------------------------------
(* File layout *)

\* Byte offset of the j-th frame of a data file: the header, then the frames.
FrameOffset(data, j) ==
    FoldLeft(LAMBDA acc, f : acc + f.sz, HeaderBytes, SubSeq(data, 1, j - 1))

SegmentBytes(seg) == FrameOffset(seg.data, Len(seg.data) + 1)

\* close_current_files: the final update_mdf_header (a no-op on a stream in
\* the fail state), then both streams are closed.
Closed(seg) == [seg EXCEPT !.hdrCount = IF seg.failed THEN @ ELSE frameCount,
                           !.closed = TRUE]

CloseCurrent == IF open THEN [files EXCEPT ![cur] = Closed(@)] ELSE files

\* Mutant: only the first frame opens a segment; size never rolls it.
ShouldRollFirstOnly == ~open

\* roll_file_if_needed: roll when no segment is open or the byte count has
\* reached roll_bytes_ (checked before the frame is appended).
ShouldRoll == ~open \/ curBytes >= RollBytes

\* The counters write_frame starts from: open_new_files sets
\* current_file_bytes_ to the header size and zeroes the frame count and the
\* frames since the last index entry.
StartBytes == IF ShouldRoll THEN HeaderBytes ELSE curBytes
\* Mutant: the frame count is not reset on a roll.
StartCountNoReset == frameCount

StartCount == IF ShouldRoll THEN 0 ELSE frameCount
StartSinceIdx == IF ShouldRoll THEN 0 ELSE sinceIdx

\* Mutant: the index entry records the offset after the frame.
AppendedOffsetAfter(seg, f, b, cnt, si) ==
    [seg EXCEPT !.data = Append(@, f),
                !.idx = IF si + 1 >= IndexInterval
                        THEN Append(@, [ts |-> f.ts, off |-> b + f.sz]) ELSE @,
                !.hdrCount = IF (cnt + 1) % HeaderEvery = 0 THEN cnt + 1 ELSE @]

\* write_frame(f) on segment seg, whose counters before the frame are
\* bytes b, count cnt and frames-since-index si: append the encoded frame,
\* add an index entry holding the offset before it once si + 1 reaches
\* index_interval_, rewrite the header every HeaderEvery frames.
Appended(seg, f, b, cnt, si) ==
    [seg EXCEPT !.data = Append(@, f),
                !.idx = IF si + 1 >= IndexInterval
                        THEN Append(@, [ts |-> f.ts, off |-> b]) ELSE @,
                !.hdrCount = IF (cnt + 1) % HeaderEvery = 0 THEN cnt + 1 ELSE @]

-----------------------------------------------------------------------------
(* Threads *)

\* The distribution thread: normalizer_to_recorder_->enqueue(frame).  Frame
\* timestamps do not go backwards.
Enqueue(ts, sz) ==
    /\ produced < MaxFrames
    /\ ts >= lastTs
    /\ inQ' = Append(inQ, [id |-> produced + 1, ts |-> ts, sz |-> sz])
    /\ produced' = produced + 1
    /\ lastTs' = ts
    /\ UNCHANGED <<running, open, cur, curBytes, frameCount, sinceIdx, files, written>>

\* One pass of the recording thread's batch loop for the frame f at the head
\* of the queue: roll_file_if_needed(f.ts) (close the open segment, create
\* the new pair of files and reset the counters), then write_frame(f).  The
\* append either succeeds (ok) or fails and leaves the stream in the fail
\* state; write_frame on a failed stream returns before counting anything.
RecordFrame(ok) ==
    LET f   == Head(inQ)
        rol == ShouldRoll
        n   == IF rol THEN Second(f.ts) ELSE cur
        fs  == IF rol THEN (n :> NewSegment) @@ CloseCurrent ELSE files
        b   == StartBytes
        cnt == StartCount
        si  == StartSinceIdx
    IN
    /\ running
    /\ inQ # <<>>
    /\ inQ' = Tail(inQ)
    /\ open' = TRUE
    /\ cur' = n
    /\ IF fs[n].failed \/ ~ok
       THEN /\ files' = [fs EXCEPT ![n].failed = TRUE]
            /\ curBytes' = b /\ frameCount' = cnt /\ sinceIdx' = si
            /\ UNCHANGED written
       ELSE /\ files' = [fs EXCEPT ![n] = Appended(@, f, b, cnt, si)]
            /\ curBytes' = b + f.sz
            /\ frameCount' = cnt + 1
            /\ sinceIdx' = IF si + 1 >= IndexInterval THEN 0 ELSE si + 1
            /\ written' = written \cup {f.id}
    /\ UNCHANGED <<produced, lastTs, running>>

\* Recorder::stop(): running_ goes false, the thread is joined (frames still
\* queued stay there), and close_current_files() runs.
Stop ==
    /\ running
    /\ running' = FALSE
    /\ files' = CloseCurrent
    /\ open' = FALSE
    /\ UNCHANGED <<inQ, produced, lastTs, cur, curBytes, frameCount, sinceIdx, written>>

\* The process exits after stop() and a new one starts over the same data
\* directory: the queue and the recorder's counters are new, the files stay.
Restart ==
    /\ ~running
    /\ running' = TRUE
    /\ inQ' = <<>>
    /\ curBytes' = 0 /\ frameCount' = 0 /\ sinceIdx' = 0
    /\ UNCHANGED <<produced, lastTs, open, cur, files, written>>

Init ==
    /\ inQ = <<>>
    /\ produced = 0
    /\ lastTs = CHOOSE ts \in Stamps : \A t \in Stamps : ts <= t
    /\ running = TRUE
    /\ open = FALSE
    /\ cur = CHOOSE nm \in Names : TRUE
    /\ curBytes = 0 /\ frameCount = 0 /\ sinceIdx = 0
    /\ files = <<>>
    /\ written = {}

Next ==
    \/ \E ts \in Stamps, sz \in Sizes : Enqueue(ts, sz)
    \/ \E ok \in BOOLEAN : RecordFrame(ok)
    \/ Stop
    \/ Restart

Fairness == WF_vars(\E ok \in BOOLEAN : RecordFrame(ok))

Spec == Init /\ [][Next]_vars /\ Fairness

-----------------------------------------------------------------------------
(* Properties *)

TypeOK ==
    /\ inQ \in Seq(Frame)
    /\ produced \in 0..MaxFrames
    /\ lastTs \in Stamps
    /\ running \in BOOLEAN
    /\ open \in BOOLEAN
    /\ cur \in Names
    /\ curBytes \in 0..(RollBytes - 1 + Max(Sizes)) /\ frameCount \in Nat /\ sinceIdx \in 0..IndexInterval
    /\ DOMAIN files \subseteq Names
    /\ \A nm \in DOMAIN files : files[nm] \in Segment
    /\ written \subseteq 1..MaxFrames

\* Every index entry of every segment names a frame of its data file: the
\* entry's offset is where a frame starts and the entry's timestamp is that
\* frame's, and entries go forward through the file.  The replayer's seek
\* (seek_to_timestamp) positions the data stream at such an offset and
\* decodes from there.  It depends on the byte counter and the index counter
\* being reset together on every roll, and on the offset being taken before
\* the frame.
IndexPointsAtFrames ==
    \A nm \in DOMAIN files :
        LET seg == files[nm] IN
        /\ \A k \in 1..Len(seg.idx) :
              \E j \in 1..Len(seg.data) :
                  /\ FrameOffset(seg.data, j) = seg.idx[k].off
                  /\ seg.data[j].ts = seg.idx[k].ts
        /\ \A k \in 1..Len(seg.idx) - 1 : seg.idx[k].off < seg.idx[k + 1].off

\* A segment closed without a write failure carries, in its header, the
\* number of frames its data file holds (close_current_files rewrites the
\* header with current_frame_count_).
HeaderCountOnClose ==
    \A nm \in DOMAIN files :
        files[nm].closed /\ ~files[nm].failed => files[nm].hdrCount = Len(files[nm].data)

-----------------------------------------------------------------------------
(* Properties the code is expected to have and does not *)

\* Every frame write_frame appended is still in the data directory: segment
\* names are unique (spec 4.6: "name collisions are disallowed").  A segment
\* is named by the second of its first frame, and opening a name that exists
\* truncates it.
WrittenFramesKept ==
    \A i \in written : \E nm \in DOMAIN files : \E j \in 1..Len(files[nm].data) :
        files[nm].data[j].id = i

====
