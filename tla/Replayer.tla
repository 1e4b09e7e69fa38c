------------------------------ MODULE Replayer ------------------------------
(***************************************************************************)
(* Replay sessions of src/replay/replayer.cpp.  Callers of the session API *)
(* (start, pause, resume, seek, stop) run concurrently with one playback   *)
(* thread per session; sessions_mutex_ guards the sessions_ table.          *)
(*                                                                         *)
(* Data abstracted: a segment is the sequence of its frames' timestamps    *)
(* (ticks of 100 ms), read by position; its index has the entries the      *)
(* recorder writes (one for every IndexInterval-th frame, holding that     *)
(* frame's timestamp and position).  Whether the token bucket holds enough *)
(* tokens depends on wall-clock time, so when a frame needs pacing the     *)
(* model lets the check pass or fail, except that a cost above the bucket's *)
(* cap always fails.  Every frame passes the topic check (the control      *)
(* server's default topic list is {"*"}).                                  *)
(***************************************************************************)
EXTENDS Naturals, Sequences, FiniteSets, SequencesExt

CONSTANTS
    Ids,            \* session ids generate_session_id hands out
    Segs,           \* segment files in the data directory
    SegData,        \* SegData[s]: timestamps of segment s's frames, in file order
    IndexInterval,  \* the recorder's index_interval_
    CapTicks,       \* largest gap the 10 000-token cap can pay for
    MaxSessions,    \* MAX_CONCURRENT_SESSIONS
    Stamps,         \* timestamps callers pass as from, to and seek targets
    MaxSeeks,       \* bound: seek calls
    Wrap            \* 2^64 in ticks: uint64_t arithmetic wraps modulo it

None == -1

\* The index of a segment as the recorder writes it (write_frame): after
\* every IndexInterval-th frame, an entry with that frame's timestamp and
\* position.
IndexOf(s) ==
    [k \in 1..(Len(SegData[s]) \div IndexInterval) |->
        [ts |-> SegData[s][k * IndexInterval], pos |-> k * IndexInterval]]

\* seek_to_timestamp: std::lower_bound finds the first entry whose timestamp
\* is not below the target; with none before it the cursor goes just past the
\* header (position 1), else to the entry before it.
SeekPos(s, target) ==
    LET idx == IndexOf(s)
        lb  == IF \E k \in 1..Len(idx) : idx[k].ts >= target
               THEN CHOOSE k \in 1..Len(idx) : idx[k].ts >= target
                                             /\ \A m \in 1..k - 1 : idx[m].ts < target
               ELSE Len(idx) + 1
    IN IF lb = 1 THEN 1 ELSE idx[lb - 1].pos

VARIABLES
    listed,         \* ids in sessions_
    starter,        \* caller of start_session: "idle", "spawned" (thread made, not listed), "done"
    thread,         \* playback thread: "none", "lookup", "top" (loop head),
                    \* "read" (past the running/paused checks), "body" (header
                    \* read, body not yet), "ended" (returned
                    \* at end of data or of the range), "done" (returned otherwise)
    stopper,        \* caller of stop_session: "idle", "joining", "returned"
    running,        \* ReplaySession::running
    paused,         \* ReplaySession::paused
    seg,            \* segment find_files_for_timestamp picked
    from, to,       \* start_ts_ns, end_ts_ns
    pos,            \* the data stream's cursor: position of the next frame
    prev,           \* prev_timestamp_ns (None: no frame paced yet)
    seeks,          \* seek calls so far
    seeked,         \* the session has been seeked
    emitted,        \* frames published, as the positions their header and body came from
    hdr,            \* the frame whose FrameHeader read_next_frame has read
    mid             \* the cursor is just past the header of frame pos

vars == <<listed, starter, thread, stopper, running, paused, seg, from, to, pos, prev, seeks,
          seeked, emitted, hdr, mid>>

-----------------------------------------------------------------------------
(* The session API *)

\* find_files_for_timestamp: the first .mdf the directory iterator yields
\* (in an unspecified order) whose .idx exists; the timestamp is not used.
\* Every segment of the data directory has both files.
FindFiles(ts) == Segs

\* start_session, up to the spawn: validation (from < to), the limit check
\* under sessions_mutex_, find_files_for_timestamp (the first segment the
\* directory listing yields), seek_to_timestamp(from), running = true and the
\* playback thread is created.  The mutex is released between the check and
\* the insertion.
StartSpawn(id, f, t, s) ==
    /\ starter[id] = "idle"
    /\ f < t
    /\ Cardinality(listed) < MaxSessions
    /\ starter' = [starter EXCEPT ![id] = "spawned"]
    /\ thread' = [thread EXCEPT ![id] = "lookup"]
    /\ running' = [running EXCEPT ![id] = TRUE]
    /\ seg' = [seg EXCEPT ![id] = s]
    /\ from' = [from EXCEPT ![id] = f]
    /\ to' = [to EXCEPT ![id] = t]
    /\ pos' = [pos EXCEPT ![id] = SeekPos(s, f)]
    /\ UNCHANGED <<listed, stopper, paused, prev, seeks, seeked, emitted, hdr, mid>>

\* start_session, after the spawn: sessions_[id] = session under the mutex.
StartInsert(id) ==
    /\ starter[id] = "spawned"
    /\ listed' = listed \cup {id}
    /\ starter' = [starter EXCEPT ![id] = "done"]
    /\ UNCHANGED <<thread, stopper, running, paused, seg, from, to, pos, prev, seeks, seeked, emitted, hdr, mid>>

\* pause_session / resume_session: set the flag of a listed session.
SetPaused(id, b) ==
    /\ id \in listed
    /\ paused' = [paused EXCEPT ![id] = b]
    /\ UNCHANGED <<listed, starter, thread, stopper, running, seg, from, to, pos, prev,
                   seeks, seeked, emitted, hdr, mid>>

\* seek_session: for a listed session and a target within [from, to],
\* seek_to_timestamp moves the data cursor.  prev_timestamp_ns, local to the
\* playback thread, is left as it is.
Seek(id, ts) ==
    /\ seeks < MaxSeeks
    /\ id \in listed
    /\ from[id] <= ts /\ ts <= to[id]
    /\ pos' = [pos EXCEPT ![id] = SeekPos(seg[id], ts)]
    /\ seeks' = seeks + 1
    /\ seeked' = [seeked EXCEPT ![id] = TRUE]
    /\ mid' = [mid EXCEPT ![id] = FALSE]
    /\ UNCHANGED <<listed, starter, thread, stopper, running, paused, seg, from, to, prev,
                   emitted, hdr>>

\* stop_session: erase the listed session under the mutex, then running =
\* false; the caller then joins the playback thread.
StopSession(id) ==
    /\ id \in listed
    /\ listed' = listed \ {id}
    /\ running' = [running EXCEPT ![id] = FALSE]
    /\ stopper' = [stopper EXCEPT ![id] = "joining"]
    /\ UNCHANGED <<starter, thread, paused, seg, from, to, pos, prev, seeks, seeked, emitted, hdr, mid>>

\* stop_session returns once playback_thread->join() does.
StopJoin(id) ==
    /\ stopper[id] = "joining"
    /\ thread[id] \in {"none", "ended", "done"}
    /\ stopper' = [stopper EXCEPT ![id] = "returned"]
    /\ UNCHANGED <<listed, starter, thread, running, paused, seg, from, to, pos, prev, seeks,
                   seeked, emitted, hdr, mid>>

-----------------------------------------------------------------------------
(* The playback thread (Replayer::playback_thread) *)

SetThread(id, st) == thread' = [thread EXCEPT ![id] = st]

\* Look the session up in sessions_; return when it is not there.
Lookup(id) ==
    /\ thread[id] = "lookup"
    /\ SetThread(id, IF id \in listed THEN "top" ELSE "done")
    /\ UNCHANGED <<listed, starter, stopper, running, paused, seg, from, to, pos, prev, seeks,
                   seeked, emitted, hdr, mid>>

\* The loop head: leave when running is false; spin while paused.
LoopTop(id) ==
    /\ thread[id] = "top"
    /\ ~(running[id] /\ paused[id])
    /\ SetThread(id, IF running[id] THEN "read" ELSE "done")
    /\ UNCHANGED <<listed, starter, stopper, running, paused, seg, from, to, pos, prev, seeks,
                   seeked, emitted, hdr, mid>>

\* uint64_t original_delay_ns = frame_timestamp_ns - *prev_timestamp_ns.
Delta(ts, pv) == (ts - pv) % Wrap

\* The frame needs pacing: it is not the first and its scaled delay is over
\* 1 ms (a gap of a tick or more).
NeedsPacing(ts, pv) == pv # None /\ Delta(ts, pv) > 0

\* Mutant: the cursor moves on at end of data as well.
ReadHeaderAdvanceAtEnd(id) ==
    /\ thread[id] = "read"
    /\ IF pos[id] > Len(SegData[seg[id]])
       THEN /\ SetThread(id, "ended") /\ UNCHANGED <<hdr, mid>>
            /\ pos' = [pos EXCEPT ![id] = @ + 1]
       ELSE /\ SetThread(id, "body")
            /\ hdr' = [hdr EXCEPT ![id] = pos[id]]
            /\ mid' = [mid EXCEPT ![id] = TRUE]
            /\ UNCHANGED pos
    /\ UNCHANGED <<listed, starter, stopper, running, paused, seg, from, to, prev, seeks,
                   seeked, emitted>>

\* read_next_frame, first read: the FrameHeader at the cursor.  At end of
\* data the read is short and the thread ends; otherwise the cursor stops
\* after the header of frame pos.  The recorder writes whole frames, so a
\* header read at a frame boundary passes the magic and version check.
ReadHeader(id) ==
    /\ thread[id] = "read"
    /\ IF pos[id] > Len(SegData[seg[id]])
       THEN /\ SetThread(id, "ended") /\ UNCHANGED <<hdr, mid>>
       ELSE /\ SetThread(id, "body")
            /\ hdr' = [hdr EXCEPT ![id] = pos[id]]
            /\ mid' = [mid EXCEPT ![id] = TRUE]
    /\ UNCHANGED <<listed, starter, stopper, running, paused, seg, from, to, pos, prev, seeks,
                   seeked, emitted>>

\* read_next_frame's body read and decode_frame.  The body read starts at
\* the cursor: after the header of frame pos, it is that frame's own body,
\* which passes the CRC and the body-length-per-type checks of a frame the
\* recorder wrote whole; after a seek_session between the two reads, it is
\* the bytes of frame pos from its header on, whose CRC32 differs from the
\* header's (a 32-bit collision is not modelled), or a short read at end of
\* data, and decode_frame fails.
DecodeOk(id) == mid[id]

\* consume_tokens: the bucket refills with elapsed time (add_tokens) but never
\* above its cap, so a cost above CapTicks is never paid; below it, whether
\* enough tokens have accrued (paid) is wall-clock timing.
CanPay(ts, pv, paid) == paid /\ Delta(ts, pv) <= CapTicks

\* Mutant: a throttled frame is retried instead of dropped.
PlaybackRetryThrottled(id, paid) ==
    LET d  == SegData[seg[id]]
        p  == pos[id]
        ts == d[p]
        throttled == NeedsPacing(ts, prev[id]) /\ ~CanPay(ts, prev[id], paid)
    IN
    /\ thread[id] = "body"
    /\ mid' = [mid EXCEPT ![id] = FALSE]
    /\ IF ~DecodeOk(id) \/ ts > to[id]
       THEN /\ SetThread(id, "ended")
            /\ UNCHANGED <<pos, prev, emitted>>
       ELSE /\ SetThread(id, "top")
            /\ IF throttled
               THEN UNCHANGED <<pos, prev, emitted>>
               ELSE /\ pos' = [pos EXCEPT ![id] = p + 1]
                    /\ prev' = [prev EXCEPT ![id] = ts]
                    /\ emitted' = [emitted EXCEPT ![id] = Append(@, [hdr |-> hdr[id], body |-> p])]
    /\ UNCHANGED <<listed, starter, stopper, running, paused, seg, from, to, seeks, seeked, hdr>>

\* The rest of the loop body, from the body read to the publish: a frame
\* that does not decode, or one past end_ts_ns (its timestamp is the body's),
\* ends the thread; a frame that needs pacing and finds too few tokens is
\* dropped by `continue` (the next pass reads the frame after it); any other
\* frame updates prev_timestamp_ns and is published.  `paid` is whether
\* consume_tokens finds enough tokens.
Playback(id, paid) ==
    LET d  == SegData[seg[id]]
        p  == pos[id]
        ts == d[p]
    IN
    /\ thread[id] = "body"
    /\ mid' = [mid EXCEPT ![id] = FALSE]
    /\ IF ~DecodeOk(id) \/ ts > to[id]
       THEN /\ SetThread(id, "ended")
            /\ UNCHANGED <<pos, prev, emitted>>
       ELSE /\ SetThread(id, "top")
            /\ pos' = [pos EXCEPT ![id] = p + 1]
            /\ IF NeedsPacing(ts, prev[id]) /\ ~CanPay(ts, prev[id], paid)
               THEN UNCHANGED <<prev, emitted>>
               ELSE /\ prev' = [prev EXCEPT ![id] = ts]
                    /\ emitted' = [emitted EXCEPT ![id] = Append(@, [hdr |-> hdr[id], body |-> p])]
    /\ UNCHANGED <<listed, starter, stopper, running, paused, seg, from, to, seeks, seeked, hdr>>

-----------------------------------------------------------------------------

Init ==
    /\ listed = {}
    /\ starter = [id \in Ids |-> "idle"]
    /\ thread = [id \in Ids |-> "none"]
    /\ stopper = [id \in Ids |-> "idle"]
    /\ running = [id \in Ids |-> FALSE]
    /\ paused = [id \in Ids |-> FALSE]
    /\ seg = [id \in Ids |-> CHOOSE s \in Segs : TRUE]
    /\ from = [id \in Ids |-> 0]
    /\ to = [id \in Ids |-> 0]
    /\ pos = [id \in Ids |-> 1]
    /\ prev = [id \in Ids |-> None]
    /\ seeks = 0
    /\ seeked = [id \in Ids |-> FALSE]
    /\ emitted = [id \in Ids |-> <<>>]
    /\ hdr = [id \in Ids |-> None]
    /\ mid = [id \in Ids |-> FALSE]

Next ==
    \E id \in Ids :
        \/ \E f, t \in Stamps : \E s \in FindFiles(f) : StartSpawn(id, f, t, s)
        \/ StartInsert(id)
        \/ \E b \in BOOLEAN : SetPaused(id, b)
        \/ \E ts \in Stamps : Seek(id, ts)
        \/ StopSession(id)
        \/ StopJoin(id)
        \/ Lookup(id)
        \/ LoopTop(id)
        \/ ReadHeader(id)
        \/ \E paid \in BOOLEAN : Playback(id, paid)

\* The playback threads and a caller inside start_session or stop_session
\* keep running; callers issue further calls only if they choose to.
Fairness ==
    \A id \in Ids :
        /\ WF_vars(StartInsert(id))
        /\ WF_vars(StopJoin(id))
        /\ WF_vars(Lookup(id))
        /\ WF_vars(LoopTop(id))
        /\ WF_vars(ReadHeader(id))
        /\ WF_vars(\E paid \in BOOLEAN : Playback(id, paid))

Spec == Init /\ [][Next]_vars /\ Fairness

-----------------------------------------------------------------------------
(* Properties *)

TypeOK ==
    /\ listed \subseteq Ids
    /\ starter \in [Ids -> {"idle", "spawned", "done"}]
    /\ thread \in [Ids -> {"none", "lookup", "top", "read", "body", "ended", "done"}]
    /\ stopper \in [Ids -> {"idle", "joining", "returned"}]
    /\ running \in [Ids -> BOOLEAN]
    /\ paused \in [Ids -> BOOLEAN]
    /\ seg \in [Ids -> Segs]
    /\ from \in [Ids -> Stamps \cup {0}] /\ to \in [Ids -> Stamps \cup {0}]
    /\ \A id \in Ids : pos[id] \in 1..Len(SegData[seg[id]]) + 1
    /\ prev \in [Ids -> Nat \cup {None}]
    /\ seeks \in 0..MaxSeeks
    /\ seeked \in [Ids -> BOOLEAN]
    /\ emitted \in [Ids -> Seq([hdr : Nat, body : Nat])]
    /\ hdr \in [Ids -> Nat \cup {None}]
    /\ mid \in [Ids -> BOOLEAN]

\* A playback thread that has been started finishes, unless its session is
\* paused: every frame read advances the cursor, whether it is published or
\* dropped by the token check, so neither a gap the token cap cannot pay for
\* nor a seek backwards (whose delta wraps around) holds the thread up.
PlaybackTerminates ==
    \A id \in Ids :
        (thread[id] \in {"lookup", "top", "read", "body"}) ~> (thread[id] \in {"ended", "done"} \/ paused[id])

-----------------------------------------------------------------------------
(* Properties the code is expected to have and does not *)

\* Every session in sessions_ has a playback thread that has not finished
\* (spec 3: a session is destroyed when playback completes).  The thread looks
\* its session up before start_session has inserted it, and a thread that
\* reaches the end of its range leaves its session listed; such sessions
\* count against MAX_CONCURRENT_SESSIONS for ever.
ListedSessionPlays ==
    \A id \in listed : thread[id] \notin {"ended", "done"}

\* A session that played to the end of its range or of its segment, without
\* seek or stop, published exactly
\* the frames of the range [from, to], in file order (spec 7, scenario 3).
\* Playback starts at an index entry before `from` without skipping what
\* precedes it, drops frames the token check refuses, and plays whichever
\* segment the directory listing yields first.
ReplaysExactlyRange ==
    \A id \in Ids :
        thread[id] = "ended" /\ stopper[id] = "idle" /\ ~seeked[id] =>
            LET d == SegData[seg[id]] IN
            /\ \A k \in 1..Len(d) : (from[id] <= d[k] /\ d[k] <= to[id]) =>
                                        \E j \in 1..Len(emitted[id]) : emitted[id][j].body = k
            /\ \A j \in 1..Len(emitted[id]) :
                  from[id] <= d[emitted[id][j].body] /\ d[emitted[id][j].body] <= to[id]

====
