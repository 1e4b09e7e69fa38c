------------------------------ MODULE Pipeline ------------------------------
(***************************************************************************)
(* The live path of src/main_core.cpp: the mock feed thread enqueues raw    *)
(* events, normalizer worker threads (src/normalize/normalizer.cpp) turn    *)
(* them into frames, resolving the symbol through SymbolRegistry::get_or_add *)
(* (src/common/symbol_registry.cpp), and the distribution thread created by *)
(* MarketDataCore's constructor hands each frame to the publisher and the   *)
(* recorder queue.  MarketDataCore::start() starts the components and then *)
(* sets running_; stop() stops them and clears it.                          *)
(*                                                                         *)
(* Data abstracted: an event is its type, its symbol and its per-symbol     *)
(* sequence number; a frame adds the symbol id.  The queues out of the workers are   *)
(* one moodycamel queue, FIFO per producing worker.                         *)
(***************************************************************************)
EXTENDS Naturals, Sequences, FiniteSets, SequencesExt

CONSTANTS
    Symbols,        \* symbols the feed generates events for
    Workers,        \* normalizer worker threads
    MaxEvents       \* bound: events the feed generates

\* RawEvent::Type.
EventTypes == {"L1", "L2", "Trade"}

Event == [type : EventTypes, sym : Symbols, seq : Nat]
Frame == [type : EventTypes, sym : Symbols, seq : Nat, sid : Nat]

VARIABLES
    core,           \* MarketDataCore: "built" (constructed), "started", "stopping"
                    \* (inside stop(), joining the workers), "stopped"
    coreRunning,    \* MarketDataCore::running_
    dist,           \* distribution thread: "loop" (at its loop head), "exited"
    feedRunning,    \* MockFeed::running_
    normRunning,    \* Normalizer::running_
    feedQ,          \* feed_to_normalizer_ (one producer: FIFO)
    nextSeq,        \* the feed's per-symbol sequence counters
    produced,       \* events generated so far
    wk,             \* worker w: [st |-> "idle" | "miss", ev |-> event in hand]
    registry,       \* symbol_to_id_ (a function on the symbols added so far)
    nextId,         \* SymbolRegistry::next_id_
    normQ,          \* normalizer_to_publisher_ : worker -> FIFO of frames
    distributed     \* frames the distribution thread published and enqueued to the recorder

vars == <<core, coreRunning, dist, feedRunning, normRunning, feedQ, nextSeq, produced, wk,
          registry, nextId, normQ, distributed>>

NoEvent == [type |-> "L1", sym |-> CHOOSE s \in Symbols : TRUE, seq |-> 0]

-----------------------------------------------------------------------------
(* MarketDataCore *)

\* Normalizer::start / MockFeed::start: running_ set, the threads created.
NormalizerStart == normRunning' = TRUE
FeedStart == feedRunning' = TRUE

\* MockFeed::stop: running_ cleared and the feed thread joined (a FeedEmit
\* step is never cut in half).
FeedStop == feedRunning' = FALSE

\* Normalizer::stop: running_ cleared; the joins follow (CoreStopped).
NormalizerStop == normRunning' = FALSE

\* start(): normalizer, publisher, recorder, control server and feed are
\* started, and running_ is set last.
CoreStart ==
    /\ core = "built"
    /\ core' = "started"
    /\ NormalizerStart
    /\ FeedStart
    /\ coreRunning' = TRUE
    /\ UNCHANGED <<dist, feedQ, nextSeq, produced, wk, registry, nextId, normQ, distributed>>

\* request_shutdown() wakes run(), which returns into stop(): the feed, ...,
\* the normalizer are stopped.
CoreStop ==
    /\ core = "started"
    /\ core' = "stopping"
    /\ FeedStop
    /\ NormalizerStop
    /\ UNCHANGED <<coreRunning, dist, feedQ, nextSeq, produced, wk, registry, nextId, normQ,
                   distributed>>

\* Normalizer::stop joins each worker, which first finishes the event in its
\* hand; then stop() clears running_.
CoreStopped ==
    /\ core = "stopping"
    /\ \A w \in Workers : wk[w].st = "idle"
    /\ core' = "stopped"
    /\ coreRunning' = FALSE
    /\ UNCHANGED <<dist, feedRunning, normRunning, feedQ, nextSeq, produced, wk, registry, nextId,
                   normQ, distributed>>

-----------------------------------------------------------------------------
(* The distribution thread: while (running_ && !stop_requested) take frames *)
(* from normalizer_to_publisher_, publish each and enqueue it for the       *)
(* recorder.                                                                *)

DistExit ==
    /\ dist = "loop"
    /\ ~coreRunning
    /\ dist' = "exited"
    /\ UNCHANGED <<core, coreRunning, feedRunning, normRunning, feedQ, nextSeq, produced, wk,
                   registry, nextId, normQ, distributed>>

DistForward(w) ==
    /\ dist = "loop"
    /\ coreRunning
    /\ normQ[w] # <<>>
    /\ distributed' = Append(distributed, Head(normQ[w]))
    /\ normQ' = [normQ EXCEPT ![w] = Tail(@)]
    /\ UNCHANGED <<core, coreRunning, dist, feedRunning, normRunning, feedQ, nextSeq, produced,
                   wk, registry, nextId>>

-----------------------------------------------------------------------------
(* The feed thread (MockFeed::run_loop): one event of type t for symbol s.  *)
(* generate_l1_event, generate_l2_event and generate_trade_event all number *)
(* it with the symbol's one sequence counter (state.sequence++) and enqueue *)
(* it; the prices, sizes, levels and sides they draw are data.              *)

\* Mutant: generate_trade_event numbers its event without the increment.
FeedEmitTradeNoIncrement(s, t) ==
    /\ feedRunning
    /\ produced < MaxEvents
    /\ feedQ' = Append(feedQ, [type |-> t, sym |-> s, seq |-> nextSeq[s]])
    /\ nextSeq' = IF t = "Trade" THEN nextSeq ELSE [nextSeq EXCEPT ![s] = @ + 1]
    /\ produced' = produced + 1
    /\ UNCHANGED <<core, coreRunning, dist, feedRunning, normRunning, wk, registry, nextId,
                   normQ, distributed>>

FeedEmit(s, t) ==
    /\ feedRunning
    /\ produced < MaxEvents
    /\ feedQ' = Append(feedQ, [type |-> t, sym |-> s, seq |-> nextSeq[s]])
    /\ nextSeq' = [nextSeq EXCEPT ![s] = @ + 1]
    /\ produced' = produced + 1
    /\ UNCHANGED <<core, coreRunning, dist, feedRunning, normRunning, wk, registry, nextId,
                   normQ, distributed>>

-----------------------------------------------------------------------------
(* A normalizer worker: dequeue an event, normalize_event (get_or_add,      *)
(* then the body), enqueue the frame.                                       *)

\* normalize_event's frame for event e with symbol id i, enqueued by w.
EmitFrame(w, e, i) ==
    /\ normQ' = [normQ EXCEPT ![w] = Append(@, [type |-> e.type, sym |-> e.sym, seq |-> e.seq, sid |-> i])]
    /\ wk' = [wk EXCEPT ![w] = [st |-> "idle", ev |-> NoEvent]]

\* Dequeue, then get_or_add's first half under the shared lock: a symbol
\* already registered yields its id and the frame goes out.
WorkerTake(w) ==
    /\ normRunning
    /\ wk[w].st = "idle"
    /\ feedQ # <<>>
    /\ feedQ' = Tail(feedQ)
    /\ LET e == Head(feedQ) IN
       IF e.sym \in DOMAIN registry
       THEN EmitFrame(w, e, registry[e.sym])
       ELSE /\ wk' = [wk EXCEPT ![w] = [st |-> "miss", ev |-> e]]
            /\ UNCHANGED normQ
    /\ UNCHANGED <<core, coreRunning, dist, feedRunning, normRunning, nextSeq, produced,
                   registry, nextId, distributed>>

\* Mutant: the second look under the unique lock is left out.
WorkerRegisterNoRecheck(w) ==
    LET e == wk[w].ev IN
    /\ wk[w].st = "miss"
    /\ registry' = (e.sym :> nextId) @@ registry
    /\ nextId' = nextId + 1
    /\ EmitFrame(w, e, nextId)
    /\ UNCHANGED <<core, coreRunning, dist, feedRunning, normRunning, feedQ, nextSeq, produced,
                   distributed>>

\* Mutant: the id taken is next_id_ after the increment.
WorkerRegisterPreIncrement(w) ==
    LET e == wk[w].ev IN
    /\ wk[w].st = "miss"
    /\ IF e.sym \in DOMAIN registry
       THEN /\ EmitFrame(w, e, registry[e.sym])
            /\ UNCHANGED <<registry, nextId>>
       ELSE /\ registry' = (e.sym :> nextId + 1) @@ registry
            /\ nextId' = nextId + 1
            /\ EmitFrame(w, e, nextId + 1)
    /\ UNCHANGED <<core, coreRunning, dist, feedRunning, normRunning, feedQ, nextSeq, produced,
                   distributed>>

\* get_or_add's second half under the unique lock: look again, else take
\* next_id_ and register the symbol; the frame then goes out.
WorkerRegister(w) ==
    LET e == wk[w].ev IN
    /\ wk[w].st = "miss"
    /\ IF e.sym \in DOMAIN registry
       THEN /\ EmitFrame(w, e, registry[e.sym])
            /\ UNCHANGED <<registry, nextId>>
       ELSE /\ registry' = (e.sym :> nextId) @@ registry
            /\ nextId' = nextId + 1
            /\ EmitFrame(w, e, nextId)
    /\ UNCHANGED <<core, coreRunning, dist, feedRunning, normRunning, feedQ, nextSeq, produced,
                   distributed>>

-----------------------------------------------------------------------------

\* The constructor (setup_components) has created the queues, the registry
\* (id 0 reserved, next_id_ 1), the feed (every SymbolState's sequence at 1)
\* and the distribution thread.
Init ==
    /\ core = "built"
    /\ coreRunning = FALSE
    /\ dist = "loop"
    /\ feedRunning = FALSE
    /\ normRunning = FALSE
    /\ feedQ = <<>>
    /\ nextSeq = [s \in Symbols |-> 1]
    /\ produced = 0
    /\ wk = [w \in Workers |-> [st |-> "idle", ev |-> NoEvent]]
    /\ registry = <<>>
    /\ nextId = 1
    /\ normQ = [w \in Workers |-> <<>>]
    /\ distributed = <<>>

Next ==
    \/ CoreStart
    \/ CoreStop
    \/ CoreStopped
    \/ DistExit
    \/ \E w \in Workers : DistForward(w)
    \/ \E s \in Symbols, t \in EventTypes : FeedEmit(s, t)
    \/ \E w \in Workers : WorkerTake(w) \/ WorkerRegister(w)

\* Every thread keeps running; main() calls start(), and stop() once begun
\* runs to its end.  Nothing forces a shutdown signal.
Fairness ==
    /\ WF_vars(CoreStart)
    /\ WF_vars(CoreStopped)
    /\ WF_vars(DistExit)
    /\ \A w \in Workers : SF_vars(DistForward(w)) /\ WF_vars(WorkerTake(w))
                          /\ WF_vars(WorkerRegister(w))

Spec == Init /\ [][Next]_vars /\ Fairness

-----------------------------------------------------------------------------
(* Properties *)

\* Frames anywhere downstream of the workers.
Frames == UNION {Range(normQ[w]) : w \in Workers} \cup Range(distributed)

TypeOK ==
    /\ core \in {"built", "started", "stopping", "stopped"}
    /\ coreRunning \in BOOLEAN /\ feedRunning \in BOOLEAN /\ normRunning \in BOOLEAN
    /\ dist \in {"loop", "exited"}
    /\ feedQ \in Seq(Event)
    /\ nextSeq \in [Symbols -> 1..MaxEvents + 1]
    /\ produced \in 0..MaxEvents
    /\ wk \in [Workers -> [st : {"idle", "miss"}, ev : Event]]
    /\ DOMAIN registry \subseteq Symbols
    /\ nextId \in 1..(Cardinality(Symbols) + 1)
    /\ normQ \in [Workers -> Seq(Frame)]
    /\ distributed \in Seq(Frame)

\* The registry as the abstract table of SymbolTable: what get_or_add
\* returned to a worker is the (symbol, id) of a frame it emitted.
Registry == INSTANCE SymbolTable WITH
    ids    <- registry,
    issued <- {<<f.sym, f.sid>> : f \in Frames}

\* The registry and the workers together implement SymbolTable: each
\* get_or_add returns the id the symbol already has, or gives a new symbol
\* the next id in order of first sight, and never changes a symbol's id.
\* Two workers may miss the same new symbol under the shared lock at once;
\* the second look under the unique lock keeps them from registering it
\* twice, and fetch_add's old value is the id recorded and returned.
RegistryRefinement == Registry!Spec

\* The places an event or its frame can be, each a set of positions.
CountIn(q, s, n) == Cardinality({k \in 1..Len(q) : q[k].sym = s /\ q[k].seq = n})

Copies(s, n) ==
    CountIn(feedQ, s, n)
    + Cardinality({w \in Workers : wk[w].st = "miss" /\ wk[w].ev.sym = s /\ wk[w].ev.seq = n})
    + Cardinality({p \in UNION {{w} \X DOMAIN normQ[w] : w \in Workers} :
                      normQ[p[1]][p[2]].sym = s /\ normQ[p[1]][p[2]].seq = n})
    + CountIn(distributed, s, n)

\* Downstream consumers tell frames apart by (symbol, sequence number) (spec
\* 5: "downstream consumers must rely on sequence numbers"): every event the
\* feed numbered is, at every moment, in exactly one place -- the feed
\* queue, a worker's hand between the two halves of get_or_add, a worker's
\* output queue, or handed on by the distribution thread -- and no other
\* (symbol, number) pair exists.  It needs the three generators to share one
\* counter per symbol, the workers' bulk dequeues from the one queue to
\* hand each event to one worker, and a worker that misses a new symbol to
\* emit exactly one frame whichever branch of the recheck it takes.
EveryEventOnce ==
    \A s \in Symbols, n \in 1..MaxEvents :
        Copies(s, n) = IF n < nextSeq[s] THEN 1 ELSE 0

-----------------------------------------------------------------------------
(* Properties the code is expected to have and does not *)

\* Every frame a normalizer worker emits is eventually handed to the
\* publisher and the recorder, unless the system is shut down (spec 2: the
\* distributor fans frames out to the publisher and the recorder).  The
\* distribution thread is created by the constructor, before start() sets
\* running_, and its loop condition reads running_.
FramesDistributed ==
    \A s \in Symbols, n \in 1..MaxEvents :
        (\E w \in Workers : \E k \in 1..Len(normQ[w]) :
            normQ[w][k].sym = s /\ normQ[w][k].seq = n)
        ~> (\E k \in 1..Len(distributed) : distributed[k].sym = s /\ distributed[k].seq = n)
           \/ core = "stopped"

====
