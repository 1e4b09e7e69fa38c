----------------------------- MODULE SendChannel -----------------------------
(***************************************************************************)
(* What one client connection of the publisher promises about data frames, *)
(* stated without threads or queues: once the client has authenticated,    *)
(* frames offered to it are either accepted or dropped, accepted frames    *)
(* are written to the socket one at a time in the order they were          *)
(* accepted, and closing the connection discards what is not yet written.  *)
(* Nothing is written before authentication or after the close.            *)
(***************************************************************************)
EXTENDS Sequences

CONSTANT Values         \* the data frames that can be offered

VARIABLES
    state,              \* "new" (not authenticated), "open", "closed"
    pending,            \* frames accepted and not yet written, oldest first
    wire                \* frames written to the socket, in order

chanVars == <<state, pending, wire>>

Init ==
    /\ state = "new"
    /\ pending = <<>>
    /\ wire = <<>>

Authenticate ==
    /\ state = "new"
    /\ state' = "open"
    /\ UNCHANGED <<pending, wire>>

\* An offered frame is accepted; a dropped one changes nothing.
Accept(v) ==
    /\ state = "open"
    /\ pending' = Append(pending, v)
    /\ UNCHANGED <<state, wire>>

Write ==
    /\ state = "open"
    /\ pending # <<>>
    /\ wire' = Append(wire, Head(pending))
    /\ pending' = Tail(pending)
    /\ UNCHANGED state

Close ==
    /\ state # "closed"
    /\ state' = "closed"
    /\ pending' = <<>>
    /\ UNCHANGED wire

Next ==
    \/ Authenticate
    \/ \E v \in Values : Accept(v)
    \/ Write
    \/ Close

Spec == Init /\ [][Next]_chanVars

====
