----------------------------- MODULE SymbolTable -----------------------------
(***************************************************************************)
(* What a symbol registry promises its callers, with no locks: get_or_add  *)
(* is one atomic step that returns the symbol's id, giving a symbol seen   *)
(* for the first time the next id after those already given (1, 2, ...).  *)
(* An id, once given, is the symbol's for ever.  issued holds every        *)
(* (symbol, id) answer a caller has received.                              *)
(***************************************************************************)
EXTENDS Naturals, FiniteSets, TLC

CONSTANT Symbols

VARIABLES
    ids,        \* the symbols registered so far and their ids
    issued      \* the <<symbol, id>> pairs get_or_add has returned

tableVars == <<ids, issued>>

Init ==
    /\ ids = [s \in {} |-> 0]
    /\ issued = {}

\* The id get_or_add(s) returns in a table where ids has been updated.
GetOrAdd(s) ==
    /\ ids' = IF s \in DOMAIN ids THEN ids
              ELSE (s :> Cardinality(DOMAIN ids) + 1) @@ ids
    /\ issued' = issued \cup {<<s, ids'[s]>>}

Next == \E s \in Symbols : GetOrAdd(s)

Spec == Init /\ [][Next]_tableVars

====
