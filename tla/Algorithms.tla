----------------------------- MODULE Algorithms -----------------------------
(***************************************************************************)
(* Pure functions of the code, each next to the reference definition the   *)
(* spec gives, as operators over small inputs:                              *)
(*   - topic matching: TopicSubscription's glob-to-regex conversion and     *)
(*     PubServer::matches_topic (src/publisher/pub_server.cpp), against the *)
(*     spec's glob, in which * matches any non-empty substring;             *)
(*   - histogram bucket selection: LatencyHistogram::record                 *)
(*     (src/common/metrics.cpp), against the smallest i with v <= b[i].     *)
(* Strings are sequences of one-character strings.                          *)
(***************************************************************************)
EXTENDS Naturals, Sequences, FiniteSets, SequencesExt, Functions

CONSTANTS
    Alphabet,       \* characters topics are made of
    PatAlphabet,    \* characters patterns are made of
    MaxLen,         \* bound: length of topics and patterns
    Bounds,         \* values histogram bucket bounds are drawn from
    MaxBuckets,     \* bound: number of buckets
    Latencies       \* latencies recorded

-----------------------------------------------------------------------------
(* Topic matching *)

\* A subscription is a wildcard when its pattern contains '*'.
IsWildcard(p) == \E i \in 1..Len(p) : p[i] = "*"

\* Mutant: '*' becomes a single-character wildcard.
RegexTokenOneChar(c) ==
    CASE c = "*" -> "anychar"
      [] c = "." -> "anychar"
      [] OTHER   -> c

\* The regular expression a pattern character becomes: '*' is replaced by
\* ".*" (any run of characters, possibly none); every other character is
\* copied, so '.' stays a regex '.', which matches any one character.
RegexToken(c) ==
    CASE c = "*" -> "anyrun"
      [] c = "." -> "anychar"
      [] OTHER   -> c

ToRegex(p) == [i \in 1..Len(p) |-> RegexToken(p[i])]

\* std::regex_match: the whole topic matches the token sequence.
RECURSIVE RegexMatch(_, _)
RegexMatch(t, r) ==
    IF r = <<>> THEN t = <<>>
    ELSE CASE Head(r) = "anyrun" ->
                \E k \in 0..Len(t) : RegexMatch(SubSeq(t, k + 1, Len(t)), Tail(r))
           [] Head(r) = "anychar" ->
                t # <<>> /\ RegexMatch(Tail(t), Tail(r))
           [] OTHER ->
                t # <<>> /\ Head(t) = Head(r) /\ RegexMatch(Tail(t), Tail(r))

\* PubServer::matches_topic: regex_match for a wildcard, equality otherwise.
MatchesTopic(t, p) ==
    IF IsWildcard(p) THEN RegexMatch(t, ToRegex(p)) ELSE t = p

\* The spec's glob (section 3): '*' matches any non-empty substring, every
\* other character only itself.
RECURSIVE GlobMatch(_, _)
GlobMatch(t, p) ==
    IF p = <<>> THEN t = <<>>
    ELSE IF Head(p) = "*"
         THEN \E k \in 1..Len(t) : GlobMatch(SubSeq(t, k + 1, Len(t)), Tail(p))
         ELSE t # <<>> /\ Head(t) = Head(p) /\ GlobMatch(Tail(t), Tail(p))

-----------------------------------------------------------------------------
(* Histogram bucket selection *)

\* Mutant: the scan compares with < instead of <=.
BucketOfStrict(b, v) ==
    LET hits == {i \in 1..Len(b) : v < b[i]}
        idx  == IF hits = {} THEN 1 ELSE CHOOSE i \in hits : \A j \in hits : i <= j
    IN IF idx = 1 /\ v > b[Len(b)] THEN Len(b) + 1 ELSE idx

\* LatencyHistogram::record: the first i with v <= b[i], scanning from the
\* front; when the scan leaves bucket_idx at 0 and v is above the last
\* bound, the overflow bucket Len(b) + 1.  Indices are 1-based here.
BucketOf(b, v) ==
    LET hits == {i \in 1..Len(b) : v <= b[i]}
        idx  == IF hits = {} THEN 1 ELSE CHOOSE i \in hits : \A j \in hits : i <= j
    IN IF idx = 1 /\ v > b[Len(b)] THEN Len(b) + 1 ELSE idx

\* The spec's bucketization (open questions): the smallest i with
\* v <= b[i]; if none, the overflow bucket.
SpecBucket(b, v) ==
    IF \E i \in 1..Len(b) : v <= b[i]
    THEN CHOOSE i \in 1..Len(b) : v <= b[i] /\ \A j \in 1..i - 1 : v > b[j]
    ELSE Len(b) + 1

-----------------------------------------------------------------------------
(* The inputs, one per state: a (topic, pattern) pair or a (bounds, value) *)
(* pair.                                                                    *)

Strings(A) == UNION {[1..n -> A] : n \in 0..MaxLen}

\* Bucket bounds as configured: non-empty and strictly increasing.
BucketVectors ==
    {b \in UNION {[1..n -> Bounds] : n \in 1..MaxBuckets} :
        \A i \in 1..Len(b) - 1 : b[i] < b[i + 1]}

VARIABLE input

Init ==
    input \in [kind : {"match"}, topic : Strings(Alphabet), pattern : Strings(PatAlphabet)]
              \cup [kind : {"bucket"}, bounds : BucketVectors, value : Latencies]

Next == UNCHANGED input

Spec == Init /\ [][Next]_input

-----------------------------------------------------------------------------
(* Properties *)

\* A client is sent every frame the spec's glob says its subscription
\* matches: the regex the constructor builds from a pattern accepts every
\* topic the glob accepts.  (It accepts more: '.*' matches the empty string
\* and a '.' of the pattern any character.)
GlobNoFalseNegatives ==
    input.kind = "match" =>
        (GlobMatch(input.topic, input.pattern) => MatchesTopic(input.topic, input.pattern))

\* For increasing bucket bounds, record() puts a latency in the bucket the
\* spec prescribes, overflow included, although its scan and its overflow
\* test are separate.
BucketSelectionAgrees ==
    input.kind = "bucket" => BucketOf(input.bounds, input.value) = SpecBucket(input.bounds, input.value)

====
