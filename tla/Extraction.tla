------------------------------- MODULE Extraction -------------------------------
(****************************************************************************)
(* From a parsed document to candidates: cutting it into chunks, asking a   *)
(* provider about one chunk after another with one retry, keeping what is   *)
(* grounded in the chunk that was asked about, validating it and accounting *)
(* for what was covered (governance-ingestion, chunking.rs, openrouter.rs   *)
(* and extraction.rs; replace_unreviewed_candidates of                      *)
(* governance-persistence); and the scan without a model that takes the     *)
(* provider's place in development.                                         *)
(*                                                                          *)
(* A document is the lengths of its segments, an excerpt a range of the     *)
(* characters of one of them.                                               *)
(****************************************************************************)
EXTENDS Rows, SequencesExt, Naturals

CONSTANTS
    Documents,      \* sequences of segment lengths
    MaxChars,       \* EXTRACTION_CHUNK_CHARACTER_BUDGET, 12000 in the code
    Label,          \* characters a segment is wrapped in
    Allowance,      \* characters kept free for them in a segment that is cut, 64
    MaxChunks, MaxCandidates,                                \* PolicyImportConfig
    Offered,        \* candidates a provider may name: [from, segment, sound, to]
    MostOffered     \* candidates of one answer

\* What a segment is wrapped in is 47 characters and a number.
ASSUME ExtractionAssumption ==
    /\ {MaxChars, Label, Allowance, MaxChunks, MaxCandidates, MostOffered} \subseteq Nat
    /\ Label <= Allowance /\ Allowance < MaxChars
    /\ Documents \subseteq Seq(Nat)
    /\ IsFiniteSet(Offered)

VARIABLES
    document,
    chunk,       \* the chunk the provider is asked about
    attempt,     \* of extract_chunk
    found,       \* candidates of the answers so far
    failed,      \* the chunks without a usable answer
    outcome      \* [coverage, status, candidates] of the import

extractionVars == <<document, chunk, attempt, found, failed, outcome>>

-----------------------------------------------------------------------------
(* chunk_document: the chunks so far, the one that is being filled, its     *)
(* size, and whether everything went into a chunk.                          *)

Push(state) ==
    IF state.open = <<>> THEN state
    ELSE [state EXCEPT !.chunks = Append(@, state.open), !.open = <<>>, !.size = 0]

Full(state) == Len(state.chunks) >= MaxChunks

PieceLength == IF MaxChars > Allowance THEN MaxChars - Allowance ELSE 1

Lowest(m, n) == IF m <= n THEN m ELSE n

(* A segment that is too long for a chunk: each piece is a chunk.           *)
Pieces(segment, length) ==
    [p \in 1..((length + PieceLength - 1) \div PieceLength) |->
        [from |-> (p - 1) * PieceLength + 1, segment |-> segment,
         to |-> Lowest(p * PieceLength, length)]]

(* Faulty variant of Cut: the pieces beyond the limit are dropped silently. *)
CutSilently(state, segment, length) ==
    LET pieces == Pieces(segment, length)
        room == MaxChunks - Len(state.chunks)
    IN  [state EXCEPT !.chunks = @ \o [p \in 1..Lowest(room, Len(pieces)) |-> <<pieces[p]>>]]

Cut(state, segment, length) ==
    LET pieces == Pieces(segment, length)
        room == MaxChunks - Len(state.chunks)
    IN  [state EXCEPT !.chunks = @ \o [p \in 1..Lowest(room, Len(pieces)) |-> <<pieces[p]>>],
                      !.whole = Len(pieces) <= room]

Fill(state, segment, length) ==
    LET flushed == IF state.size + length + Label > MaxChars THEN Push(state) ELSE state
    IN  IF flushed.open = <<>> /\ Full(flushed) THEN [flushed EXCEPT !.whole = FALSE]
        ELSE [flushed EXCEPT !.open = Append(@, [from |-> 1, segment |-> segment, to |-> length]),
                             !.size = @ + length + Label]

TakeSegment(state, segment, length) ==
    CASE ~state.whole -> state
      [] state.whole /\ Full(state) -> [state EXCEPT !.whole = FALSE]
      [] state.whole /\ ~Full(state) /\ length + Label > MaxChars ->
            Cut(Push(state), segment, length)
      [] OTHER -> Fill(state, segment, length)

(* After each number of segments. *)
Taken(lengths) ==
    LET taken[n \in 0..Len(lengths)] ==
            IF n = 0 THEN [chunks |-> <<>>, open |-> <<>>, size |-> 0, whole |-> TRUE]
                     ELSE TakeSegment(taken[n - 1], n, lengths[n])
    IN  taken

Chunked(lengths) ==
    LET taken == Taken(lengths)[Len(lengths)]
    IN  IF Full(taken) THEN [taken EXCEPT !.whole = @ /\ taken.open = <<>>] ELSE Push(taken)

Chunks == Chunked(document).chunks

(* completes_document of the last chunk.                                    *)
CompletesDocument ==
    /\ Chunked(document).whole /\ Chunks # <<>>
    /\ Last(Last(Chunks)).segment = Len(document)

-----------------------------------------------------------------------------
(* The import is extracting: its document was stored.                       *)
ExtractionInit ==
    /\ document \in Documents
    /\ chunk = 1 /\ attempt = 1 /\ found = <<>> /\ failed = {}
    /\ outcome = [candidates |-> <<>>, coverage |-> None, status |-> "extracting"]

Extracting == outcome.status = "extracting"

(* mark_failure: the extraction answered with an error.                     *)
ExtractionFails ==
    /\ outcome' = [outcome EXCEPT !.status = "failed_retryable"]
    /\ UNCHANGED <<document, chunk, attempt, found, failed>>

TooLong == Extracting /\ ~CompletesDocument /\ ExtractionFails

Asked == Extracting /\ CompletesDocument /\ chunk <= Len(Chunks)

Within(c, piece) ==
    c.segment = piece.segment /\ piece.from <= c.from /\ c.to <= piece.to

(* The chunk holds the segment and the excerpt the candidate cites.         *)
Grounded(c) == \E p \in DOMAIN Chunks[chunk] : Within(c, Chunks[chunk][p])

NextChunk == chunk' = chunk + 1 /\ attempt' = 1

ChunkAnswered(candidates) ==
    /\ Asked
    /\ IF \A i \in DOMAIN candidates : Grounded(candidates[i])
       THEN found' = found \o candidates /\ UNCHANGED failed
       ELSE failed' = failed \cup {chunk} /\ UNCHANGED found
    /\ IF Len(found') > MaxCandidates
       THEN outcome' = [outcome EXCEPT !.status = "failed_retryable"]
       ELSE UNCHANGED outcome
    /\ NextChunk
    /\ UNCHANGED document

(* A transport error, a time out, 429 and 5xx are tried once more.          *)
ProviderBusy ==
    /\ Asked
    /\ IF attempt = 1 THEN attempt' = 2 /\ UNCHANGED <<chunk, failed>>
                      ELSE failed' = failed \cup {chunk} /\ NextChunk
    /\ UNCHANGED <<document, found, outcome>>

(* Another status, a refusal, or an answer that does not fit the schema.    *)
ProviderFails ==
    /\ Asked
    /\ failed' = failed \cup {chunk} /\ NextChunk
    /\ UNCHANGED <<document, found, outcome>>

InDocument(c) == c.segment \in DOMAIN document /\ c.to <= document[c.segment]

(* validate_extraction_response: bounds, excerpt and rule of a candidate,   *)
(* and the first of equal ones.                                             *)
Validated(candidates) ==
    LET kept[n \in 0..Len(candidates)] ==
            IF n = 0 THEN <<>>
            ELSE LET before == kept[n - 1]  c == candidates[n]
                 IN  IF c.sound /\ InDocument(c) /\ c \notin ToSet(before)
                     THEN Append(before, c) ELSE before
    IN  kept[Len(candidates)]

Coverage(total, missed) == [missed |-> missed, processed |-> total - Cardinality(missed),
                            total |-> total]

IsComplete(coverage) ==
    coverage.total > 0 /\ coverage.total = coverage.processed /\ coverage.missed = {}

(* replace_unreviewed_candidates stores what there is ...                   *)
Store(candidates, coverage) ==
    /\ outcome' = [candidates |-> candidates, coverage |-> coverage,
                  status |-> IF coverage.missed # {} THEN "failed_retryable"
                             ELSE "review_required"]
    /\ UNCHANGED <<document, chunk, attempt, found, failed>>

Extracted ==
    /\ Extracting /\ CompletesDocument /\ chunk > Len(Chunks)
    /\ Store(Validated(found), Coverage(Len(Chunks), failed))

(* ... and does not when a statement fails.                                 *)
StorageFails == Extracting /\ CompletesDocument /\ chunk > Len(Chunks) /\ ExtractionFails

Sentences == SetToSeq({c \in Offered : InDocument(c)})

(* HeuristicPolicyExtractionModel: sentences are taken until there are      *)
(* enough of them; every chunk counts as processed.                         *)
Scan ==
    /\ Extracting /\ CompletesDocument /\ chunk = 1 /\ attempt = 1
    /\ Store(Validated(SubSeq(Sentences, 1, Lowest(MaxCandidates, Len(Sentences)))),
             Coverage(Len(Chunks), {}))

-----------------------------------------------------------------------------
Answers == UNION {[1..n -> Offered] : n \in 0..MostOffered}

ExtractionNext ==
    \/ TooLong
    \/ \E candidates \in Answers : ChunkAnswered(candidates)
    \/ ProviderBusy \/ ProviderFails
    \/ Extracted \/ StorageFails
    \/ Scan

ExtractionSpec == ExtractionInit /\ [][ExtractionNext]_extractionVars

-----------------------------------------------------------------------------
(* Properties *)

ExtractionTypeOK ==
    /\ chunk \in Nat \ {0} /\ attempt \in {1, 2}
    /\ Len(found) <= MaxCandidates + MostOffered
    /\ failed \subseteq 1..Len(Chunks)
    /\ outcome.status \in {"extracting", "failed_retryable", "review_required"}

(* The characters of a chunk, what its pieces are wrapped in included.      *)
Size(pieces) ==
    LET sum[n \in 0..Len(pieces)] ==
            IF n = 0 THEN 0
                     ELSE sum[n - 1] + pieces[n].to - pieces[n].from + 1 + Label
    IN  sum[Len(pieces)]

(* Where character k of segment s is: which chunks, which piece of each.    *)
Places(chunks, s, k) ==
    UNION {{n} \X {p \in DOMAIN chunks[n] :
                    Within([from |-> k, segment |-> s, to |-> k], chunks[n][p])} :
           n \in DOMAIN chunks}

(* An import whose coverage is complete, and only it is ever ready, had     *)
(* every character of its document in exactly one chunk, none larger than   *)
(* the budget and every one of them usable, however long the segments are   *)
(* and wherever the limits cut; its candidates are excerpts of the          *)
(* document, each there once (is_complete; "A pack can be compiled only     *)
(* when extraction coverage is complete", docs/architecture.md).            *)
CoverageIsTruthful ==
    outcome.coverage # None /\ IsComplete(outcome.coverage) =>
        /\ failed = {}
        /\ Len(Chunks) <= MaxChunks
        /\ \A n \in DOMAIN Chunks : Size(Chunks[n]) <= MaxChars
        /\ \A s \in DOMAIN document : \A k \in 1..document[s] :
               Cardinality(Places(Chunks, s, k)) = 1
        /\ IsInjective(outcome.candidates)
        /\ \A i \in DOMAIN outcome.candidates : InDocument(outcome.candidates[i])
=================================================================================
