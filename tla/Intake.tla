------------------------------- MODULE Intake -------------------------------
(***************************************************************************)
(* From a pull request to LLM batches: fetch_pr_files of                   *)
(* ingestion/diff_fetcher.py lists the changed files page by page, and     *)
(* preprocess_pr_files of ingestion/preprocessor.py filters them, splits   *)
(* each patch at hunk boundaries into chunks and groups chunks to batches. *)
(*                                                                         *)
(* A patch is abstracted to the traits should_filter_file looks at and the *)
(* number of characters of its hunks, each and in all; a chunk to an       *)
(* interval of hunks, a batch to an interval of chunks.                    *)
(***************************************************************************)
EXTENDS Integers, Sequences, SequencesExt

CONSTANTS File,
          PRs,             \* the file lists a pull request may have
          Patches,         \* the patches a file may have
          PerPage,         \* 100 in the code
          MaxChunkTokens,  \* 4000
          MaxChunks,       \* chunks per batch, 8
          MaxBatchTokens,  \* 32000
          MaxPushes        \* bound: pushes while the files are being listed

\* The reasons to leave a file out, in the order should_filter_file tests them.
Reasons == <<"removed", "lockfile", "vendored", "binary_or_empty_patch",
             "unsupported_language", "oversized", "generated">>
Trait == {Reasons[i] : i \in 1..7}

ASSUME IntakeAssumption ==
    /\ PRs \subseteq Seq(File) /\ PRs # {}
    /\ Patches \subseteq [traits : SUBSET Trait, hunks : Seq(Nat \ {0}), chars : Nat]
    /\ \A p \in Patches : Len(p.hunks) > 0
    /\ PerPage \in Nat \ {0} /\ MaxChunkTokens \in Nat
    /\ MaxChunks \in Nat \ {0} /\ MaxBatchTokens \in Nat
    /\ MaxPushes \in Nat

ASSUME PatchChars ==
    \A p \in Patches : p.chars = FoldSeq(LAMBDA x, y : x + y, 0, p.hunks)

VARIABLES
    at,        \* the step of the intake
    pr,        \* GitHub: the files of the pull request
    pushes,    \* pushes since the listing began
    page,      \* the page asked for next
    listed,    \* the files listed so far
    patch,     \* the patches of the listed files looked at so far
    filtered,  \* filtered_files: the files left out and why
    hunk,      \* next hunk of the file being split
    cur,       \* the chunk being put together: first and last hunk, characters, tokens
    chunks,    \* the chunks: position of the file, first and last hunk, characters
    batches    \* the batches: first and last chunk, tokens

vars == <<at, pr, pushes, page, listed, patch, filtered, hunk, cur, chunks, batches>>
listing == <<pr, pushes, page, listed>>

None == [lo |-> 0, hi |-> 0, chars |-> 0, tokens |-> 0]
Piece == [lo : Nat, hi : Nat, chars : Nat, tokens : Nat]
Chunk == [file : Nat, lo : Nat, hi : Nat, chars : Nat]
Batch == [lo : Nat, hi : Nat, tokens : Nat]

TypeOK ==
    /\ at \in {"auth", "list", "file", "split", "batch", "done", "failed"}
    /\ pr \in PRs
    /\ pushes \in 0..MaxPushes
    /\ page \in Nat \ {0}
    /\ listed \in Seq(File)
    /\ patch \in Seq(Patches)
    /\ Len(patch) <= Len(listed)
    /\ filtered \subseteq [file : File, why : Trait]
    /\ hunk \in Nat
    /\ cur \in Piece
    /\ at # "split" => cur = None
    /\ chunks \in Seq(Chunk)
    /\ batches \in Seq(Batch)

Init ==
    /\ at = "auth"
    /\ pr \in PRs
    /\ pushes = 0 /\ page = 1 /\ listed = <<>>
    /\ patch = <<>> /\ filtered = {} /\ hunk = 0 /\ cur = None
    /\ chunks = <<>> /\ batches = <<>>

-----------------------------------------------------------------------------
(* fetch_pr_files.                                                         *)

\* _build_headers with the installation token, or an HTTP error: the task
\* fetch_pr_diff fails (and is retried from the beginning, see AnalysisFlow).
Authorise ==
    /\ at = "auth"
    /\ at' \in {"list", "failed"}
    /\ UNCHANGED <<listing, patch, filtered, hunk, cur, chunks, batches>>

Lesser(a, b) == IF a < b THEN a ELSE b
PageItems == SubSeq(pr, (page - 1) * PerPage + 1, Lesser(page * PerPage, Len(pr)))

\* Mutant: a page that is not longer than asked for counts as the last one.
ListPageOffByOne ==
    /\ at = "list"
    /\ listed' = listed \o PageItems
    /\ \/ Len(PageItems) <= PerPage /\ at' = "file" /\ UNCHANGED page
       \/ Len(PageItems) > PerPage /\ page' = page + 1 /\ UNCHANGED at
    /\ UNCHANGED <<pr, pushes, patch, filtered, hunk, cur, chunks, batches>>

ListPage ==
    /\ at = "list"
    /\ listed' = listed \o PageItems
    /\ \/ Len(PageItems) < PerPage /\ at' = "file" /\ UNCHANGED page
       \/ Len(PageItems) = PerPage /\ page' = page + 1 /\ UNCHANGED at
    /\ UNCHANGED <<pr, pushes, patch, filtered, hunk, cur, chunks, batches>>

ListFails ==
    /\ at = "list" /\ at' = "failed"
    /\ UNCHANGED <<listing, patch, filtered, hunk, cur, chunks, batches>>

\* Pages are numbered by the pull request, not by a commit: a push between two
\* of them changes what the next one holds.
Push ==
    /\ at = "list" /\ pushes < MaxPushes
    /\ pr' \in PRs /\ pushes' = pushes + 1
    /\ UNCHANGED <<at, page, listed, patch, filtered, hunk, cur, chunks, batches>>

-----------------------------------------------------------------------------
(* preprocess_pr_files.                                                    *)

\* About four characters per token, one at least.
EstimateTokens(chars) == IF chars = 0 THEN 0 ELSE IF chars < 4 THEN 1 ELSE chars \div 4

\* Reason n is the first that applies.
FirstReason(n, traits) == Reasons[n] \in traits /\ \A m \in 1..(n - 1) : Reasons[m] \notin traits

ShouldFilterFile(p) == p.traits # {}

Current == listed[Len(patch) + 1]

\* The dictionary keeps one reason for each name.
FilterFile ==
    /\ at = "file" /\ Len(patch) < Len(listed)
    /\ \E p \in Patches, n \in 1..7 :
         /\ ShouldFilterFile(p) /\ FirstReason(n, p.traits)
         /\ patch' = Append(patch, p)
         /\ filtered' = {x \in filtered : x.file # Current}
                          \cup {[file |-> Current, why |-> Reasons[n]]}
    /\ UNCHANGED <<at, listing, hunk, cur, chunks, batches>>

\* fetch_file_content: an error other than 404 fails the task.
ContentFails ==
    /\ at = "file" /\ Len(patch) < Len(listed)
    /\ \E p \in Patches : ~ ShouldFilterFile(p)
    /\ at' = "failed"
    /\ UNCHANGED <<listing, patch, filtered, hunk, cur, chunks, batches>>

\* A patch that fits is one chunk as it is, another is split.
KeepFile ==
    /\ at = "file" /\ Len(patch) < Len(listed)
    /\ \E p \in Patches :
         /\ ~ ShouldFilterFile(p)
         /\ patch' = Append(patch, p)
         /\ \/ /\ EstimateTokens(p.chars) <= MaxChunkTokens
               /\ chunks' = Append(chunks, [file |-> Len(patch) + 1, lo |-> 1, hi |-> Len(p.hunks),
                                            chars |-> p.chars])
               /\ UNCHANGED <<at, hunk>>
            \/ /\ EstimateTokens(p.chars) > MaxChunkTokens
               /\ at' = "split" /\ hunk' = 1 /\ UNCHANGED chunks
    /\ UNCHANGED <<listing, filtered, cur, batches>>

Hunks == patch[Len(patch)].hunks
Alone(h) == [lo |-> h, hi |-> h, chars |-> Hunks[h], tokens |-> EstimateTokens(Hunks[h])]
Flush == Append(chunks, [file |-> Len(patch), lo |-> cur.lo, hi |-> cur.hi, chars |-> cur.chars])

\* Mutant: the hunk that does not fit is forgotten.
SplitHunkForgets ==
    /\ at = "split" /\ hunk <= Len(Hunks)
    /\ \/ cur = None /\ cur' = Alone(hunk) /\ UNCHANGED chunks
       \/ /\ cur # None /\ cur.tokens + EstimateTokens(Hunks[hunk]) <= MaxChunkTokens
          /\ cur' = [lo |-> cur.lo, hi |-> hunk, chars |-> cur.chars + 1 + Hunks[hunk],
                     tokens |-> cur.tokens + EstimateTokens(Hunks[hunk])]
          /\ UNCHANGED chunks
       \/ /\ cur # None /\ cur.tokens + EstimateTokens(Hunks[hunk]) > MaxChunkTokens
          /\ chunks' = Flush /\ cur' = None
    /\ hunk' = hunk + 1
    /\ UNCHANGED <<at, listing, patch, filtered, batches>>

\* Mutant: the tokens of a chunk are not added up.
SplitHunkUncounted ==
    /\ at = "split" /\ hunk <= Len(Hunks)
    /\ \/ cur = None /\ cur' = Alone(hunk) /\ UNCHANGED chunks
       \/ /\ cur # None /\ EstimateTokens(Hunks[hunk]) <= MaxChunkTokens
          /\ cur' = [lo |-> cur.lo, hi |-> hunk, chars |-> cur.chars + 1 + Hunks[hunk],
                     tokens |-> EstimateTokens(Hunks[hunk])]
          /\ UNCHANGED chunks
       \/ /\ cur # None /\ EstimateTokens(Hunks[hunk]) > MaxChunkTokens
          /\ chunks' = Flush /\ cur' = Alone(hunk)
    /\ hunk' = hunk + 1
    /\ UNCHANGED <<at, listing, patch, filtered, batches>>

\* split_patch_into_subpatches, hunk by hunk; hunks of one chunk are joined by
\* a newline, which no estimate counts.
SplitHunk ==
    /\ at = "split" /\ hunk <= Len(Hunks)
    /\ \/ cur = None /\ cur' = Alone(hunk) /\ UNCHANGED chunks
       \/ /\ cur # None /\ cur.tokens + EstimateTokens(Hunks[hunk]) <= MaxChunkTokens
          /\ cur' = [lo |-> cur.lo, hi |-> hunk, chars |-> cur.chars + 1 + Hunks[hunk],
                     tokens |-> cur.tokens + EstimateTokens(Hunks[hunk])]
          /\ UNCHANGED chunks
       \/ /\ cur # None /\ cur.tokens + EstimateTokens(Hunks[hunk]) > MaxChunkTokens
          /\ chunks' = Flush /\ cur' = Alone(hunk)
    /\ hunk' = hunk + 1
    /\ UNCHANGED <<at, listing, patch, filtered, batches>>

\* The last chunk of the file, and on to the next file.
SplitEnds ==
    /\ at = "split" /\ hunk > Len(Hunks)
    /\ chunks' = Flush /\ cur' = None /\ hunk' = 0 /\ at' = "file"
    /\ UNCHANGED <<listing, patch, filtered, batches>>

FilesEnd ==
    /\ at = "file" /\ Len(patch) = Len(listed)
    /\ at' = "batch"
    /\ UNCHANGED <<listing, patch, filtered, hunk, cur, chunks, batches>>

Batched == IF batches = <<>> THEN 0 ELSE batches[Len(batches)].hi
Tokens(i) == EstimateTokens(chunks[i].chars)

\* Mutant: the limit is tested after the chunk was added.
BatchFull(b, i) == b.hi - b.lo >= MaxChunks \/ b.tokens > MaxBatchTokens

\* The open batch b cannot take chunk i.
Full(b, i) == b.hi - b.lo + 1 >= MaxChunks \/ b.tokens + Tokens(i) > MaxBatchTokens

\* batch_chunks_for_llm, chunk by chunk; the last batch is the open one.
BatchChunk ==
    /\ at = "batch" /\ Batched < Len(chunks)
    /\ LET i == Batched + 1
           n == Len(batches)
       IN \/ /\ n > 0 => Full(batches[n], i)
             /\ batches' = Append(batches, [lo |-> i, hi |-> i, tokens |-> Tokens(i)])
          \/ /\ n > 0 /\ ~ Full(batches[n], i)
             /\ batches' = [batches EXCEPT ![n] = [lo |-> batches[n].lo, hi |-> i,
                                                   tokens |-> batches[n].tokens + Tokens(i)]]
    /\ UNCHANGED <<at, listing, patch, filtered, hunk, cur, chunks>>

BatchesEnd ==
    /\ at = "batch" /\ Batched = Len(chunks)
    /\ at' = "done"
    /\ UNCHANGED <<listing, patch, filtered, hunk, cur, chunks, batches>>

Next ==
    \/ Authorise \/ ListPage \/ ListFails \/ Push
    \/ FilterFile \/ ContentFails \/ KeepFile \/ SplitHunk \/ SplitEnds \/ FilesEnd
    \/ BatchChunk \/ BatchesEnd

Spec == Init /\ [][Next]_vars

-----------------------------------------------------------------------------
(* Properties.                                                             *)

\* Unless the pull request changes meanwhile, every file of it is listed once
\* and in order, whatever the number of pages and also when the last page is
\* full or empty.
ListedExactly ==
    at \notin {"auth", "list", "failed"} /\ pushes = 0 => listed = pr

\* Every hunk of every file that is not filtered is in one chunk, in order, and
\* no hunk of a filtered file, which has its reason, is: consecutive chunks
\* continue a file or start the next one that is not filtered.
LastHunk(f) == Len(patch[f].hunks)
Analysed(f) == patch[f].traits = {}
Follows(file, lo, prevFile, prevHi) ==
    \/ file = prevFile /\ lo = prevHi + 1
    \/ /\ file > prevFile /\ lo = 1
       /\ prevFile > 0 => prevHi = LastHunk(prevFile)
       /\ \A f \in (prevFile + 1)..(file - 1) : ~ Analysed(f)
HunksPartitioned ==
    at \in {"batch", "done"} =>
       /\ \A i \in 1..Len(chunks) :
            LET c == chunks[i] IN
            /\ Analysed(c.file) /\ c.lo <= c.hi /\ c.hi <= LastHunk(c.file)
            /\ IF i = 1 THEN Follows(c.file, c.lo, 0, 0)
               ELSE Follows(c.file, c.lo, chunks[i - 1].file, chunks[i - 1].hi)
       /\ \A f \in 1..Len(listed) : Analysed(f) =>
            \E i \in 1..Len(chunks) : chunks[i].file = f /\ chunks[i].hi = LastHunk(f)
       /\ {listed[f] : f \in {f \in 1..Len(listed) : ~ Analysed(f)}} = {x.file : x \in filtered}

\* "Splits large file diffs at hunk boundaries so each chunk is <= 4,000
\* tokens": exactly, a chunk of several hunks exceeds the limit by less than
\* one token for each of its hunks (roundings and newlines add up), and only
\* a chunk that is a single hunk may be larger.
ChunkBound ==
    \A i \in 1..Len(chunks) :
       LET c == chunks[i] IN
       c.hi > c.lo => EstimateTokens(c.chars) <= MaxChunkTokens + (c.hi - c.lo)

\* "Group chunks into batches of <= 8 chunks and <= 32,000 tokens": every chunk
\* is in one batch, in order; a batch keeps both limits, unless it is a single
\* chunk that exceeds the limit by itself.
BatchBound ==
    /\ at = "done" => Batched = Len(chunks)
    /\ \A n \in 1..Len(batches) :
         LET b == batches[n] IN
         /\ b.lo <= b.hi /\ b.hi - b.lo < MaxChunks
         /\ b.lo = (IF n = 1 THEN 1 ELSE batches[n - 1].hi + 1)
         /\ b.tokens <= MaxBatchTokens \/ b.lo = b.hi
=============================================================================
