---------------------------- MODULE IntakeProofs ----------------------------
(***************************************************************************)
(* Theorems about Intake: the listing, the partition of the hunks into     *)
(* chunks, their size and the batches, for every page size, all limits and *)
(* any patches.                                                            *)
(***************************************************************************)
EXTENDS Intake, SequenceTheorems, TLAPS

USE IntakeAssumption

ItemsOK ==
    /\ at \in {"auth", "list", "file", "split", "batch", "done", "failed"}
    /\ patch \in Seq(Patches) /\ hunk \in Nat /\ cur \in Piece
    /\ chunks \in Seq(Chunk) /\ batches \in Seq(Batch)

\* The chunk being put together ends before the next hunk. Its characters may
\* exceed what its tokens stand for by three and a newline for each hunk.
OpenChunk ==
    /\ at = "split" => patch # <<>> /\ hunk >= 1 /\ (hunk > 1 => cur # None)
    /\ cur # None => /\ at = "split" /\ 1 <= cur.lo /\ cur.lo <= cur.hi /\ cur.hi = hunk - 1
                     /\ cur.chars <= 4 * cur.tokens + 4 * (cur.hi - cur.lo) + 3
                     /\ cur.hi > cur.lo => cur.tokens <= MaxChunkTokens

ChunkInv == ItemsOK /\ OpenChunk /\ ChunkBound

\* Four characters to a token, three at most left over.
LEMMA EstimateBounds ==
  ASSUME NEW c \in Nat
  PROVE  EstimateTokens(c) \in Nat /\ c <= 4 * EstimateTokens(c) + 3
  BY DEF EstimateTokens

\* A chunk within the slack of its hunks exceeds the limit by less than one
\* token for each hunk.
LEMMA SlackBound ==
  ASSUME NEW c \in Nat, NEW t \in Nat, NEW d \in Nat, d > 0,
         c <= 4 * t + 4 * d + 3, t <= MaxChunkTokens
  PROVE  EstimateTokens(c) <= MaxChunkTokens + d
  BY DEF EstimateTokens

\* The hunks of the file being split have characters.
LEMMA HunkChars ==
  ASSUME patch \in Seq(Patches), patch # <<>>
  PROVE  Hunks \in Seq(Nat \ {0}) /\ Len(Hunks) > 0
  <1>1. Len(patch) \in 1..Len(patch)
    OBVIOUS
  <1>2. patch[Len(patch)] \in Patches
    BY <1>1
  <1>3. QED
    BY <1>2 DEF Hunks

\* At first there is no chunk.
LEMMA ChunkInitial == Init => ChunkInv
  BY DEF Init, ChunkInv, ItemsOK, OpenChunk, ChunkBound, None, Piece, Chunk, Batch

\* Writing the open chunk out keeps the bound.
LEMMA FlushKeeps ==
  ASSUME ChunkInv, at = "split", cur # None
  PROVE  /\ Flush \in Seq(Chunk)
         /\ \A i \in 1..Len(Flush) :
              Flush[i].hi > Flush[i].lo
                => EstimateTokens(Flush[i].chars) <= MaxChunkTokens + (Flush[i].hi - Flush[i].lo)
  <1> DEFINE c == [file |-> Len(patch), lo |-> cur.lo, hi |-> cur.hi, chars |-> cur.chars]
  <1>1. /\ patch \in Seq(Patches) /\ cur \in Piece /\ chunks \in Seq(Chunk) /\ Len(patch) \in Nat
    BY DEF ChunkInv, ItemsOK
  <1>2. c \in Chunk
    BY <1>1 DEF Chunk, Piece
  <1>3. c.hi > c.lo => EstimateTokens(c.chars) <= MaxChunkTokens + (c.hi - c.lo)
    <2> SUFFICES ASSUME cur.hi > cur.lo
                 PROVE  EstimateTokens(cur.chars) <= MaxChunkTokens + (cur.hi - cur.lo)
      OBVIOUS
    <2>1. /\ cur.chars \in Nat /\ cur.tokens \in Nat
          /\ cur.hi - cur.lo \in Nat /\ cur.hi - cur.lo > 0
      BY <1>1 DEF Piece
    <2>2. cur.chars <= 4 * cur.tokens + 4 * (cur.hi - cur.lo) + 3 /\ cur.tokens <= MaxChunkTokens
      BY DEF ChunkInv, OpenChunk
    <2>3. QED
      BY <2>1, <2>2, SlackBound
  <1> HIDE DEF c
  <1>4. /\ Flush = Append(chunks, c) /\ Len(Flush) = Len(chunks) + 1
        /\ Flush[Len(chunks) + 1] = c /\ \A i \in 1..Len(chunks) : Flush[i] = chunks[i]
        /\ Flush \in Seq(Chunk)
    BY <1>1, <1>2 DEF Flush, c
  <1>5. ASSUME NEW i \in 1..Len(Flush)
        PROVE  Flush[i].hi > Flush[i].lo
                 => EstimateTokens(Flush[i].chars) <= MaxChunkTokens + (Flush[i].hi - Flush[i].lo)
    <2>1. i \in 1..Len(chunks) \/ i = Len(chunks) + 1
      BY <1>1, <1>4
    <2>2. QED
      BY <1>3, <1>4, <2>1 DEF ChunkInv, ChunkBound
  <1>6. QED
    BY <1>4, <1>5

\* The batched chunks are counted by a number.
LEMMA BatchedNat ==
  ASSUME batches \in Seq(Batch)
  PROVE  Batched \in Nat
  <1>1. CASE batches = <<>>
    BY <1>1 DEF Batched
  <1>2. CASE batches # <<>>
    <2>1. Len(batches) \in 1..Len(batches)
      BY <1>2
    <2>2. batches[Len(batches)] \in Batch
      BY <2>1
    <2>3. QED
      BY <1>2, <2>2 DEF Batched, Batch
  <1>3. QED
    BY <1>1, <1>2

\* Tokens are natural numbers.
LEMMA TokensNat ==
  ASSUME chunks \in Seq(Chunk), NEW i \in 1..Len(chunks)
  PROVE  Tokens(i) \in Nat
  <1>1. chunks[i] \in Chunk
    OBVIOUS
  <1>2. chunks[i].chars \in Nat
    BY <1>1 DEF Chunk
  <1>3. QED
    BY <1>2, EstimateBounds DEF Tokens

\* The next chunk opens a batch or joins the open one.
LEMMA BatchGrows ==
  ASSUME chunks \in Seq(Chunk), batches \in Seq(Batch), BatchChunk
  PROVE  LET i == Batched + 1
             n == Len(batches)
         IN  /\ batches' \in Seq(Batch) /\ i \in Nat /\ Tokens(i) \in Nat
             /\ \/ /\ n > 0 => Full(batches[n], i)
                   /\ Len(batches') = n + 1
                   /\ batches'[n + 1] = [lo |-> i, hi |-> i, tokens |-> Tokens(i)]
                   /\ \A j \in 1..n : batches'[j] = batches[j]
                \/ /\ n > 0 /\ ~ Full(batches[n], i)
                   /\ Len(batches') = n
                   /\ batches'[n] = [lo |-> batches[n].lo, hi |-> i,
                                     tokens |-> batches[n].tokens + Tokens(i)]
                   /\ \A j \in 1..(n - 1) : batches'[j] = batches[j]
  <1> DEFINE i == Batched + 1
             n == Len(batches)
             t == Tokens(i)
             new == [lo |-> i, hi |-> i, tokens |-> t]
             old == [lo |-> batches[n].lo, hi |-> i, tokens |-> batches[n].tokens + t]
  <1>1. Batched \in Nat /\ i \in Nat /\ n \in Nat
    BY BatchedNat
  <1>2. i \in 1..Len(chunks)
    BY <1>1 DEF BatchChunk
  <1>3. t \in Nat
    BY <1>2, TokensNat
  <1>4. \/ (n > 0 => Full(batches[n], i)) /\ batches' = Append(batches, new)
        \/ n > 0 /\ ~ Full(batches[n], i) /\ batches' = [batches EXCEPT ![n] = old]
    BY DEF BatchChunk
  <1> HIDE DEF i, t
  <1>5. CASE (n > 0 => Full(batches[n], i)) /\ batches' = Append(batches, new)
    <2>1. new \in Batch
      BY <1>1, <1>3 DEF Batch
    <2>2. batches' \in Seq(Batch) /\ Len(batches') = n + 1 /\ batches'[n + 1] = new
          /\ \A j \in 1..n : batches'[j] = batches[j]
      BY <1>5, <2>1
    <2>3. QED
      BY <1>1, <1>3, <1>5, <2>2 DEF i, t
  <1>6. CASE n > 0 /\ ~ Full(batches[n], i) /\ batches' = [batches EXCEPT ![n] = old]
    <2>1. batches[n] \in Batch
      BY <1>1, <1>6
    <2>2. old \in Batch
      BY <1>1, <1>3, <2>1 DEF Batch
    <2> HIDE DEF old
    <2>3. batches' \in Seq(Batch) /\ Len(batches') = n /\ batches'[n] = old
          /\ \A j \in 1..(n - 1) : batches'[j] = batches[j]
      BY <1>1, <1>6, <2>2
    <2>4. QED
      BY <1>1, <1>3, <1>6, <2>3 DEF i, t, old
  <1>7. QED
    BY <1>4, <1>5, <1>6

\* Every step keeps the size of the chunks.
LEMMA ChunkStep == ChunkInv /\ [Next]_vars => ChunkInv'
  <1> SUFFICES ASSUME ChunkInv, [Next]_vars PROVE ChunkInv'
    OBVIOUS
  <1> USE DEF ChunkInv
  <1>1. CASE Authorise
    BY <1>1 DEF Authorise, ItemsOK, OpenChunk, ChunkBound, listing
  <1>2. CASE ListPage
    BY <1>2 DEF ListPage, ItemsOK, OpenChunk, ChunkBound, listing
  <1>3. CASE ListFails
    BY <1>3 DEF ListFails, ItemsOK, OpenChunk, ChunkBound, listing
  <1>4. CASE Push
    BY <1>4 DEF Push, ItemsOK, OpenChunk, ChunkBound, listing
  <1>5. CASE FilterFile
    BY <1>5 DEF FilterFile, ItemsOK, OpenChunk, ChunkBound, listing
  <1>6. CASE ContentFails
    BY <1>6 DEF ContentFails, ItemsOK, OpenChunk, ChunkBound, listing
  <1>7. CASE KeepFile
    <2>1. PICK p \in Patches :
            /\ patch' = Append(patch, p)
            /\ \/ /\ EstimateTokens(p.chars) <= MaxChunkTokens
                  /\ chunks' = Append(chunks, [file |-> Len(patch) + 1, lo |-> 1,
                                               hi |-> Len(p.hunks), chars |-> p.chars])
                  /\ UNCHANGED <<at, hunk>>
               \/ at' = "split" /\ hunk' = 1 /\ UNCHANGED chunks
      BY <1>7 DEF KeepFile
    <2>2. UNCHANGED <<cur, batches>> /\ at = "file"
      BY <1>7 DEF KeepFile
    <2>3. p.chars \in Nat /\ Len(p.hunks) \in Nat /\ Len(p.hunks) > 0
      BY <2>1
    <2>4. patch' \in Seq(Patches) /\ patch' # <<>> /\ Len(patch) \in Nat
      <3>1. patch \in Seq(Patches)
        BY DEF ItemsOK
      <3>2. patch' \in Seq(Patches) /\ Len(patch) \in Nat /\ Len(patch') = Len(patch) + 1
        BY <2>1, <3>1
      <3>3. QED
        BY <3>2
    <2>5. CASE at' = "split" /\ hunk' = 1 /\ UNCHANGED chunks
      <3>1. cur = None
        BY <2>2 DEF OpenChunk
      <3>2. ItemsOK' /\ ChunkBound'
        BY <2>2, <2>4, <2>5 DEF ItemsOK, ChunkBound
      <3>3. OpenChunk'
        BY <2>2, <2>4, <2>5, <3>1 DEF OpenChunk
      <3>4. QED
        BY <3>2, <3>3
    <2>6. CASE /\ EstimateTokens(p.chars) <= MaxChunkTokens
               /\ chunks' = Append(chunks, [file |-> Len(patch) + 1, lo |-> 1,
                                            hi |-> Len(p.hunks), chars |-> p.chars])
               /\ UNCHANGED <<at, hunk>>
      <3> DEFINE c == [file |-> Len(patch) + 1, lo |-> 1, hi |-> Len(p.hunks), chars |-> p.chars]
      <3>1. c \in Chunk
        BY <2>3, <2>4 DEF Chunk
      <3>2. c.hi > c.lo => EstimateTokens(c.chars) <= MaxChunkTokens + (c.hi - c.lo)
        <4>1. EstimateTokens(p.chars) \in Nat
          BY <2>3, EstimateBounds
        <4>2. QED
          BY <2>3, <2>6, <4>1
      <3>3. chunks' = Append(chunks, c) /\ chunks \in Seq(Chunk)
        BY <2>6 DEF ItemsOK
      <3> HIDE DEF c
      <3>4. /\ chunks' \in Seq(Chunk) /\ Len(chunks') = Len(chunks) + 1
            /\ chunks'[Len(chunks) + 1] = c /\ \A i \in 1..Len(chunks) : chunks'[i] = chunks[i]
        BY <3>1, <3>3
      <3>5. \A i \in 1..Len(chunks') : i \in 1..Len(chunks) \/ i = Len(chunks) + 1
        BY <3>3, <3>4
      <3>6. ChunkBound'
        BY <3>2, <3>4, <3>5 DEF ChunkBound
      <3>7. ItemsOK' /\ OpenChunk'
        BY <2>2, <2>4, <2>6, <3>4 DEF ItemsOK, OpenChunk
      <3>8. QED
        BY <3>6, <3>7
    <2>7. QED
      BY <2>1, <2>5, <2>6
  <1>8. CASE SplitHunk
    <2> DEFINE h == Hunks[hunk]
               k == EstimateTokens(h)
    <2>1. /\ at = "split" /\ hunk <= Len(Hunks) /\ hunk >= 1 /\ hunk \in Nat
          /\ patch \in Seq(Patches) /\ patch # <<>> /\ cur \in Piece
          /\ UNCHANGED <<at, patch, batches>> /\ hunk' = hunk + 1
      BY <1>8 DEF SplitHunk, ItemsOK, OpenChunk
    <2>2. h \in Nat /\ k \in Nat /\ h <= 4 * k + 3
      <3>1. h \in Nat
        BY <2>1, HunkChars
      <3>2. QED
        BY <3>1, EstimateBounds
    <2>3. \/ cur = None /\ cur' = Alone(hunk) /\ UNCHANGED chunks
          \/ /\ cur # None /\ cur.tokens + k <= MaxChunkTokens
             /\ cur' = [lo |-> cur.lo, hi |-> hunk, chars |-> cur.chars + 1 + h,
                        tokens |-> cur.tokens + k]
             /\ UNCHANGED chunks
          \/ cur # None /\ chunks' = Flush /\ cur' = Alone(hunk)
      BY <1>8 DEF SplitHunk
    <2>4. /\ Alone(hunk) = [lo |-> hunk, hi |-> hunk, chars |-> h, tokens |-> k]
          /\ Alone(hunk) \in Piece /\ Alone(hunk) # None
      BY <2>1, <2>2 DEF Alone, Piece, None
    <2> HIDE DEF h, k
    <2>5. CASE cur' = Alone(hunk) /\ UNCHANGED chunks
      <3>1. ItemsOK'
        BY <2>1, <2>4, <2>5 DEF ItemsOK
      <3>2. OpenChunk'
        BY <2>1, <2>2, <2>4, <2>5 DEF OpenChunk
      <3>3. ChunkBound'
        BY <2>5 DEF ChunkBound
      <3>4. QED
        BY <3>1, <3>2, <3>3
    <2>6. CASE cur # None /\ chunks' = Flush /\ cur' = Alone(hunk)
      <3>1. chunks' \in Seq(Chunk) /\ ChunkBound'
        BY <2>1, <2>6, FlushKeeps DEF ChunkBound
      <3>2. ItemsOK' /\ OpenChunk'
        BY <2>1, <2>2, <2>4, <2>6, <3>1 DEF ItemsOK, OpenChunk
      <3>3. QED
        BY <3>1, <3>2
    <2>7. CASE /\ cur # None /\ cur.tokens + k <= MaxChunkTokens
               /\ cur' = [lo |-> cur.lo, hi |-> hunk, chars |-> cur.chars + 1 + h,
                          tokens |-> cur.tokens + k]
               /\ UNCHANGED chunks
      <3>1. PICK l \in Nat, u \in Nat, c \in Nat, t \in Nat :
               cur.lo = l /\ cur.hi = u /\ cur.chars = c /\ cur.tokens = t
        BY <2>1 DEF Piece
      <3>2. cur.hi = hunk - 1
        BY <2>1, <2>7 DEF OpenChunk
      <3>3. /\ cur'.lo = l /\ cur'.hi = hunk /\ cur'.chars = c + 1 + h /\ cur'.tokens = t + k
            /\ cur' \in Piece /\ cur' # None
        BY <2>1, <2>2, <2>7, <3>1 DEF Piece, None
      <3>4. 1 <= l /\ l <= u /\ u = hunk - 1 /\ c <= 4 * t + 4 * (u - l) + 3 /\ t + k <= MaxChunkTokens
        BY <2>7, <3>1, <3>2 DEF OpenChunk
      <3>5. l <= hunk /\ c + 1 + h <= 4 * (t + k) + 4 * (hunk - l) + 3
        BY <2>1, <2>2, <3>1, <3>4
      <3>6. ItemsOK'
        <4>1. UNCHANGED chunks /\ hunk' \in Nat
          BY <2>1, <2>7
        <4>2. QED
          BY <2>1, <3>3, <4>1 DEF ItemsOK
      <3>7. OpenChunk'
        BY <2>1, <3>3, <3>4, <3>5 DEF OpenChunk
      <3>8. ChunkBound'
        BY <2>7 DEF ChunkBound
      <3>9. QED
        BY <3>6, <3>7, <3>8
    <2>8. QED
      BY <2>3, <2>5, <2>6, <2>7
  <1>9. CASE SplitEnds
    <2>1. /\ at = "split" /\ hunk > Len(Hunks) /\ patch \in Seq(Patches) /\ patch # <<>>
          /\ hunk \in Nat
      BY <1>9 DEF SplitEnds, ItemsOK, OpenChunk
    <2>2. cur # None
      BY <2>1, HunkChars DEF OpenChunk
    <2>3. chunks' = Flush /\ cur' = None /\ hunk' = 0 /\ at' = "file" /\ UNCHANGED <<patch, batches>>
      BY <1>9 DEF SplitEnds
    <2>4. chunks' \in Seq(Chunk) /\ ChunkBound'
      BY <2>1, <2>2, <2>3, FlushKeeps DEF ChunkBound
    <2>5. QED
      BY <2>1, <2>3, <2>4 DEF ItemsOK, OpenChunk, None, Piece
  <1>10. CASE FilesEnd
    BY <1>10 DEF FilesEnd, ItemsOK, OpenChunk, ChunkBound, listing
  <1>11. CASE BatchChunk
    <2>1. /\ at = "batch" /\ Batched < Len(chunks) /\ chunks \in Seq(Chunk) /\ batches \in Seq(Batch)
          /\ UNCHANGED <<at, patch, hunk, cur, chunks>>
      BY <1>11 DEF BatchChunk, ItemsOK
    <2>2. batches' \in Seq(Batch)
      BY <1>11, <2>1, BatchGrows
    <2>3. QED
      BY <2>1, <2>2 DEF ItemsOK, OpenChunk, ChunkBound
  <1>12. CASE BatchesEnd
    BY <1>12 DEF BatchesEnd, ItemsOK, OpenChunk, ChunkBound, listing
  <1>13. CASE UNCHANGED vars
    BY <1>13 DEF vars, ItemsOK, OpenChunk, ChunkBound
  <1>14. QED
    BY <1>1, <1>2, <1>3, <1>4, <1>5, <1>6, <1>7, <1>8, <1>9, <1>10, <1>11, <1>12, <1>13 DEF Next

\* However the hunks of a patch are sized, a chunk of several hunks exceeds
\* MaxChunkTokens by less than a token for each hunk.
THEOREM IntakeChunkBound == Spec => []ChunkBound
  <1>1. ChunkInv => ChunkBound
    BY DEF ChunkInv
  <1>2. QED
    BY <1>1, ChunkInitial, ChunkStep, PTL DEF Spec

BatchInv == ChunkInv /\ BatchBound

\* Every step keeps the order and the limits of the batches.
LEMMA BatchStep == BatchInv /\ [Next]_vars => BatchInv'
  <1> SUFFICES ASSUME BatchInv, [Next]_vars PROVE BatchBound'
    BY ChunkStep DEF BatchInv
  <1>1. ItemsOK /\ BatchBound /\ batches \in Seq(Batch) /\ chunks \in Seq(Chunk)
    BY DEF BatchInv, ChunkInv, ItemsOK
  <1>2. CASE BatchChunk
    <2> DEFINE i == Batched + 1
               n == Len(batches)
               t == Tokens(i)
    <2>1. at' # "done" /\ n \in Nat
      BY <1>1, <1>2 DEF BatchChunk
    <2>2. /\ batches' \in Seq(Batch) /\ i \in Nat /\ t \in Nat
          /\ \/ /\ n > 0 => Full(batches[n], i)
                /\ Len(batches') = n + 1
                /\ batches'[n + 1] = [lo |-> i, hi |-> i, tokens |-> t]
                /\ \A j \in 1..n : batches'[j] = batches[j]
             \/ /\ n > 0 /\ ~ Full(batches[n], i)
                /\ Len(batches') = n
                /\ batches'[n] = [lo |-> batches[n].lo, hi |-> i,
                                  tokens |-> batches[n].tokens + t]
                /\ \A j \in 1..(n - 1) : batches'[j] = batches[j]
      BY <1>1, <1>2, BatchGrows
    <2>3. i = (IF n = 0 THEN 1 ELSE batches[n].hi + 1)
      BY <1>1, <2>1 DEF Batched
    <2>4. n > 0 /\ ~ Full(batches[n], i) =>
             batches[n].hi - batches[n].lo + 1 < MaxChunks /\ batches[n].tokens + t <= MaxBatchTokens
      <3> SUFFICES ASSUME n > 0, ~ Full(batches[n], i)
                   PROVE  /\ batches[n].hi - batches[n].lo + 1 < MaxChunks
                          /\ batches[n].tokens + t <= MaxBatchTokens
        OBVIOUS
      <3>1. batches[n] \in Batch
        BY <1>1, <2>1
      <3>2. QED
        BY <2>2, <3>1 DEF Full, Batch
    <2> HIDE DEF i, t
    <2>5. ASSUME NEW k \in 1..Len(batches')
          PROVE  LET b == batches'[k] IN
                 /\ b.lo <= b.hi /\ b.hi - b.lo < MaxChunks
                 /\ b.lo = (IF k = 1 THEN 1 ELSE batches'[k - 1].hi + 1)
                 /\ b.tokens <= MaxBatchTokens \/ b.lo = b.hi
      <3>1. CASE k \in 1..n /\ (k = n => batches'[k] = batches[k])
        <4>1. batches'[k] = batches[k] /\ (k # 1 => batches'[k - 1] = batches[k - 1])
          BY <2>1, <2>2, <3>1
        <4>2. QED
          BY <1>1, <3>1, <4>1 DEF BatchBound
      <3>2. CASE k = n + 1 /\ Len(batches') = n + 1
        <4>1. /\ batches'[k] = [lo |-> i, hi |-> i, tokens |-> t]
              /\ k # 1 => batches'[k - 1] = batches[n] /\ n # 0
              /\ k = 1 => n = 0
          BY <2>1, <2>2, <3>2
        <4>2. QED
          BY <2>1, <2>2, <2>3, <3>2, <4>1
      <3>3. CASE k = n /\ Len(batches') = n /\ n > 0 /\ ~ Full(batches[n], i)
        <4>1. /\ batches'[k] = [lo |-> batches[n].lo, hi |-> i, tokens |-> batches[n].tokens + t]
              /\ k # 1 => batches'[k - 1] = batches[k - 1]
          BY <2>1, <2>2, <3>3
        <4>2. /\ batches[n] \in Batch /\ batches[n].lo <= batches[n].hi
              /\ batches[n].lo = (IF k = 1 THEN 1 ELSE batches[k - 1].hi + 1)
          BY <1>1, <2>1, <3>3 DEF BatchBound
        <4>3. batches[n].lo \in Nat /\ batches[n].hi \in Nat
          BY <4>2 DEF Batch
        <4>4. i = batches[n].hi + 1 /\ i \in Nat
          BY <2>1, <2>2, <2>3, <3>3
        <4>5. batches[n].lo <= i /\ i - batches[n].lo < MaxChunks /\ batches[n].tokens + t <= MaxBatchTokens
          <5>1. /\ batches[n].hi - batches[n].lo + 1 < MaxChunks
                /\ batches[n].tokens + t <= MaxBatchTokens
            BY <2>4, <3>3
          <5>2. batches[n].lo <= batches[n].hi + 1
            BY <4>2, <4>3
          <5>3. (batches[n].hi + 1) - batches[n].lo < MaxChunks
            BY <4>3, <5>1
          <5>4. QED
            BY <4>4, <5>1, <5>2, <5>3
        <4>6. QED
          BY <4>1, <4>2, <4>5
      <3>4. QED
        BY <2>1, <2>2, <3>1, <3>2, <3>3
    <2>6. QED
      BY <2>1, <2>5 DEF BatchBound
  <1>3. CASE BatchesEnd
    BY <1>1, <1>3 DEF BatchesEnd, BatchBound, Batched
  <1>4. CASE Authorise \/ ListPage \/ ListFails \/ Push
    BY <1>1, <1>4 DEF Authorise, ListPage, ListFails, Push, BatchBound, Batched
  <1>5. CASE FilterFile \/ ContentFails \/ KeepFile
    BY <1>1, <1>5 DEF FilterFile, ContentFails, KeepFile, BatchBound, Batched
  <1>6. CASE SplitHunk \/ SplitEnds \/ FilesEnd
    BY <1>1, <1>6 DEF SplitHunk, SplitEnds, FilesEnd, BatchBound, Batched
  <1>7. CASE UNCHANGED vars
    BY <1>1, <1>7 DEF vars, BatchBound, Batched
  <1>8. QED
    BY <1>2, <1>3, <1>4, <1>5, <1>6, <1>7 DEF Next

\* Every batch starts where the one before it ended, keeps both limits unless
\* it is one chunk that is too large by itself, and at the end every chunk is
\* in a batch.
THEOREM IntakeBatchBound == Spec => []BatchBound
  <1>1. Init => BatchInv
    BY ChunkInitial DEF Init, BatchInv, BatchBound
  <1>2. BatchInv => BatchBound
    BY DEF BatchInv
  <1>3. QED
    BY <1>1, <1>2, BatchStep, PTL DEF Spec

\* Before the last page, without a push, the listing is the pages asked for.
PagesListed ==
    /\ pr \in PRs /\ page \in Nat \ {0} /\ listed \in Seq(File) /\ pushes \in Nat
    /\ at \in {"auth", "list"} /\ pushes = 0 =>
         /\ Len(listed) = (page - 1) * PerPage /\ Len(listed) <= Len(pr)
         /\ \A i \in 1..Len(listed) : listed[i] = pr[i]

ListInv == PagesListed /\ ListedExactly

\* Full pages hold multiples of PerPage.
LEMMA PageTimes ==
  ASSUME NEW p \in Nat \ {0}
  PROVE  /\ (p - 1) * PerPage \in Nat /\ ((p + 1) - 1) * PerPage = p * PerPage
         /\ p * PerPage = (p - 1) * PerPage + PerPage
  OBVIOUS

\* Every step keeps the listing.
LEMMA ListStep == ListInv /\ [Next]_vars => ListInv'
  <1> SUFFICES ASSUME ListInv, [Next]_vars PROVE ListInv'
    OBVIOUS
  <1> USE DEF ListInv
  <1>1. CASE ListPage
    <2> DEFINE k == (page - 1) * PerPage
               end == Lesser(page * PerPage, Len(pr))
    <2>1. /\ at = "list" /\ pr \in Seq(File) /\ page \in Nat \ {0} /\ listed \in Seq(File)
          /\ pushes \in Nat /\ UNCHANGED <<pr, pushes>> /\ listed' = listed \o PageItems
          /\ pr \in PRs
      BY <1>1 DEF ListPage, PagesListed
    <2>2. k \in Nat /\ page * PerPage = k + PerPage /\ ((page + 1) - 1) * PerPage = k + PerPage
      BY <2>1, PageTimes
    <2>3. PageItems = SubSeq(pr, k + 1, end)
      BY DEF PageItems
    <2>4. end \in Nat /\ end <= Len(pr) /\ end <= k + PerPage /\ end \in {k + PerPage, Len(pr)}
      BY <2>1, <2>2 DEF Lesser
    <2> HIDE DEF k, end
    <2>5. PageItems \in Seq(File)
      BY <2>1, <2>2, <2>3, <2>4
    <2>6. listed' \in Seq(File) /\ page' \in Nat \ {0}
      BY <1>1, <2>1, <2>5 DEF ListPage
    <2>7. CASE pushes # 0
      BY <2>1, <2>6, <2>7 DEF PagesListed, ListedExactly
    <2>8. CASE pushes = 0
      <3>1. Len(listed) = k /\ k <= Len(pr) /\ \A i \in 1..k : listed[i] = pr[i]
        BY <2>1, <2>8 DEF PagesListed, k
      <3>2. Len(PageItems) = end - k /\ \A i \in 1..(end - k) : PageItems[i] = pr[k + i]
        BY <2>1, <2>2, <2>3, <2>4, <3>1
      <3>3. Len(listed') = end
        <4>1. Len(listed') = Len(listed) + Len(PageItems)
          BY <2>1, <2>5
        <4>2. QED
          BY <2>2, <2>4, <3>1, <3>2, <4>1
      <3>4. ASSUME NEW i \in 1..end PROVE listed'[i] = pr[i]
        <4>1. CASE i <= k
          BY <2>1, <2>2, <2>4, <2>5, <3>1, <4>1
        <4>2. CASE i > k
          <5>1. i - k \in 1..(end - k) /\ k + (i - k) = i
            BY <2>2, <2>4, <4>2
          <5>2. listed'[i] = PageItems[i - k]
            BY <2>1, <2>2, <2>4, <2>5, <3>1, <3>2, <4>2, <5>1
          <5>3. QED
            BY <3>2, <5>1, <5>2
        <4>3. QED
          BY <2>2, <2>4, <4>1, <4>2
      <3>5. CASE Len(PageItems) < PerPage /\ at' = "file" /\ UNCHANGED page
        <4>1. end = Len(pr)
          BY <2>1, <2>2, <2>4, <3>2, <3>5
        <4>2. listed' = pr
          BY <2>1, <2>6, <3>3, <3>4, <4>1, SeqEqual
        <4>3. QED
          BY <2>1, <2>6, <3>5, <4>2 DEF PagesListed, ListedExactly
      <3>6. CASE Len(PageItems) = PerPage /\ page' = page + 1 /\ UNCHANGED at
        <4>1. end = k + PerPage
          BY <2>1, <2>2, <2>4, <3>2, <3>6
        <4>2. (page' - 1) * PerPage = end
          BY <2>1, <2>2, <3>6, <4>1
        <4>3. QED
          BY <2>1, <2>4, <2>6, <3>3, <3>4, <3>6, <4>2 DEF PagesListed, ListedExactly
      <3>7. QED
        BY <1>1, <3>5, <3>6 DEF ListPage
    <2>9. QED
      BY <2>7, <2>8
  <1>2. CASE Push
    BY <1>2 DEF Push, PagesListed, ListedExactly
  <1>3. CASE Authorise \/ ListFails
    BY <1>3 DEF Authorise, ListFails, PagesListed, ListedExactly, listing
  <1>4. CASE FilterFile \/ ContentFails \/ KeepFile
    BY <1>4 DEF FilterFile, ContentFails, KeepFile, PagesListed, ListedExactly, listing
  <1>5. CASE SplitHunk \/ SplitEnds \/ FilesEnd
    BY <1>5 DEF SplitHunk, SplitEnds, FilesEnd, PagesListed, ListedExactly, listing
  <1>6. CASE BatchChunk \/ BatchesEnd
    BY <1>6 DEF BatchChunk, BatchesEnd, PagesListed, ListedExactly, listing
  <1>7. CASE UNCHANGED vars
    BY <1>7 DEF vars, PagesListed, ListedExactly
  <1>8. QED
    BY <1>1, <1>2, <1>3, <1>4, <1>5, <1>6, <1>7 DEF Next

\* For every page size and any number of files, also when the last page is
\* full, the listing of a pull request that does not change is its file list.
THEOREM IntakeListedExactly == Spec => []ListedExactly
  <1>1. Init => ListInv
    BY DEF Init, ListInv, PagesListed, ListedExactly
  <1>2. ListInv => ListedExactly
    BY DEF ListInv
  <1>3. QED
    BY <1>1, <1>2, ListStep, PTL DEF Spec

IntakeInv == ChunkInv /\ PagesListed /\ TypeOK

\* Every step keeps the types.
LEMMA TypeStep == IntakeInv /\ [Next]_vars /\ ChunkInv' /\ PagesListed' => TypeOK'
  <1> SUFFICES ASSUME IntakeInv, [Next]_vars, ChunkInv', PagesListed' PROVE TypeOK'
    OBVIOUS
  <1>1. /\ at' \in {"auth", "list", "file", "split", "batch", "done", "failed"}
        /\ patch' \in Seq(Patches) /\ hunk' \in Nat /\ cur' \in Piece
        /\ chunks' \in Seq(Chunk) /\ batches' \in Seq(Batch)
        /\ pr' \in PRs /\ page' \in Nat \ {0} /\ listed' \in Seq(File)
        /\ at' # "split" => cur' = None
    BY DEF ChunkInv, ItemsOK, OpenChunk, PagesListed
  <1>2. /\ patch \in Seq(Patches) /\ listed \in Seq(File) /\ Len(patch) <= Len(listed)
        /\ pushes \in 0..MaxPushes /\ filtered \subseteq [file : File, why : Trait]
    BY DEF IntakeInv, TypeOK
  <1> SUFFICES /\ pushes' \in 0..MaxPushes /\ Len(patch') <= Len(listed')
               /\ filtered' \subseteq [file : File, why : Trait]
    BY <1>1 DEF TypeOK
  <1>3. CASE FilterFile
    <2>1. PICK p \in Patches, n \in 1..7 :
            /\ patch' = Append(patch, p)
            /\ filtered' = {x \in filtered : x.file # Current}
                             \cup {[file |-> Current, why |-> Reasons[n]]}
      BY <1>3 DEF FilterFile
    <2>2. Len(patch) < Len(listed) /\ UNCHANGED <<pushes, listed>>
      BY <1>3 DEF FilterFile, listing
    <2>3. Current \in File
      BY <1>2, <2>2 DEF Current
    <2>4. Reasons[n] \in Trait
      BY DEF Trait
    <2>5. Len(patch') = Len(patch) + 1
      BY <1>2, <2>1
    <2>6. filtered' \subseteq [file : File, why : Trait]
      BY <1>2, <2>1, <2>3, <2>4
    <2>7. QED
      BY <1>2, <2>2, <2>5, <2>6
  <1>4. CASE KeepFile
    <2>1. /\ \E p \in Patches : patch' = Append(patch, p)
          /\ Len(patch) < Len(listed) /\ UNCHANGED <<pushes, listed, filtered>>
      BY <1>4 DEF KeepFile, listing
    <2>2. Len(patch') = Len(patch) + 1
      BY <1>2, <2>1
    <2>3. QED
      BY <1>2, <2>1, <2>2
  <1>5. CASE ListPage
    <2>1. listed' = listed \o PageItems /\ UNCHANGED <<pushes, patch, filtered>>
      BY <1>5 DEF ListPage
    <2>2. PageItems \in Seq(File)
      <3>1. pr \in Seq(File) /\ page \in Nat \ {0}
        BY DEF IntakeInv, TypeOK
      <3>2. (page - 1) * PerPage + 1 \in Nat \ {0} /\ page * PerPage \in Nat
        BY <3>1, PageTimes
      <3>3. Lesser(page * PerPage, Len(pr)) \in Nat /\ Lesser(page * PerPage, Len(pr)) <= Len(pr)
        BY <3>1, <3>2 DEF Lesser
      <3>4. QED
        BY <3>1, <3>2, <3>3 DEF PageItems
    <2>3. Len(listed') = Len(listed) + Len(PageItems) /\ Len(PageItems) \in Nat
      BY <1>2, <2>1, <2>2
    <2>4. QED
      BY <1>2, <2>1, <2>3
  <1>6. CASE Push
    BY <1>2, <1>6 DEF Push
  <1>7. CASE Authorise \/ ListFails \/ ContentFails \/ FilesEnd
    BY <1>2, <1>7 DEF Authorise, ListFails, ContentFails, FilesEnd, listing
  <1>8. CASE SplitHunk \/ SplitEnds \/ BatchChunk \/ BatchesEnd
    BY <1>2, <1>8 DEF SplitHunk, SplitEnds, BatchChunk, BatchesEnd, listing
  <1>9. CASE UNCHANGED vars
    BY <1>2, <1>9 DEF vars
  <1>10. QED
    BY <1>3, <1>4, <1>5, <1>6, <1>7, <1>8, <1>9 DEF Next

\* Type correctness of the intake, with no open chunk outside the splitting of
\* a file.
THEOREM IntakeTypeOK == Spec => []TypeOK
  <1>1. Init => ChunkInv /\ ListInv /\ TypeOK
    BY ChunkInitial DEF Init, ListInv, PagesListed, ListedExactly, TypeOK, None, Piece
  <1>2. ChunkInv /\ ListInv /\ TypeOK /\ [Next]_vars => (ChunkInv /\ ListInv /\ TypeOK)'
    BY ChunkStep, ListStep, TypeStep DEF IntakeInv, ListInv
  <1>3. QED
    BY <1>1, <1>2, PTL DEF Spec

\* File and last hunk of the chunk before chunk i, zero for the first one.
FileBefore(i) == IF i = 1 THEN 0 ELSE chunks[i - 1].file
HunkBefore(i) == IF i = 1 THEN 0 ELSE chunks[i - 1].hi

\* A chunk is an interval of hunks of a file that is looked at and analysed,
\* and goes on where the chunk before it ended.
ChunkPlaced(i) ==
    /\ chunks[i].file \in 1..Len(patch) /\ Analysed(chunks[i].file)
    /\ chunks[i].lo <= chunks[i].hi /\ chunks[i].hi <= LastHunk(chunks[i].file)
    /\ Follows(chunks[i].file, chunks[i].lo, FileBefore(i), HunkBefore(i))

\* Between two files all the files looked at are in chunks up to their last
\* hunk, or filtered; within a file the open chunk, or the first hunk, is next.
NextPlace ==
    LET n == Len(chunks) + 1
    IN  /\ at # "split" => /\ FileBefore(n) > 0 => HunkBefore(n) = LastHunk(FileBefore(n))
                           /\ \A f \in (FileBefore(n) + 1)..Len(patch) : ~ Analysed(f)
        /\ at = "split" => /\ Analysed(Len(patch)) /\ hunk <= LastHunk(Len(patch)) + 1
                           /\ Follows(Len(patch), IF cur = None THEN 1 ELSE cur.lo,
                                      FileBefore(n), HunkBefore(n))

\* The file being split is the only one whose last hunk may be missing.
FilesCovered ==
    \A f \in 1..Len(patch) : Analysed(f) =>
       \/ at = "split" /\ f = Len(patch)
       \/ \E i \in 1..Len(chunks) : chunks[i].file = f /\ chunks[i].hi = LastHunk(f)

\* The names with a reason are those of the filtered files.
ReasonsGiven ==
    /\ \A f \in 1..Len(patch) : ~ Analysed(f) => \E x \in filtered : x.file = listed[f]
    /\ \A x \in filtered : \E f \in 1..Len(patch) : ~ Analysed(f) /\ x.file = listed[f]

Partition ==
    /\ \A i \in 1..Len(chunks) : ChunkPlaced(i)
    /\ NextPlace /\ FilesCovered /\ ReasonsGiven
    /\ at \in {"batch", "done"} => Len(patch) = Len(listed)

\* What is said of the files looked at so far.
SameFiles ==
    /\ Len(patch) \in Nat /\ Len(patch') \in Nat /\ Len(patch) <= Len(patch')
    /\ \A f \in 1..Len(patch) : Analysed(f)' = Analysed(f) /\ LastHunk(f)' = LastHunk(f)

\* The next file looked at changes nothing of the files before it.
LEMMA PatchGrows ==
  ASSUME patch \in Seq(Patches), NEW p \in Patches, patch' = Append(patch, p)
  PROVE  /\ SameFiles /\ Len(patch') = Len(patch) + 1 /\ LastHunk(Len(patch))' = Len(p.hunks)
         /\ Analysed(Len(patch))' <=> p.traits = {}
  <1>1. /\ Len(patch') = Len(patch) + 1 /\ Len(patch) \in Nat /\ patch'[Len(patch')] = p
        /\ \A f \in 1..Len(patch) : patch'[f] = patch[f]
    OBVIOUS
  <1>2. QED
    BY <1>1 DEF SameFiles, Analysed, LastHunk

\* While the files stay the same, what follows a hunk goes on following it.
LEMMA FollowsKept ==
  ASSUME SameFiles, NEW g \in 1..Len(patch), NEW l, NEW b \in 0..Len(patch), NEW h,
         Follows(g, l, b, h)
  PROVE  Follows(g, l, b, h)'
  <1>1. b > 0 => LastHunk(b)' = LastHunk(b)
    BY DEF SameFiles
  <1>2. ASSUME NEW f \in (b + 1)..(g - 1) PROVE Analysed(f)' = Analysed(f)
    <2>1. f \in 1..Len(patch)
      BY DEF SameFiles
    <2>2. QED
      BY <2>1 DEF SameFiles
  <1>3. QED
    BY <1>1, <1>2 DEF Follows

\* The chunk before is one of a file looked at.
LEMMA BeforeOK ==
  ASSUME chunks \in Seq(Chunk), Len(patch) \in Nat, \A i \in 1..Len(chunks) : ChunkPlaced(i),
         NEW i \in 1..(Len(chunks) + 1)
  PROVE  FileBefore(i) \in 0..Len(patch) /\ HunkBefore(i) \in Nat
  <1>1. CASE i = 1
    BY <1>1 DEF FileBefore, HunkBefore
  <1>2. CASE i # 1
    <2>1. i - 1 \in 1..Len(chunks)
      BY <1>2
    <2>2. chunks[i - 1] \in Chunk /\ chunks[i - 1].file \in 1..Len(patch)
      BY <2>1 DEF ChunkPlaced
    <2>3. QED
      BY <1>2, <2>2 DEF FileBefore, HunkBefore, Chunk
  <1>3. QED
    BY <1>1, <1>2

\* A step that leaves the chunks up to i, and what is said of their files,
\* leaves the place of chunk i.
LEMMA PlacedKept ==
  ASSUME SameFiles, chunks \in Seq(Chunk), \A i \in 1..Len(chunks) : ChunkPlaced(i),
         \A i \in 1..Len(chunks) : chunks'[i] = chunks[i],
         NEW i \in 1..Len(chunks)
  PROVE  ChunkPlaced(i)'
  <1>1. chunks'[i] = chunks[i] /\ (i # 1 => chunks'[i - 1] = chunks[i - 1])
    OBVIOUS
  <1>2. FileBefore(i)' = FileBefore(i) /\ HunkBefore(i)' = HunkBefore(i)
    BY <1>1 DEF FileBefore, HunkBefore
  <1>3. FileBefore(i) \in 0..Len(patch) /\ Len(patch) \in Nat
    BY BeforeOK DEF SameFiles
  <1>4. PICK g, l, u, b, h : /\ chunks[i].file = g /\ chunks[i].lo = l /\ chunks[i].hi = u
                             /\ FileBefore(i) = b /\ HunkBefore(i) = h
    OBVIOUS
  <1>5. /\ g \in 1..Len(patch) /\ Analysed(g) /\ l <= u /\ u <= LastHunk(g)
        /\ Follows(g, l, b, h)
    BY <1>4 DEF ChunkPlaced
  <1>6. Follows(g, l, b, h)'
    BY <1>3, <1>4, <1>5, FollowsKept
  <1>7. Analysed(g)' /\ LastHunk(g)' = LastHunk(g) /\ g \in 1..Len(patch')
    BY <1>5 DEF SameFiles
  <1>8. QED
    BY <1>1, <1>2, <1>4, <1>5, <1>6, <1>7 DEF ChunkPlaced

\* A chunk that goes on where the last one ended can be appended.
LEMMA AppendPlaced ==
  ASSUME SameFiles, chunks \in Seq(Chunk), \A i \in 1..Len(chunks) : ChunkPlaced(i),
         NEW c \in Chunk, chunks' = Append(chunks, c),
         c.file \in 1..Len(patch'), Analysed(c.file)', c.lo <= c.hi, c.hi <= LastHunk(c.file)',
         NEW b, NEW h, b = FileBefore(Len(chunks) + 1), h = HunkBefore(Len(chunks) + 1),
         Follows(c.file, c.lo, b, h)'
  PROVE  /\ \A i \in 1..Len(chunks') : ChunkPlaced(i)'
         /\ FileBefore(Len(chunks) + 1)' = c.file /\ HunkBefore(Len(chunks) + 1)' = c.hi
  <1>1. /\ Len(chunks') = Len(chunks) + 1 /\ chunks'[Len(chunks) + 1] = c /\ Len(chunks) \in Nat
        /\ \A i \in 1..Len(chunks) : chunks'[i] = chunks[i]
    OBVIOUS
  <1>2. ASSUME NEW i \in 1..Len(chunks') PROVE ChunkPlaced(i)'
    <2>1. CASE i \in 1..Len(chunks)
      BY <1>1, <2>1, PlacedKept
    <2>2. CASE i = Len(chunks) + 1
      <3>1. chunks'[i] = c /\ (i # 1 => chunks'[i - 1] = chunks[i - 1])
        BY <1>1, <2>2
      <3>2. FileBefore(i)' = b /\ HunkBefore(i)' = h
        BY <2>2, <3>1 DEF FileBefore, HunkBefore
      <3>3. QED
        BY <3>1, <3>2 DEF ChunkPlaced
    <2>3. QED
      BY <1>1, <2>1, <2>2
  <1>3. FileBefore(Len(chunks) + 1)' = c.file /\ HunkBefore(Len(chunks) + 1)' = c.hi
    BY <1>1 DEF FileBefore, HunkBefore
  <1>4. QED
    BY <1>2, <1>3

\* The file is kept as one chunk, or is going to be split.
LEMMA KeepPartition ==
  ASSUME IntakeInv, Partition, KeepFile
  PROVE  Partition'
  <1>0. PICK n, k : n = Len(chunks) + 1 /\ k = Len(patch) + 1
    OBVIOUS
  <1>1. PICK p \in Patches :
          /\ p.traits = {} /\ patch' = Append(patch, p)
          /\ \/ /\ chunks' = Append(chunks, [file |-> k, lo |-> 1, hi |-> Len(p.hunks),
                                             chars |-> p.chars])
                /\ UNCHANGED <<at, hunk>>
             \/ at' = "split" /\ hunk' = 1 /\ UNCHANGED chunks
    BY <1>0 DEF KeepFile, ShouldFilterFile
  <1>2. /\ at = "file" /\ Len(patch) < Len(listed) /\ UNCHANGED <<listed, filtered, cur>>
        /\ patch \in Seq(Patches) /\ chunks \in Seq(Chunk) /\ cur = None
    BY DEF KeepFile, listing, IntakeInv, TypeOK
  <1>3. /\ SameFiles /\ Len(patch') = k /\ LastHunk(k)' = Len(p.hunks) /\ Analysed(k)'
        /\ Len(patch) \in Nat
    BY <1>0, <1>1, <1>2, PatchGrows DEF SameFiles, LastHunk, Analysed
  <1>4. Len(p.hunks) \in Nat /\ Len(p.hunks) > 0 /\ p.chars \in Nat /\ Len(chunks) \in Nat
    BY <1>1, <1>2
  <1>5. PICK b, h : b = FileBefore(n) /\ h = HunkBefore(n)
    OBVIOUS
  <1>6. b \in 0..Len(patch) /\ h \in Nat
    BY <1>0, <1>2, <1>3, <1>4, <1>5, BeforeOK DEF Partition
  <1>7. (b > 0 => h = LastHunk(b)) /\ \A f \in (b + 1)..Len(patch) : ~ Analysed(f)
    BY <1>0, <1>2, <1>5 DEF Partition, NextPlace
  <1>8. Follows(k, 1, b, h)'
    <2>1. b > 0 => h = LastHunk(b)'
      BY <1>3, <1>6, <1>7 DEF SameFiles
    <2>2. ASSUME NEW f \in (b + 1)..(k - 1) PROVE ~ Analysed(f)'
      <3>1. f \in 1..Len(patch) /\ f \in (b + 1)..Len(patch)
        BY <1>0, <1>3, <1>6
      <3>2. QED
        BY <1>3, <1>7, <3>1 DEF SameFiles
    <2>3. k > b
      BY <1>0, <1>3, <1>6
    <2>4. QED
      BY <2>1, <2>2, <2>3 DEF Follows
  <1>9. ReasonsGiven'
    <2>1. \A f \in 1..Len(patch') : ~ Analysed(f)' => f \in 1..Len(patch) /\ ~ Analysed(f)
      BY <1>0, <1>3 DEF SameFiles
    <2>2. \A f \in 1..Len(patch) : f \in 1..Len(patch') /\ Analysed(f)' = Analysed(f)
      BY <1>3 DEF SameFiles
    <2>3. QED
      BY <1>2, <2>1, <2>2 DEF Partition, ReasonsGiven
  <1>10. \A f \in 1..Len(patch') : f = k \/ f \in 1..Len(patch)
    BY <1>0, <1>3
  <1>11. ASSUME NEW f \in 1..Len(patch), Analysed(f)'
         PROVE  \E i \in 1..Len(chunks) : chunks[i].file = f /\ chunks[i].hi = LastHunk(f)'
    <2>1. Analysed(f) /\ LastHunk(f)' = LastHunk(f)
      BY <1>3, <1>11 DEF SameFiles
    <2>2. \E i \in 1..Len(chunks) : chunks[i].file = f /\ chunks[i].hi = LastHunk(f)
      BY <1>2, <2>1 DEF Partition, FilesCovered
    <2>3. QED
      BY <2>1, <2>2
  <1>12. CASE at' = "split" /\ hunk' = 1 /\ UNCHANGED chunks
    <2>1. \A i \in 1..Len(chunks') : ChunkPlaced(i)'
      BY <1>2, <1>3, <1>12, PlacedKept DEF Partition
    <2>2. NextPlace'
      <3>1. FileBefore(n)' = b /\ HunkBefore(n)' = h /\ n = Len(chunks') + 1
        BY <1>0, <1>5, <1>12 DEF FileBefore, HunkBefore
      <3>2. QED
        BY <1>2, <1>3, <1>4, <1>8, <1>12, <3>1 DEF NextPlace
    <2>3. FilesCovered'
      BY <1>3, <1>10, <1>11, <1>12 DEF FilesCovered
    <2>4. QED
      BY <1>9, <1>12, <2>1, <2>2, <2>3 DEF Partition
  <1>13. CASE /\ chunks' = Append(chunks, [file |-> k, lo |-> 1, hi |-> Len(p.hunks),
                                           chars |-> p.chars])
              /\ UNCHANGED <<at, hunk>>
    <2> DEFINE c == [file |-> k, lo |-> 1, hi |-> Len(p.hunks), chars |-> p.chars]
    <2>1. /\ c \in Chunk /\ c.file = k /\ c.lo = 1 /\ c.hi = Len(p.hunks)
          /\ chunks' = Append(chunks, c)
      BY <1>3, <1>4, <1>13 DEF Chunk
    <2> HIDE DEF c
    <2>2. c.file \in 1..Len(patch') /\ c.lo <= c.hi
      BY <1>0, <1>3, <1>4, <2>1
    <2>3. Analysed(c.file)' /\ c.hi <= LastHunk(c.file)' /\ Follows(c.file, c.lo, b, h)'
      BY <1>3, <1>4, <1>8, <2>1
    <2>4. /\ \A i \in 1..Len(chunks') : ChunkPlaced(i)'
          /\ FileBefore(Len(chunks) + 1)' = c.file /\ HunkBefore(Len(chunks) + 1)' = c.hi
      BY <1>0, <1>2, <1>3, <1>5, <2>1, <2>2, <2>3, AppendPlaced DEF Partition
    <2>5. NextPlace'
      <3>1. \A f \in (k + 1)..Len(patch') : FALSE
        BY <1>3
      <3>2. LastHunk(FileBefore(Len(chunks) + 1))' = Len(p.hunks)
        BY <1>3, <2>1, <2>4 DEF LastHunk
      <3>3. QED
        BY <1>2, <1>3, <1>13, <2>1, <2>4, <3>1, <3>2 DEF NextPlace
    <2>6. FilesCovered'
      <3>1. /\ Len(chunks') = Len(chunks) + 1 /\ chunks'[Len(chunks) + 1] = c
            /\ \A i \in 1..Len(chunks) : i \in 1..Len(chunks') /\ chunks'[i] = chunks[i]
            /\ Len(chunks) + 1 \in 1..Len(chunks')
        BY <1>0, <1>2, <1>4, <2>1
      <3>2. \E i \in 1..Len(chunks') : chunks'[i].file = k /\ chunks'[i].hi = LastHunk(k)'
        BY <1>3, <2>1, <3>1
      <3>3. QED
        BY <1>10, <1>11, <3>1, <3>2 DEF FilesCovered
    <2>7. QED
      BY <1>2, <1>9, <1>13, <2>4, <2>5, <2>6 DEF Partition
  <1>14. QED
    BY <1>1, <1>12, <1>13

\* The file gets its reason.
LEMMA FilterPartition ==
  ASSUME IntakeInv, Partition, FilterFile
  PROVE  Partition'
  <1>0. PICK n, k : n = Len(chunks) + 1 /\ k = Len(patch) + 1
    OBVIOUS
  <1>1. PICK p \in Patches, m \in 1..7 :
          /\ p.traits # {} /\ patch' = Append(patch, p)
          /\ filtered' = {x \in filtered : x.file # Current}
                           \cup {[file |-> Current, why |-> Reasons[m]]}
    BY DEF FilterFile, ShouldFilterFile
  <1>2. /\ at = "file" /\ Len(patch) < Len(listed) /\ UNCHANGED <<at, listed, hunk, cur, chunks>>
        /\ patch \in Seq(Patches) /\ chunks \in Seq(Chunk) /\ Current = listed[k]
    BY <1>0 DEF FilterFile, listing, IntakeInv, TypeOK, Current
  <1>3. SameFiles /\ Len(patch') = k /\ ~ Analysed(k)' /\ Len(patch) \in Nat
    BY <1>0, <1>1, <1>2, PatchGrows DEF SameFiles, Analysed
  <1>4. \A i \in 1..Len(chunks') : ChunkPlaced(i)'
    BY <1>2, <1>3, PlacedKept DEF Partition
  <1>5. NextPlace'
    <2>1. PICK b, h : b = FileBefore(n) /\ h = HunkBefore(n)
      OBVIOUS
    <2>2. b \in 0..Len(patch) /\ h \in Nat
      BY <1>0, <1>2, <1>3, <2>1, BeforeOK DEF Partition
    <2>3. (b > 0 => h = LastHunk(b)) /\ \A f \in (b + 1)..Len(patch) : ~ Analysed(f)
      BY <1>0, <1>2, <2>1 DEF Partition, NextPlace
    <2>4. b > 0 => h = LastHunk(b)'
      BY <1>3, <2>2, <2>3 DEF SameFiles
    <2>5. ASSUME NEW f \in (b + 1)..Len(patch') PROVE ~ Analysed(f)'
      <3>1. CASE f = k
        BY <1>3, <3>1
      <3>2. CASE f # k
        <4>1. f \in 1..Len(patch) /\ f \in (b + 1)..Len(patch)
          BY <1>0, <1>3, <2>2, <3>2
        <4>2. QED
          BY <1>3, <2>3, <4>1 DEF SameFiles
      <3>3. QED
        BY <3>1, <3>2
    <2>6. FileBefore(n)' = b /\ HunkBefore(n)' = h /\ n = Len(chunks') + 1
      BY <1>0, <1>2, <2>1 DEF FileBefore, HunkBefore
    <2>7. QED
      BY <1>2, <2>4, <2>5, <2>6 DEF NextPlace
  <1>6. FilesCovered'
    <2> SUFFICES ASSUME NEW f \in 1..Len(patch'), Analysed(f)'
                 PROVE  \E i \in 1..Len(chunks) : chunks[i].file = f /\ chunks[i].hi = LastHunk(f)'
      BY <1>2 DEF FilesCovered
    <2>1. f \in 1..Len(patch)
      BY <1>0, <1>3
    <2>2. Analysed(f) /\ LastHunk(f)' = LastHunk(f)
      BY <1>3, <2>1 DEF SameFiles
    <2>3. \E i \in 1..Len(chunks) : chunks[i].file = f /\ chunks[i].hi = LastHunk(f)
      BY <1>2, <2>1, <2>2 DEF Partition, FilesCovered
    <2>4. QED
      BY <2>2, <2>3
  <1>7. ReasonsGiven'
    <2> DEFINE r == [file |-> listed[k], why |-> Reasons[m]]
    <2>1. /\ r.file = listed[k] /\ r \in filtered'
          /\ \A x \in filtered : x.file # listed[k] => x \in filtered'
          /\ \A x \in filtered' : x \in filtered \/ x = r
      BY <1>1, <1>2
    <2> HIDE DEF r
    <2>2. k \in 1..Len(patch')
      BY <1>0, <1>3
    <2>3. ASSUME NEW f \in 1..Len(patch'), ~ Analysed(f)'
          PROVE  \E x \in filtered' : x.file = listed[f]
      <3>1. CASE listed[f] = listed[k]
        BY <2>1, <3>1
      <3>2. CASE listed[f] # listed[k]
        <4>1. f \in 1..Len(patch)
          BY <1>0, <1>3, <3>2
        <4>2. ~ Analysed(f)
          BY <1>3, <2>3, <4>1 DEF SameFiles
        <4>3. PICK x \in filtered : x.file = listed[f]
          BY <4>1, <4>2 DEF Partition, ReasonsGiven
        <4>4. QED
          BY <2>1, <3>2, <4>3
      <3>3. QED
        BY <3>1, <3>2
    <2>4. ASSUME NEW x \in filtered'
          PROVE  \E f \in 1..Len(patch') : ~ Analysed(f)' /\ x.file = listed[f]
      <3>1. CASE x = r
        BY <1>3, <2>1, <2>2, <3>1
      <3>2. CASE x \in filtered
        <4>1. PICK f \in 1..Len(patch) : ~ Analysed(f) /\ x.file = listed[f]
          BY <3>2 DEF Partition, ReasonsGiven
        <4>2. f \in 1..Len(patch') /\ ~ Analysed(f)'
          BY <1>3, <4>1 DEF SameFiles
        <4>3. QED
          BY <4>1, <4>2
      <3>3. QED
        BY <2>1, <3>1, <3>2
    <2>5. QED
      BY <1>2, <2>3, <2>4 DEF ReasonsGiven
  <1>8. QED
    BY <1>2, <1>4, <1>5, <1>6, <1>7 DEF Partition

\* The open chunk is written out: it goes on where the last chunk ended.
LEMMA FlushPartition ==
  ASSUME IntakeInv, Partition, at = "split", cur # None, chunks' = Flush, UNCHANGED patch
  PROVE  /\ SameFiles /\ \A i \in 1..Len(chunks') : ChunkPlaced(i)'
         /\ FileBefore(Len(chunks) + 1)' = Len(patch) /\ HunkBefore(Len(chunks) + 1)' = cur.hi
         /\ \A i \in 1..Len(chunks) : i \in 1..Len(chunks') /\ chunks'[i] = chunks[i]
         /\ Len(chunks') \in 1..Len(chunks')
         /\ chunks'[Len(chunks')].file = Len(patch) /\ chunks'[Len(chunks')].hi = cur.hi
         /\ cur.hi = hunk - 1
  <1>0. PICK c : c = [file |-> Len(patch), lo |-> cur.lo, hi |-> cur.hi, chars |-> cur.chars]
    OBVIOUS
  <1>1. /\ patch \in Seq(Patches) /\ patch # <<>> /\ chunks \in Seq(Chunk) /\ cur \in Piece
        /\ cur.lo <= cur.hi /\ cur.hi = hunk - 1 /\ hunk \in Nat
    BY DEF IntakeInv, ChunkInv, ItemsOK, OpenChunk
  <1>2. /\ c \in Chunk /\ c.file = Len(patch) /\ c.lo = cur.lo /\ c.hi = cur.hi
        /\ chunks' = Append(chunks, c)
    BY <1>0, <1>1 DEF Chunk, Piece, Flush
  <1>3. /\ Analysed(Len(patch)) /\ hunk <= LastHunk(Len(patch)) + 1
        /\ Follows(Len(patch), cur.lo, FileBefore(Len(chunks) + 1), HunkBefore(Len(chunks) + 1))
    BY DEF Partition, NextPlace
  <1>4. SameFiles
    BY <1>1 DEF SameFiles, Analysed, LastHunk
  <1>5. PICK b, h : b = FileBefore(Len(chunks) + 1) /\ h = HunkBefore(Len(chunks) + 1)
    OBVIOUS
  <1>6. c.file \in 1..Len(patch') /\ c.lo <= c.hi
    BY <1>1, <1>2
  <1>7. Analysed(c.file)' /\ Follows(c.file, c.lo, b, h)'
    BY <1>2, <1>3, <1>5 DEF Analysed, Follows, LastHunk
  <1>8. c.hi <= LastHunk(c.file)'
    <2>1. LastHunk(Len(patch)) \in Nat
      BY <1>1, HunkChars DEF LastHunk, Hunks
    <2>2. cur.hi <= LastHunk(Len(patch))
      BY <1>1, <1>3, <2>1
    <2>3. QED
      BY <1>2, <2>2 DEF LastHunk
  <1>9. /\ \A i \in 1..Len(chunks') : ChunkPlaced(i)'
        /\ FileBefore(Len(chunks) + 1)' = c.file /\ HunkBefore(Len(chunks) + 1)' = c.hi
    BY <1>1, <1>2, <1>4, <1>5, <1>6, <1>7, <1>8, AppendPlaced DEF Partition
  <1>10. /\ Len(chunks') = Len(chunks) + 1 /\ chunks'[Len(chunks) + 1] = c
         /\ \A i \in 1..Len(chunks) : i \in 1..Len(chunks') /\ chunks'[i] = chunks[i]
         /\ Len(chunks') \in 1..Len(chunks')
    BY <1>1, <1>2
  <1>11. QED
    BY <1>1, <1>2, <1>4, <1>9, <1>10

\* Every step keeps the partition of the hunks.
LEMMA PartitionStep == IntakeInv /\ Partition /\ [Next]_vars => Partition'
  <1> SUFFICES ASSUME IntakeInv, Partition, [Next]_vars PROVE Partition'
    OBVIOUS
  <1>1. /\ patch \in Seq(Patches) /\ chunks \in Seq(Chunk) /\ listed \in Seq(File)
        /\ Len(patch) <= Len(listed) /\ cur \in Piece /\ hunk \in Nat
    BY DEF IntakeInv, TypeOK
  <1>2. CASE FilterFile
    BY <1>2, FilterPartition
  <1>3. CASE KeepFile
    BY <1>3, KeepPartition
  <1>4. CASE SplitHunk
    <2>1. /\ at = "split" /\ hunk <= Len(Hunks) /\ hunk' = hunk + 1 /\ hunk >= 1 /\ patch # <<>>
          /\ hunk > 1 => cur # None
          /\ UNCHANGED <<at, listed, patch, filtered>>
      BY <1>4 DEF SplitHunk, listing, IntakeInv, ChunkInv, OpenChunk
    <2>2. /\ Analysed(Len(patch)) /\ hunk + 1 <= LastHunk(Len(patch)) + 1
          /\ LastHunk(Len(patch)) \in Nat /\ LastHunk(Len(patch)) = Len(Hunks)
      <3>1. LastHunk(Len(patch)) \in Nat /\ LastHunk(Len(patch)) = Len(Hunks)
        BY <1>1, <2>1, HunkChars DEF LastHunk, Hunks
      <3>2. QED
        BY <1>1, <2>1, <3>1 DEF Partition, NextPlace
    <2>3. ReasonsGiven'
      BY <2>1 DEF Partition, ReasonsGiven, Analysed
    <2>4. Analysed(Len(patch))' /\ hunk' <= LastHunk(Len(patch))' + 1
      BY <2>1, <2>2 DEF Analysed, LastHunk
    <2>5. CASE UNCHANGED chunks /\ (IF cur = None THEN 1 ELSE cur.lo) = cur'.lo /\ cur' # None
      <3>1. \A i \in 1..Len(chunks') : ChunkPlaced(i)'
        BY <2>1, <2>5 DEF Partition, ChunkPlaced, Analysed, LastHunk, Follows, FileBefore,
                          HunkBefore
      <3>2. FilesCovered'
        BY <2>1, <2>5 DEF Partition, FilesCovered, Analysed, LastHunk
      <3>3. Follows(Len(patch), cur'.lo, FileBefore(Len(chunks) + 1), HunkBefore(Len(chunks) + 1))
        BY <2>1, <2>5 DEF Partition, NextPlace
      <3>4. NextPlace'
        BY <2>1, <2>4, <2>5, <3>3 DEF NextPlace, Follows, FileBefore, HunkBefore, Analysed, LastHunk
      <3>5. QED
        BY <2>1, <2>3, <3>1, <3>2, <3>4 DEF Partition
    <2>6. CASE cur = None /\ cur' = Alone(hunk) /\ UNCHANGED chunks
      <3>1. hunk = 1
        BY <1>1, <2>1, <2>6
      <3>2. cur'.lo = 1 /\ cur' # None
        BY <2>6, <3>1 DEF Alone, None
      <3>3. QED
        BY <2>5, <2>6, <3>2
    <2>7. CASE /\ cur # None /\ UNCHANGED chunks
               /\ \E x, y : cur' = [lo |-> cur.lo, hi |-> hunk, chars |-> x, tokens |-> y]
      <3>1. cur'.lo = cur.lo /\ cur'.hi = hunk
        BY <2>7
      <3>2. cur' # None
        BY <2>1, <3>1 DEF None
      <3>3. QED
        BY <2>5, <2>7, <3>1, <3>2
    <2>8. CASE cur # None /\ chunks' = Flush /\ cur' = Alone(hunk)
      <3>1. /\ SameFiles /\ \A i \in 1..Len(chunks') : ChunkPlaced(i)'
            /\ FileBefore(Len(chunks) + 1)' = Len(patch) /\ HunkBefore(Len(chunks) + 1)' = cur.hi
            /\ \A i \in 1..Len(chunks) : i \in 1..Len(chunks') /\ chunks'[i] = chunks[i]
            /\ cur.hi = hunk - 1
        BY <2>1, <2>8, FlushPartition
      <3>2. FilesCovered'
        <4> SUFFICES ASSUME NEW f \in 1..Len(patch), Analysed(f), f # Len(patch)
                     PROVE  \E i \in 1..Len(chunks') : chunks'[i].file = f
                                                       /\ chunks'[i].hi = LastHunk(f)
          BY <2>1 DEF FilesCovered, Analysed, LastHunk
        <4>1. PICK i \in 1..Len(chunks) : chunks[i].file = f /\ chunks[i].hi = LastHunk(f)
          BY DEF Partition, FilesCovered
        <4>2. QED
          BY <3>1, <4>1
      <3>3. cur'.lo = hunk /\ cur' # None
        BY <2>1, <2>8 DEF Alone, None
      <3>4. NextPlace'
        <4>1. cur'.lo = cur.hi + 1
          BY <1>1, <3>1, <3>3
        <4>2. Follows(Len(patch), cur.lo, FileBefore(Len(chunks) + 1), HunkBefore(Len(chunks) + 1))'
          BY <2>1, <3>1, <4>1 DEF Follows
        <4>3. QED
          BY <2>1, <2>4, <3>3, <4>2 DEF NextPlace
      <3>5. QED
        BY <2>1, <2>3, <3>1, <3>2, <3>4 DEF Partition
    <2>9. QED
      BY <1>4, <2>6, <2>7, <2>8 DEF SplitHunk
  <1>5. CASE SplitEnds
    <2>1. /\ at = "split" /\ hunk > Len(Hunks) /\ patch # <<>> /\ chunks' = Flush /\ at' = "file"
          /\ hunk > 1 => cur # None
          /\ UNCHANGED <<listed, patch, filtered>>
      BY <1>5 DEF SplitEnds, listing, IntakeInv, ChunkInv, OpenChunk
    <2>2. LastHunk(Len(patch)) \in Nat /\ LastHunk(Len(patch)) = Len(Hunks) /\ Len(Hunks) > 0
      BY <1>1, <2>1, HunkChars DEF LastHunk, Hunks
    <2>3. cur # None /\ hunk - 1 = LastHunk(Len(patch))
      <3>1. hunk <= LastHunk(Len(patch)) + 1
        BY <2>1 DEF Partition, NextPlace
      <3>2. QED
        BY <1>1, <2>1, <2>2, <3>1
    <2>4. /\ SameFiles /\ \A i \in 1..Len(chunks') : ChunkPlaced(i)'
          /\ FileBefore(Len(chunks) + 1)' = Len(patch) /\ HunkBefore(Len(chunks) + 1)' = cur.hi
          /\ \A i \in 1..Len(chunks) : i \in 1..Len(chunks') /\ chunks'[i] = chunks[i]
          /\ Len(chunks') \in 1..Len(chunks')
          /\ chunks'[Len(chunks')].file = Len(patch) /\ chunks'[Len(chunks')].hi = cur.hi
          /\ cur.hi = LastHunk(Len(patch))
      BY <2>1, <2>3, FlushPartition
    <2>5. ReasonsGiven'
      BY <2>1 DEF Partition, ReasonsGiven, Analysed
    <2>6. FilesCovered'
      <3> SUFFICES ASSUME NEW f \in 1..Len(patch), Analysed(f)
                   PROVE  \E i \in 1..Len(chunks') : chunks'[i].file = f
                                                     /\ chunks'[i].hi = LastHunk(f)
        BY <2>1 DEF FilesCovered, Analysed, LastHunk
      <3>1. CASE f = Len(patch)
        BY <2>4, <3>1
      <3>2. CASE f # Len(patch)
        <4>1. PICK i \in 1..Len(chunks) : chunks[i].file = f /\ chunks[i].hi = LastHunk(f)
          BY <3>2 DEF Partition, FilesCovered
        <4>2. QED
          BY <2>4, <4>1
      <3>3. QED
        BY <3>1, <3>2
    <2>7. NextPlace'
      <3>1. \A f \in (Len(patch) + 1)..Len(patch') : FALSE
        BY <1>1, <2>1
      <3>2. LastHunk(FileBefore(Len(chunks) + 1))' = LastHunk(Len(patch))
        BY <2>1, <2>4 DEF LastHunk
      <3>3. QED
        BY <2>1, <2>4, <3>1, <3>2 DEF NextPlace
    <2>8. QED
      BY <2>1, <2>4, <2>5, <2>6, <2>7 DEF Partition
  <1>6. CASE ListPage
    <2>1. /\ listed' = listed \o PageItems /\ UNCHANGED <<patch, filtered, hunk, cur, chunks>>
          /\ at = "list" /\ at' \in {"list", "file"}
      BY <1>6 DEF ListPage
    <2>2. ASSUME NEW f \in 1..Len(patch) PROVE listed'[f] = listed[f]
      <3>1. f \in 1..Len(listed)
        BY <1>1
      <3>2. PageItems \in Seq(File)
        <4>1. pr \in Seq(File) /\ page \in Nat \ {0}
          BY DEF IntakeInv, TypeOK
        <4>2. (page - 1) * PerPage + 1 \in Nat \ {0} /\ page * PerPage \in Nat
          BY <4>1, PageTimes
        <4>3. Lesser(page * PerPage, Len(pr)) \in Nat /\ Lesser(page * PerPage, Len(pr)) <= Len(pr)
          BY <4>1, <4>2 DEF Lesser
        <4>4. QED
          BY <4>1, <4>2, <4>3 DEF PageItems
      <3>3. QED
        BY <1>1, <2>1, <3>1, <3>2
    <2>3. ReasonsGiven'
      BY <2>1, <2>2 DEF Partition, ReasonsGiven, Analysed
    <2>4. (\A i \in 1..Len(chunks) : ChunkPlaced(i))'
      BY <2>1 DEF Partition, ChunkPlaced, Analysed, LastHunk, Follows, FileBefore, HunkBefore
    <2>5. NextPlace' /\ FilesCovered'
      BY <2>1 DEF Partition, NextPlace, FilesCovered, Analysed, LastHunk, FileBefore, HunkBefore
    <2>6. QED
      BY <2>1, <2>3, <2>4, <2>5 DEF Partition
  <1>7. CASE /\ UNCHANGED <<listed, patch, filtered, hunk, cur, chunks>>
             /\ at' = at \/ (at # "split" /\ at' # "split")
             /\ at' \in {"batch", "done"} => at \in {"batch", "done"} \/ Len(patch) = Len(listed)
    <2>1. (\A i \in 1..Len(chunks) : ChunkPlaced(i))'
      BY <1>7 DEF Partition, ChunkPlaced, Analysed, LastHunk, Follows, FileBefore, HunkBefore
    <2>2. NextPlace' /\ FilesCovered'
      BY <1>7 DEF Partition, NextPlace, FilesCovered, Analysed, LastHunk, Follows, FileBefore,
                  HunkBefore
    <2>3. ReasonsGiven'
      BY <1>7 DEF Partition, ReasonsGiven, Analysed
    <2>4. QED
      BY <1>7, <2>1, <2>2, <2>3 DEF Partition
  <1>8. CASE Authorise \/ ListFails \/ Push \/ ContentFails
    BY <1>7, <1>8 DEF Authorise, ListFails, Push, ContentFails, listing
  <1>9. CASE FilesEnd \/ BatchChunk \/ BatchesEnd \/ UNCHANGED vars
    BY <1>7, <1>9 DEF FilesEnd, BatchChunk, BatchesEnd, listing, vars
  <1>10. QED
    BY <1>2, <1>3, <1>4, <1>5, <1>6, <1>8, <1>9 DEF Next

\* Whatever the patches and the limits, once the files are split every hunk of
\* a file that is analysed is in one chunk, in order, and the files without a
\* chunk are those with a reason.
THEOREM IntakeHunksPartitioned == Spec => []HunksPartitioned
  <1> DEFINE Inv == ChunkInv /\ ListInv /\ TypeOK /\ Partition
  <1>1. Init => Inv
    <2> SUFFICES ASSUME Init PROVE Inv
      OBVIOUS
    <2>1. ChunkInv /\ ListInv /\ TypeOK
      BY ChunkInitial DEF Init, ListInv, PagesListed, ListedExactly, TypeOK, None, Piece
    <2>2. Partition
      BY DEF Init, Partition, NextPlace, FilesCovered, ReasonsGiven, FileBefore, HunkBefore
    <2>3. QED
      BY <2>1, <2>2
  <1>2. Inv /\ [Next]_vars => Inv'
    BY ChunkStep, ListStep, TypeStep, PartitionStep DEF IntakeInv, ListInv
  <1>3. Inv => HunksPartitioned
    <2> SUFFICES ASSUME Inv, at \in {"batch", "done"} PROVE HunksPartitioned
      BY DEF HunksPartitioned
    <2>1. Len(patch) = Len(listed)
      BY DEF Partition
    <2>2. ASSUME NEW i \in 1..Len(chunks)
          PROVE  LET c == chunks[i] IN
                 /\ Analysed(c.file) /\ c.lo <= c.hi /\ c.hi <= LastHunk(c.file)
                 /\ IF i = 1 THEN Follows(c.file, c.lo, 0, 0)
                    ELSE Follows(c.file, c.lo, chunks[i - 1].file, chunks[i - 1].hi)
      BY DEF Partition, ChunkPlaced, FileBefore, HunkBefore
    <2>3. \A f \in 1..Len(listed) : Analysed(f) =>
            \E i \in 1..Len(chunks) : chunks[i].file = f /\ chunks[i].hi = LastHunk(f)
      BY <2>1 DEF Partition, FilesCovered
    <2>4. {listed[f] : f \in {f \in 1..Len(listed) : ~ Analysed(f)}} = {x.file : x \in filtered}
      BY <2>1 DEF Partition, ReasonsGiven
    <2>5. QED
      BY <2>2, <2>3, <2>4 DEF HunksPartitioned
  <1>4. QED
    BY <1>1, <1>2, <1>3, PTL DEF Spec
=============================================================================
