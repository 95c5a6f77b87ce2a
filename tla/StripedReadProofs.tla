------------------------- MODULE StripedReadProofs -------------------------
(***************************************************************************)
(* TLAPS proofs about StripedRead: the chunk plan of calculateStripeChunks *)
(* tiles the requested range, for every file, offset, size, stripe size    *)
(* and stripe count.                                                       *)
(***************************************************************************)
EXTENDS MCStripedRead, TLAPS

\* The part of the state the chunk plan depends on, with its types.
PlanTypeOK ==
    /\ req \in Requests
    /\ pc \in {"start", "plan", "spawn", "wait", "done"}
    /\ cur \in Nat /\ rem \in Nat
    /\ chunks \in Seq(Chunk)

\* The loop invariant of calculateStripeChunks: what is planned so far tiles
\* [offset, currentOffset), and currentOffset + remaining is the end of the
\* range.  A call starts with no chunks.
PlanInv ==
    /\ PlanTypeOK
    /\ pc = "start" => chunks = <<>>
    /\ pc = "plan" =>
          /\ req.sc > 1
          /\ cur + rem = req.offset + req.size
          /\ ChunkTiles(chunks, req.offset, cur, req.ss, req.sc)
    /\ ChunksTileRange

\* The decomposition StripePlan promises for the current read.
Decomposition == AbsPlan!DecomposeRange(req.offset, req.size, req.ss, req.sc)

\* The refinement invariant: while calculateStripeChunks loops, its chunks
\* are the first Len(chunks) chunks of the decomposition; currentOffset is
\* the read's offset before the first iteration and, while bytes remain, a
\* stripe-block boundary after it; and the loop goes on exactly while
\* chunks of the decomposition are left.
PlanPrefix ==
    pc = "plan" =>
        LET first == req.offset \div req.ss
            last  == (req.offset + req.size - 1) \div req.ss
            k     == Len(chunks)
        IN  /\ \A j \in 1 .. k : chunks[j] = Decomposition[j]
            /\ k = 0 => cur = req.offset
            /\ rem > 0 =>
                  /\ k > 0 => cur = (first + k) * req.ss
                  /\ k <= last - first
            /\ rem = 0 => k = Len(Decomposition)

\* The invariant the refinement proof rests on.
RefInv == PlanInv /\ PlanPrefix

-----------------------------------------------------------------------------
(* Arithmetic.                                                             *)

\* A chunk that starts at c and is no longer than the rest of c's stripe
\* block ends in the same block.
LEMMA SameBlock ==
    ASSUME NEW c \in Nat, NEW ss \in Nat \ {0}, NEW s \in Int,
           1 <= s, s <= ss - (c % ss)
    PROVE  (c + s - 1) \div ss = c \div ss
<1> DEFINE q == c \div ss
           r == c % ss
<1>1. q \in Nat /\ r \in 0 .. ss - 1 /\ c = q * ss + r
  OBVIOUS
<1>2. c + s - 1 = q * ss + (r + s - 1) /\ r + s - 1 \in 0 .. ss - 1
  BY <1>1
<1>3. \A t \in 0 .. ss - 1 : (q * ss + t) \div ss = q
  BY <1>1
<1>. QED
  BY <1>2, <1>3

\* Division by a stripe size: the quotient and the remainder.
LEMMA DivMod ==
    ASSUME NEW x \in Nat, NEW ss \in Nat \ {0}
    PROVE  /\ x \div ss \in Int /\ x % ss \in 0 .. ss - 1
           /\ x = (x \div ss) * ss + (x % ss)
<1> DEFINE q == x \div ss
           r == x % ss
<1>1. q \in Nat /\ r \in 0 .. ss - 1 /\ x = q * ss + r
  OBVIOUS
<1>. QED
  BY <1>1

\* x lies in block q exactly when q * ss <= x < (q + 1) * ss.
LEMMA DivUnique ==
    ASSUME NEW x \in Int, NEW ss \in Nat \ {0}, NEW q \in Int,
           q * ss <= x, x < (q + 1) * ss
    PROVE  x \div ss = q
<1> DEFINE d == x \div ss
           r == x % ss
<1>1. d \in Int /\ r \in 0 .. ss - 1 /\ x = d * ss + r
  OBVIOUS
<1>2. ~(d < q)
  <2>1. d < q => (d + 1) * ss <= q * ss
    BY <1>1
  <2>. QED
    BY <1>1, <2>1
<1>3. ~(d > q)
  <2>1. d > q => d * ss >= (q + 1) * ss
    BY <1>1
  <2>. QED
    BY <1>1, <2>1
<1>. QED
  BY <1>1, <1>2, <1>3

\* A position at or past the start of block q is in block q or later.
LEMMA DivLower ==
    ASSUME NEW x \in Int, NEW ss \in Nat \ {0}, NEW q \in Int, q * ss <= x
    PROVE  q <= x \div ss
<1> DEFINE d == x \div ss
           r == x % ss
<1>1. d \in Int /\ r \in 0 .. ss - 1 /\ x = d * ss + r
  OBVIOUS
<1>2. d < q => (d + 1) * ss <= q * ss
  BY <1>1
<1>. QED
  BY <1>1, <1>2

\* What one iteration of the loop computes, for a range starting at off of
\* len bytes, k chunks in, at position pos with left bytes to go.
NextChunkFacts(off, len, ss, k, pos, left) ==
    LET b   == off \div ss + k
        cs  == Mini(ss - (pos % ss), left)
        hiB == IF off + len < (b + 1) * ss THEN off + len ELSE (b + 1) * ss
    IN  /\ pos \div ss = b
        /\ (IF off > b * ss THEN off ELSE b * ss) = pos
        /\ cs = hiB - pos /\ cs \in Nat \ {0}
        /\ off \div ss \in Int /\ (off + len - 1) \div ss \in Int
        /\ len > 0 /\ off \div ss <= (off + len - 1) \div ss
        /\ left - cs > 0 => /\ hiB = (b + 1) * ss
                           /\ k + 1 <= (off + len - 1) \div ss - off \div ss
        /\ left - cs = 0 => k + 1 = (off + len - 1) \div ss - off \div ss + 1

\* One iteration of the loop, in arithmetic: with currentOffset at the
\* start of what is left of block b = offset \div ss + k, the chunk ends at
\* the end of that block or of the range, and the loop goes on exactly
\* while blocks of the range are left.
LEMMA NextChunk ==
    ASSUME NEW off \in Nat, NEW len \in Nat, NEW ss \in Nat \ {0},
           NEW k \in Nat, NEW pos \in Nat, NEW left \in Nat \ {0},
           pos + left = off + len,
           k = 0 => pos = off,
           k > 0 => pos = (off \div ss + k) * ss,
           k <= (off + len - 1) \div ss - off \div ss
    PROVE  NextChunkFacts(off, len, ss, k, pos, left)
<1> DEFINE first == off \div ss
           last  == (off + len - 1) \div ss
           b     == first + k
           cs    == Mini(ss - (pos % ss), left)
           hiB   == IF off + len < (b + 1) * ss THEN off + len ELSE (b + 1) * ss
<1>1. first \in Int /\ first * ss <= off /\ off < (first + 1) * ss
  <2>1. first \in Int /\ off % ss \in 0 .. ss - 1 /\ off = first * ss + (off % ss)
    BY DivMod
  <2>. QED
    BY <2>1
<1>2. b \in Int /\ b * ss <= pos /\ pos < (b + 1) * ss /\ pos < off + len
  BY <1>1
<1>3. pos \div ss = b
  BY <1>2, DivUnique
<1>4. pos % ss = pos - b * ss
  <2>1. pos = (pos \div ss) * ss + (pos % ss)
    BY DivMod
  <2>. QED
    BY <2>1, <1>3, <1>2
<1>5. cs = hiB - pos /\ cs \in Nat \ {0}
  BY <1>2, <1>4 DEF Mini
<1>6. (IF off > b * ss THEN off ELSE b * ss) = pos
  BY <1>1, <1>2
<1>7. len > 0 /\ last \in Int /\ first <= last
  <2>1. len > 0
    BY <1>2
  <2>2. last \in Int /\ first <= last
    BY <2>1, <1>1, DivLower
  <2>. QED
    BY <2>1, <2>2
<1>8. left - cs > 0 => hiB = (b + 1) * ss /\ k + 1 <= last - first
  <2> SUFFICES ASSUME left - cs > 0 PROVE hiB = (b + 1) * ss /\ k + 1 <= last - first
    OBVIOUS
  <2>1. hiB < off + len
    BY <1>5
  <2>2. hiB = (b + 1) * ss /\ (b + 1) * ss <= off + len - 1
    BY <2>1
  <2>3. b + 1 \in Int /\ off + len - 1 \in Int
    BY <1>2
  <2>4. b + 1 <= last
    BY <2>2, <2>3, DivLower, Zenon
  <2>. QED
    BY <2>2, <2>4, <1>7
<1>9. left - cs = 0 => k + 1 = last - first + 1
  <2> SUFFICES ASSUME left - cs = 0 PROVE k + 1 = last - first + 1
    OBVIOUS
  <2>0. hiB = off + len
    BY <1>5
  <2>1. b * ss <= off + len - 1 /\ off + len - 1 < (b + 1) * ss
    BY <2>0, <1>2
  <2>2. last = b
    <3>1. off + len - 1 \in Int /\ b \in Int
      BY <1>2
    <3>. QED
      BY <3>1, <2>1, DivUnique, Zenon
  <2>. QED
    BY <2>2, <1>1
<1>. QED
  BY <1>1, <1>3, <1>5, <1>6, <1>7, <1>8, <1>9 DEF NextChunkFacts
\* Chunk of DecomposeRange for stripe-size block bb of the range.
BlockChunk(off, len, ss, sc, bb) ==
    LET lo == IF off > bb * ss THEN off ELSE bb * ss
        hi == IF off + len < (bb + 1) * ss THEN off + len ELSE (bb + 1) * ss
    IN  [offset |-> lo, size |-> hi - lo, stripe |-> bb % sc]

\* The shape of a nonempty decomposition: one chunk per block the range
\* touches, in order.
DecomposeShape(off, len, ss, sc) ==
    LET D == AbsPlan!DecomposeRange(off, len, ss, sc)
        n == (off + len - 1) \div ss - off \div ss + 1
    IN  /\ n \in Nat \ {0}
        /\ D = [j \in 1 .. n |-> BlockChunk(off, len, ss, sc, off \div ss + j - 1)]
        /\ DOMAIN D = 1 .. n /\ Len(D) = n
        /\ \A j \in 1 .. n : D[j] = BlockChunk(off, len, ss, sc, off \div ss + j - 1)

\* A nonempty range decomposes into one chunk per block it touches.
LEMMA DecomposeShapeLemma ==
    ASSUME NEW off \in Nat, NEW len \in Nat \ {0}, NEW ss \in Nat \ {0}, NEW sc
    PROVE  DecomposeShape(off, len, ss, sc)
<1> DEFINE first == off \div ss
           last  == (off + len - 1) \div ss
           n     == last - first + 1
           D     == AbsPlan!DecomposeRange(off, len, ss, sc)
<1>1. first \in Int /\ last \in Int /\ first <= last
  <2>1. first \in Int /\ first * ss <= off
    <3>1. first \in Int /\ off % ss \in 0 .. ss - 1 /\ off = first * ss + (off % ss)
      BY DivMod
    <3>. QED
      BY <3>1
  <2>2. off + len - 1 \in Int
    OBVIOUS
  <2>. QED
    BY <2>1, <2>2, DivLower
<1>2. n \in Nat \ {0}
  BY <1>1
<1>3. D = [j \in 1 .. n |-> BlockChunk(off, len, ss, sc, first + j - 1)]
  BY DEF AbsPlan!DecomposeRange, BlockChunk
<1>4. DOMAIN D = 1 .. n /\ Len(D) = n
  BY <1>2, <1>3
<1>. QED
  BY <1>2, <1>3, <1>4 DEF DecomposeShape

-----------------------------------------------------------------------------
(* The loop invariant.                                                     *)

USE StripedReadAssumption

LEMMA PlanInvInit == Init => PlanInv
BY DEF Init, PlanInv, PlanTypeOK, ChunkTiles, ChunksTileRange

\* One iteration of calculateStripeChunks keeps the loop invariant: the new
\* chunk starts where the tiling ended, is non-empty, stays within its
\* block, and the tiling now ends where the next iteration starts.
LEMMA StripeChunkStepInv ==
    ASSUME PlanInv, StripeChunkStep
    PROVE  PlanInv'
<1> DEFINE ss == req.ss
           sc == req.sc
           si == (cur \div ss) % sc
           cs == Mini(ss - (cur % ss), rem)
           ch == [offset |-> cur, size |-> cs, stripe |-> si]
<1>1. /\ req \in Requests /\ pc = "plan" /\ cur \in Nat /\ rem \in Nat \ {0}
      /\ chunks \in Seq(Chunk) /\ sc > 1 /\ cur + rem = req.offset + req.size
      /\ ChunkTiles(chunks, req.offset, cur, ss, sc)
  BY DEF PlanInv, PlanTypeOK, StripeChunkStep
<1>2. ss \in Nat \ {0} /\ sc \in Nat /\ req.offset \in Nat
  <2>1. ss \in StripeSizes /\ sc \in StripeCounts /\ req.offset \in Offsets
    BY <1>1 DEF Requests
  <2>2. ss \in Nat \ {0} /\ sc \in Int /\ req.offset \in Nat
    BY <2>1, StripedReadAssumption
  <2>. QED
    BY <2>2, <1>1
<1>3. cs \in 1 .. rem /\ cs \in Int /\ 1 <= cs /\ cs <= ss - (cur % ss)
  BY <1>1, <1>2 DEF Mini
<1>4. (cur + cs - 1) \div ss = cur \div ss
  BY <1>1, <1>2, <1>3, SameBlock, Zenon
<1>5. ch \in Chunk /\ si \in Nat
  BY <1>1, <1>2, <1>3 DEF Chunk
<1>6. /\ chunks' = Append(chunks, ch) /\ cur' = cur + cs /\ rem' = rem - cs
      /\ UNCHANGED <<req, pc>>
  BY DEF StripeChunkStep, Mini
<1>7. ChunkTiles(chunks', req.offset, cur', ss, sc)
  <2>1. \A i \in 1 .. Len(chunks) : chunks'[i] = chunks[i]
    BY <1>1, <1>6
  <2>2. chunks'[Len(chunks) + 1] = ch /\ Len(chunks') = Len(chunks) + 1
    BY <1>1, <1>6
  <2>3. ch.offset = IF Len(chunks) + 1 = 1 THEN req.offset
                    ELSE chunks[Len(chunks)].offset + chunks[Len(chunks)].size
    BY <1>1 DEF ChunkTiles
  <2>4. ch.size >= 1 /\ ch.offset \div ss = (ch.offset + ch.size - 1) \div ss
        /\ ch.stripe = (ch.offset \div ss) % sc
    BY <1>3, <1>4
  <2>5. \A i \in 1 .. Len(chunks') :
          /\ chunks'[i].size >= 1
          /\ chunks'[i].offset \div ss = (chunks'[i].offset + chunks'[i].size - 1) \div ss
          /\ chunks'[i].stripe = (chunks'[i].offset \div ss) % sc
          /\ chunks'[i].offset = IF i = 1 THEN req.offset
                                 ELSE chunks'[i - 1].offset + chunks'[i - 1].size
    <3> TAKE i \in 1 .. Len(chunks')
    <3>1. CASE i <= Len(chunks)
      BY <3>1, <2>1, <2>2, <1>1 DEF ChunkTiles
    <3>2. CASE i = Len(chunks) + 1
      BY <3>2, <2>1, <2>2, <2>3, <2>4, <1>1
    <3>. QED
      BY <3>1, <3>2, <2>2
  <2>6. chunks' # <<>> /\ chunks'[Len(chunks')].offset + chunks'[Len(chunks')].size = cur'
    BY <2>2, <1>6
  <2>. QED
    BY <2>5, <2>6, <1>6 DEF ChunkTiles
<1>8. PlanTypeOK'
  BY <1>1, <1>3, <1>5, <1>6 DEF PlanTypeOK
<1>. QED
  BY <1>1, <1>3, <1>6, <1>7, <1>8 DEF PlanInv, ChunksTileRange

\* One iteration of calculateStripeChunks appends exactly the next chunk of
\* the decomposition: it starts at currentOffset, which is where block
\* first + k begins to be read, and ends at the end of that block or of the
\* range, whichever comes first.
LEMMA StripeChunkStepPrefix ==
    ASSUME RefInv, StripeChunkStep
    PROVE  PlanPrefix'
<1> DEFINE off   == req.offset
           len   == req.size
           ss    == req.ss
           sc    == req.sc
           k     == Len(chunks)
           first == off \div ss
           last  == (off + len - 1) \div ss
           b     == first + k
           D     == Decomposition
           cs    == Mini(ss - (cur % ss), rem)
           hiB   == IF off + len < (b + 1) * ss THEN off + len ELSE (b + 1) * ss
           ch    == [offset |-> cur, size |-> cs, stripe |-> (cur \div ss) % sc]
<1>1. /\ req \in Requests /\ pc = "plan" /\ cur \in Nat /\ rem \in Nat \ {0}
      /\ chunks \in Seq(Chunk) /\ sc > 1 /\ cur + rem = off + len
      /\ \A j \in 1 .. k : chunks[j] = D[j]
      /\ k = 0 => cur = off
      /\ k > 0 => cur = (off \div ss + k) * ss
      /\ k <= (off + len - 1) \div ss - off \div ss
  BY DEF RefInv, PlanInv, PlanTypeOK, PlanPrefix, StripeChunkStep
<1>2. ss \in Nat \ {0} /\ sc \in Int /\ off \in Nat /\ len \in Nat /\ k \in Nat
  <2>1. ss \in StripeSizes /\ sc \in StripeCounts /\ off \in Offsets
        /\ len \in Sizes
    BY <1>1 DEF Requests
  <2>2. ss \in Nat \ {0} /\ sc \in Int /\ off \in Nat /\ len \in Nat
    BY <2>1, StripedReadAssumption
  <2>3. k \in Nat
    BY <1>1
  <2>. QED
    BY <2>2, <2>3
<1>3. /\ cur \div ss = b
      /\ (IF off > b * ss THEN off ELSE b * ss) = cur
      /\ cs = hiB - cur /\ cs \in Nat \ {0}
      /\ first \in Int /\ last \in Int /\ len > 0 /\ first <= last
      /\ rem - cs > 0 => hiB = (b + 1) * ss /\ k + 1 <= last - first
      /\ rem - cs = 0 => k + 1 = last - first + 1
  <2>1. NextChunkFacts(off, len, ss, k, cur, rem)
    BY <1>1, <1>2, NextChunk, Zenon
  <2>. QED
    BY <2>1 DEF NextChunkFacts
<1>4. Len(D) = last - first + 1 /\ k + 1 \in 1 .. Len(D)
      /\ D[k + 1] = BlockChunk(off, len, ss, sc, b)
  <2>1. len \in Nat \ {0}
    BY <1>2, <1>3
  <2>2. DecomposeShape(off, len, ss, sc)
    BY <1>2, <2>1, DecomposeShapeLemma, Zenon
  <2>3. /\ Len(D) = last - first + 1
        /\ \A j \in 1 .. last - first + 1 :
              D[j] = BlockChunk(off, len, ss, sc, first + j - 1)
    BY <2>2 DEF DecomposeShape, Decomposition
  <2>4. k + 1 \in 1 .. last - first + 1 /\ first + (k + 1) - 1 = b
    <3>1. k \in Nat /\ k <= last - first
      BY <1>1, <1>2
    <3>2. first \in Int /\ last \in Int
      BY <1>3
    <3>. QED
      BY <3>1, <3>2
  <2>. QED
    BY <2>3, <2>4
<1>5. ch = D[k + 1]
  <2>1. BlockChunk(off, len, ss, sc, b) = [offset |-> cur, size |-> hiB - cur,
                                          stripe |-> b % sc]
    BY <1>3 DEF BlockChunk
  <2>. QED
    BY <1>3, <1>4, <2>1
<1>6. /\ chunks' = Append(chunks, ch) /\ cur' = cur + cs /\ rem' = rem - cs
      /\ req' = req /\ pc' = "plan"
  BY <1>1 DEF StripeChunkStep
<1>7. Len(chunks') = k + 1 /\ \A j \in 1 .. k + 1 : chunks'[j] = D[j]
  BY <1>1, <1>5, <1>6
<1>8. cur' = hiB /\ rem' = rem - cs
  <2>1. hiB \in Int
    BY <1>2
  <2>. QED
    BY <1>1, <1>3, <1>6, <2>1
<1>9. Decomposition' = D
  BY <1>6 DEF Decomposition
<1>. QED
  <2>1. \A j \in 1 .. Len(chunks') : chunks'[j] = Decomposition'[j]
    BY <1>7, <1>9
  <2>2. Len(chunks') = 0 => cur' = req'.offset
    BY <1>2, <1>7
  <2>3. rem' > 0 =>
           /\ Len(chunks') > 0 =>
                 cur' = (req'.offset \div req'.ss + Len(chunks')) * req'.ss
           /\ Len(chunks') <= (req'.offset + req'.size - 1) \div req'.ss
                                - req'.offset \div req'.ss
    <3> SUFFICES ASSUME rem' > 0
                 PROVE  /\ Len(chunks') > 0 =>
                              cur' = (req'.offset \div req'.ss + Len(chunks')) * req'.ss
                        /\ Len(chunks') <= (req'.offset + req'.size - 1) \div req'.ss
                                             - req'.offset \div req'.ss
      OBVIOUS
    <3>1. hiB = (b + 1) * ss /\ k + 1 <= last - first
      BY <1>3, <1>8
    <3>2. cur' = (first + (k + 1)) * ss
      BY <3>1, <1>3, <1>8
    <3>. QED
      BY <3>1, <3>2, <1>6, <1>7
  <2>4. rem' = 0 => Len(chunks') = Len(Decomposition')
    BY <1>3, <1>4, <1>7, <1>8, <1>9
  <2>. QED
    BY <2>1, <2>2, <2>3, <2>4, <1>6 DEF PlanPrefix

\* Every step of parallelReadStripes keeps the loop invariant.  Only the
\* start of a call, the loop and its exit touch the plan; the goroutine
\* steps and the wait leave req, the loop variables and the chunks alone.
LEMMA PlanInvStep == PlanInv /\ [Next]_vars => PlanInv'
<1> SUFFICES ASSUME PlanInv, [Next]_vars PROVE PlanInv'
  OBVIOUS
<1>0. PlanTypeOK /\ ChunksTileRange
  BY DEF PlanInv
<1>00. req.sc \in Int /\ req.offset \in Nat /\ req.size \in Nat
  <2>1. req.sc \in StripeCounts /\ req.offset \in Offsets /\ req.size \in Sizes
    BY <1>0 DEF PlanTypeOK, Requests
  <2>. QED
    BY <2>1, StripedReadAssumption
<1>1. CASE ParallelReadStripes
  <2>1. chunks = <<>> /\ chunks' = <<>> /\ UNCHANGED req
    BY <1>1 DEF ParallelReadStripes, PlanInv
  <2>2. CASE req.sc <= 1
    <3>1. pc' = "done" /\ UNCHANGED <<cur, rem>>
      BY <1>1, <2>2, <1>00 DEF ParallelReadStripes
    <3>. QED
      BY <3>1, <2>1, <2>2, <1>0, <1>00 DEF PlanInv, PlanTypeOK, ChunksTileRange
  <2>3. CASE req.sc > 1
    <3>1. pc' = "plan" /\ cur' = req.offset /\ rem' = req.size
      BY <1>1, <2>3, <1>00 DEF ParallelReadStripes
    <3>. QED
      BY <3>1, <1>00, <2>1, <2>3, <1>0 DEF PlanInv, PlanTypeOK, ChunkTiles,
         ChunksTileRange
  <2>. QED
    BY <1>00, <2>2, <2>3
<1>2. CASE StripeChunkStep
  BY <1>2, StripeChunkStepInv
<1>3. CASE CalculateStripeChunksDone
  <2>1. /\ pc = "plan" /\ rem = 0 /\ pc' = "spawn"
        /\ UNCHANGED <<req, cur, rem, chunks>>
    BY <1>3, <1>0 DEF CalculateStripeChunksDone, PlanTypeOK
  <2>2. req.sc > 1 /\ cur + rem = req.offset + req.size
        /\ ChunkTiles(chunks, req.offset, cur, req.ss, req.sc)
    BY <2>1 DEF PlanInv
  <2>3. cur = req.offset + req.size
    BY <2>1, <2>2, <1>0, <1>00 DEF PlanTypeOK
  <2>. QED
    BY <2>1, <2>2, <2>3, <1>0 DEF PlanInv, PlanTypeOK, ChunksTileRange
<1>4. CASE NextCall
  BY <1>4, <1>0 DEF NextCall, PlanInv, PlanTypeOK, ChunksTileRange
<1>5. CASE SpawnChunkReader \/ StartWait \/ Assemble
  <2>1. /\ pc \in {"spawn", "wait"} /\ pc' \in {"spawn", "wait", "done"}
        /\ UNCHANGED <<req, cur, rem, chunks>>
    BY <1>5 DEF SpawnChunkReader, StartWait, Assemble
  <2>. QED
    BY <2>1, <1>0 DEF PlanInv, PlanTypeOK, ChunksTileRange
<1>6. CASE \E i \in DOMAIN g : AcquireSlot(i) \/ ReadChunk(i)
  <2>1. UNCHANGED <<req, pc, cur, rem, chunks>>
    BY <1>6 DEF AcquireSlot, ReadChunk
  <2>. QED
    BY <2>1 DEF PlanInv, PlanTypeOK, ChunksTileRange, ChunkTiles
<1>7. CASE UNCHANGED vars
  BY <1>7 DEF vars, PlanInv, PlanTypeOK, ChunksTileRange, ChunkTiles
<1>. QED
  BY <1>1, <1>2, <1>3, <1>4, <1>5, <1>6, <1>7 DEF Next

-----------------------------------------------------------------------------
(* The refinement invariant.                                               *)

LEMMA RefInvInit == Init => RefInv
<1> SUFFICES ASSUME Init PROVE RefInv
  OBVIOUS
<1>1. PlanInv
  BY PlanInvInit
<1>2. PlanPrefix
  BY DEF Init, PlanPrefix
<1>. QED
  BY <1>1, <1>2 DEF RefInv

\* Entering the loop: no chunk yet, currentOffset = offset and
\* remaining = size, which is non-zero exactly when the decomposition is
\* non-empty.
LEMMA ParallelReadStripesPrefix ==
    ASSUME RefInv, ParallelReadStripes
    PROVE  PlanPrefix'
<1> SUFFICES ASSUME pc' = "plan" PROVE PlanPrefix'
  BY DEF PlanPrefix
<1>1. /\ req.sc > 1 /\ cur' = req.offset /\ rem' = req.size
      /\ chunks' = <<>> /\ req' = req
  BY DEF ParallelReadStripes, RefInv, PlanInv
<1>2. req.offset \in Nat /\ req.size \in Nat /\ req.ss \in Nat \ {0}
  <2>1. req.offset \in Offsets /\ req.size \in Sizes /\ req.ss \in StripeSizes
    BY DEF RefInv, PlanInv, PlanTypeOK, Requests
  <2>. QED
    BY <2>1, StripedReadAssumption
<1>3. rem' > 0 => 0 <= (req.offset + req.size - 1) \div req.ss - req.offset \div req.ss
  <2> SUFFICES ASSUME rem' > 0
               PROVE  0 <= (req.offset + req.size - 1) \div req.ss - req.offset \div req.ss
    OBVIOUS
  <2>1. req.size \in Nat \ {0}
    BY <1>1, <1>2
  <2>2. DecomposeShape(req.offset, req.size, req.ss, req.sc)
    BY <1>2, <2>1, DecomposeShapeLemma, Zenon
  <2>3. (req.offset + req.size - 1) \div req.ss - req.offset \div req.ss + 1 \in Nat \ {0}
    BY <2>2 DEF DecomposeShape
  <2>4. (req.offset + req.size - 1) \div req.ss \in Int /\ req.offset \div req.ss \in Int
    BY <1>2
  <2>. QED
    BY <2>3, <2>4
<1>4. rem' = 0 => Decomposition' = <<>>
  BY <1>1 DEF Decomposition, AbsPlan!DecomposeRange
<1>. QED
  BY <1>1, <1>3, <1>4 DEF PlanPrefix

\* Every step of parallelReadStripes keeps the refinement invariant.
LEMMA RefInvStep == RefInv /\ [Next]_vars => RefInv'
<1> SUFFICES ASSUME RefInv, [Next]_vars PROVE RefInv'
  OBVIOUS
<1>1. PlanInv'
  BY PlanInvStep DEF RefInv
<1>2. PlanPrefix'
  <2>1. CASE ParallelReadStripes
    BY <2>1, ParallelReadStripesPrefix
  <2>2. CASE StripeChunkStep
    BY <2>2, StripeChunkStepPrefix
  <2>3. CASE CalculateStripeChunksDone \/ SpawnChunkReader \/ StartWait
             \/ Assemble \/ NextCall
    <3>1. pc' # "plan"
      BY <2>3 DEF CalculateStripeChunksDone, SpawnChunkReader, StartWait,
         Assemble, NextCall
    <3>. QED
      BY <3>1 DEF PlanPrefix
  <2>4. CASE (\E i \in DOMAIN g : AcquireSlot(i) \/ ReadChunk(i))
             \/ UNCHANGED vars
    <3>1. UNCHANGED <<req, pc, cur, rem, chunks>>
      BY <2>4 DEF AcquireSlot, ReadChunk, vars
    <3>. QED
      BY <3>1 DEF RefInv, PlanPrefix, Decomposition
  <2>. QED
    BY <2>1, <2>2, <2>3, <2>4 DEF Next
<1>. QED
  BY <1>1, <1>2 DEF RefInv

\* Once calculateStripeChunks has returned, its chunks tile the requested
\* range exactly, each within one stripe and tagged with it (spec.md 8),
\* for every offset, size, stripe size and stripe count.
THEOREM ChunkPlanTiles == Spec => []ChunksTileRange
<1>1. Init => PlanInv
  BY PlanInvInit
<1>2. PlanInv /\ [Next]_vars => PlanInv'
  BY PlanInvStep
<1>3. PlanInv => ChunksTileRange
  BY DEF PlanInv
<1>. QED
  BY <1>1, <1>2, <1>3, PTL DEF Spec


-----------------------------------------------------------------------------
(* The refinement of StripePlan.                                           *)

\* The decomposition is a sequence: empty for an empty range, else one
\* chunk per block.
LEMMA DecompositionDomain ==
    ASSUME PlanTypeOK
    PROVE  /\ DOMAIN Decomposition = 1 .. Len(Decomposition)
           /\ Decomposition = [j \in 1 .. Len(Decomposition) |-> Decomposition[j]]
<1>1. req.offset \in Nat /\ req.size \in Nat /\ req.ss \in Nat \ {0}
  <2>1. req.offset \in Offsets /\ req.size \in Sizes /\ req.ss \in StripeSizes
    BY DEF PlanTypeOK, Requests
  <2>. QED
    BY <2>1, StripedReadAssumption
<1>2. CASE req.size = 0
  BY <1>2 DEF Decomposition, AbsPlan!DecomposeRange
<1>3. CASE req.size # 0
  <2>1. DecomposeShape(req.offset, req.size, req.ss, req.sc)
    BY <1>1, <1>3, DecomposeShapeLemma, Zenon
  <2>. QED
    BY <2>1 DEF DecomposeShape, Decomposition
<1>. QED
  BY <1>2, <1>3

\* Each step of the striped read is a step of StripePlan or leaves the
\* mapped state alone: the loop's exit publishes the whole decomposition at
\* once, the next call starts a new request, and every other step stutters.
LEMMA PlanStep ==
    RefInv /\ [Next]_vars => [AbsPlan!Decompose \/ AbsPlan!NewRequest]_<<req, absPlanned, absPlan>>
<1> SUFFICES ASSUME RefInv, [Next]_vars
             PROVE  [AbsPlan!Decompose \/ AbsPlan!NewRequest]_<<req, absPlanned, absPlan>>
  OBVIOUS
<1>0. PlanTypeOK /\ req.sc \in Int
  <2>1. PlanTypeOK
    BY DEF RefInv, PlanInv
  <2>2. req.sc \in StripeCounts
    BY <2>1 DEF PlanTypeOK, Requests
  <2>. QED
    BY <2>1, <2>2, StripedReadAssumption
\* Steps that keep the request, keep pc within or outside the planned
\* phase, and keep the chunks once planned, stutter.
<1>1. ASSUME req' = req, chunks' = chunks,
             pc \in {"spawn", "wait", "done"} <=> pc' \in {"spawn", "wait", "done"}
      PROVE  UNCHANGED <<req, absPlanned, absPlan>>
  BY <1>1 DEF absPlanned, absPlan
<1>2. CASE ParallelReadStripes
  <2>1. pc = "start" /\ pc' \in {"plan", "done"} /\ req' = req /\ chunks' = chunks
    BY <1>2 DEF ParallelReadStripes
  <2>2. pc' = "done" => req.sc <= 1
    BY <1>2, <1>0 DEF ParallelReadStripes
  <2>. QED
    BY <2>1, <2>2, <1>0 DEF absPlanned, absPlan
<1>3. CASE StripeChunkStep
  <2>1. pc = "plan" /\ pc' = "plan" /\ req' = req
    BY <1>3 DEF StripeChunkStep
  <2>. QED
    BY <2>1 DEF absPlanned, absPlan
<1>4. CASE CalculateStripeChunksDone
  <2>1. /\ pc = "plan" /\ rem = 0 /\ pc' = "spawn"
        /\ req' = req /\ chunks' = chunks
    BY <1>4, <1>0 DEF CalculateStripeChunksDone, PlanTypeOK
  <2>2. req.sc > 1
    BY <2>1 DEF RefInv, PlanInv
  <2>3. Len(chunks) = Len(Decomposition)
        /\ \A j \in 1 .. Len(chunks) : chunks[j] = Decomposition[j]
    BY <2>1 DEF RefInv, PlanPrefix
  <2>4. chunks = Decomposition
    <3>1. DOMAIN chunks = 1 .. Len(chunks)
      BY <1>0 DEF PlanTypeOK
    <3>2. /\ DOMAIN Decomposition = 1 .. Len(Decomposition)
          /\ Decomposition = [j \in 1 .. Len(Decomposition) |-> Decomposition[j]]
      BY <1>0, DecompositionDomain
    <3>3. chunks = [j \in 1 .. Len(chunks) |-> chunks[j]]
      BY <1>0 DEF PlanTypeOK
    <3>. QED
      BY <2>3, <3>1, <3>2, <3>3
  <2>5. AbsPlan!Decompose
    BY <2>1, <2>2, <2>4 DEF AbsPlan!Decompose, absPlanned, absPlan, Decomposition
  <2>. QED
    BY <2>5
<1>5. CASE SpawnChunkReader \/ StartWait
  BY <1>1, <1>5 DEF SpawnChunkReader, StartWait
<1>6. CASE Assemble
  BY <1>1, <1>6 DEF Assemble
<1>7. CASE NextCall
  <2>1. pc = "done" /\ pc' = "start" /\ req' \in Requests
    BY <1>7 DEF NextCall
  <2>2. AbsPlan!NewRequest
    BY <2>1, <1>0 DEF AbsPlan!NewRequest, absPlanned, absPlan
  <2>. QED
    BY <2>2
<1>8. CASE \E i \in DOMAIN g : AcquireSlot(i) \/ ReadChunk(i)
  BY <1>1, <1>8 DEF AcquireSlot, ReadChunk
<1>9. CASE UNCHANGED vars
  BY <1>1, <1>9 DEF vars
<1>. QED
  BY <1>2, <1>3, <1>4, <1>5, <1>6, <1>7, <1>8, <1>9 DEF Next

\* parallelReadStripes implements StripePlan: seen through the refinement
\* mapping, the chunks calculateStripeChunks builds are, once its loop exits,
\* exactly DecomposeRange of the request, published in one step, for every
\* file, offset, size, stripe size and stripe count (spec.md 8).
THEOREM PlanRefines == Spec => PlanRefinement
<1>1. Init => AbsPlan!Init
  BY DEF Init, AbsPlan!Init, absPlanned, absPlan
<1>2. RefInv /\ [Next]_vars
        => [AbsPlan!Decompose \/ AbsPlan!NewRequest]_<<req, absPlanned, absPlan>>
  BY PlanStep
<1>3. Spec => []RefInv
  BY RefInvInit, RefInvStep, PTL DEF Spec
<1>. QED
  BY <1>1, <1>2, <1>3, PTL DEF Spec, PlanRefinement, AbsPlan!Spec

=============================================================================
