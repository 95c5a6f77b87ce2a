---------------------------- MODULE StripedRead ----------------------------
(***************************************************************************)
(* The parallel stripe read of the Lustre backend,                         *)
(* parallelReadStripes in src/backend/lustre_enhanced.go.  The calling     *)
(* goroutine plans the chunks with the loop of calculateStripeChunks,      *)
(* spawns one goroutine per chunk, waits on the WaitGroup and assembles    *)
(* the result; the chunk goroutines take a slot of the semaphore and read  *)
(* their chunk with ReadAt.  File bytes are abstracted to their positions, *)
(* so a read returns the positions it read and Zero for the bytes of the   *)
(* buffer it did not fill.                                                 *)
(***************************************************************************)
EXTENDS Integers, Sequences, FiniteSets

CONSTANTS
    FileLen,        \* size of the file being read
    Offsets,        \* offsets a caller passes
    Sizes,          \* sizes a caller passes
    StripeCounts,   \* stripe counts lfs getstripe reports
    StripeSizes,    \* stripe sizes lfs getstripe reports for a file
    NumCPU,         \* runtime.NumCPU()
    IOFaults        \* whether ReadAt may fail with an I/O error

ASSUME StripedReadAssumption ==
    /\ FileLen \in Nat
    /\ Offsets \subseteq Nat
    /\ Sizes \subseteq Nat
    /\ StripeCounts \subseteq Int
    /\ StripeSizes \subseteq Nat \ {0}
    /\ NumCPU \in Nat \ {0}
    /\ IOFaults \in BOOLEAN

\* A byte of a buffer that ReadAt did not fill.
Zero == -1

\* The errors ReadAt returns; NoErr is a nil error.
NoErr == "nil"
Errors == {NoErr, "EOF", "EIO"}

\* The nil slice parallelReadStripes returns with an error.
Nil == <<"nil">>

\* The bytes at positions off .. off+n-1, of which the first k were read.
Filled(off, n, k) == [i \in 1 .. n |-> IF i <= k THEN off + i - 1 ELSE Zero]

Mini(a, b) == IF a <= b THEN a ELSE b
Maxi(a, b) == IF a >= b THEN a ELSE b

\* The outcomes of file.ReadAt(data, off) with len(data) = n: all bytes; a
\* short read at end of file with io.EOF; or, with I/O faults, an error
\* after any prefix.
ReadAt(off, n) ==
    IF n = 0 THEN {[data |-> <<>>, err |-> NoErr]}
    ELSE
      (IF off + n <= FileLen
         THEN {[data |-> Filled(off, n, n), err |-> NoErr]}
         ELSE {[data |-> Filled(off, n, Maxi(0, FileLen - off)), err |-> "EOF"]})
      \cup
      (IF IOFaults THEN {[data |-> Filled(off, n, k), err |-> "EIO"] : k \in 0 .. n - 1}
                   ELSE {})

\* The concurrency limit: min(runtime.NumCPU(), stripeInfo.StripeCount).
MaxConcurrency(sc) == Mini(NumCPU, sc)

Requests == [offset : Offsets, size : Sizes, sc : StripeCounts, ss : StripeSizes]

Chunk == [offset : Nat, size : Nat, stripe : Nat]

VARIABLES
    req,        \* the arguments of the current call
    pc,         \* where the calling goroutine is
    cur,        \* calculateStripeChunks: currentOffset
    rem,        \* calculateStripeChunks: remaining
    chunks,     \* the chunks planned so far
    g,          \* state of each chunk goroutine spawned so far
    results,    \* results[i]: the bytes chunk goroutine i read
    errs,       \* errors[i]: the error it got
    ret         \* the (data, err) returned, once pc = "done"

vars == <<req, pc, cur, rem, chunks, g, results, errs, ret>>

Running == {i \in DOMAIN g : g[i] = "reading"}

TypeOK ==
    /\ req \in Requests
    /\ pc \in {"start", "plan", "spawn", "wait", "done"}
    /\ cur \in Nat /\ rem \in Nat
    /\ chunks \in Seq(Chunk)
    /\ g \in Seq({"blocked", "reading", "finished"})
    /\ results \in Seq(Seq(Nat \cup {Zero}))
    /\ errs \in Seq(Errors)
    /\ ret \in [data : Seq(Nat \cup {Zero}) \cup {Nil}, err : Errors]

Init ==
    /\ req \in Requests
    /\ pc = "start"
    /\ cur = 0 /\ rem = 0
    /\ chunks = <<>> /\ g = <<>> /\ results = <<>> /\ errs = <<>>
    /\ ret = [data |-> <<>>, err |-> NoErr]

-----------------------------------------------------------------------------
(* The calling goroutine.                                                  *)

\* parallelReadStripes: a file with at most one stripe is read with one
\* ReadAt whose buffer and error are both returned; otherwise the chunk
\* planning starts (currentOffset := offset, remaining := size).
ParallelReadStripes ==
    /\ pc = "start"
    /\ \/ /\ req.sc <= 1
          /\ \E r \in ReadAt(req.offset, req.size) : ret' = r
          /\ pc' = "done"
          /\ UNCHANGED <<cur, rem>>
       \/ /\ req.sc > 1
          /\ cur' = req.offset
          /\ rem' = req.size
          /\ pc' = "plan"
          /\ UNCHANGED ret
    /\ UNCHANGED <<req, chunks, g, results, errs>>

\* Mutant: the chunk size ignores the offset within the stripe.
StripeChunkStepUnaligned ==
    LET stripeIndex  == (cur \div req.ss) % req.sc
        chunkSize    == Mini(req.ss, rem)
    IN
    /\ pc = "plan"
    /\ rem > 0
    /\ chunks' = Append(chunks, [offset |-> cur, size |-> chunkSize,
                                 stripe |-> stripeIndex])
    /\ cur' = cur + chunkSize
    /\ rem' = rem - chunkSize
    /\ UNCHANGED <<req, pc, g, results, errs, ret>>

\* Mutant: the chunk size is not capped by what remains.
StripeChunkStepUncapped ==
    LET stripeIndex  == (cur \div req.ss) % req.sc
        chunkSize    == req.ss - (cur % req.ss)
    IN
    /\ pc = "plan"
    /\ rem > 0
    /\ chunks' = Append(chunks, [offset |-> cur, size |-> chunkSize,
                                 stripe |-> stripeIndex])
    /\ cur' = cur + chunkSize
    /\ rem' = rem - chunkSize
    /\ UNCHANGED <<req, pc, g, results, errs, ret>>

\* One iteration of the loop of calculateStripeChunks.
StripeChunkStep ==
    LET stripeIndex  == (cur \div req.ss) % req.sc
        stripeOffset == cur % req.ss
        chunkSize    == Mini(req.ss - stripeOffset, rem)
    IN
    /\ pc = "plan"
    /\ rem > 0
    /\ chunks' = Append(chunks, [offset |-> cur, size |-> chunkSize,
                                 stripe |-> stripeIndex])
    /\ cur' = cur + chunkSize
    /\ rem' = rem - chunkSize
    /\ UNCHANGED <<req, pc, g, results, errs, ret>>

\* The loop ends; results and errors are allocated with one nil slot per
\* chunk.
CalculateStripeChunksDone ==
    /\ pc = "plan"
    /\ rem <= 0
    /\ results' = [i \in 1 .. Len(chunks) |-> <<>>]
    /\ errs' = [i \in 1 .. Len(chunks) |-> NoErr]
    /\ pc' = "spawn"
    /\ UNCHANGED <<req, cur, rem, chunks, g, ret>>

\* wg.Add(1); go func(i, chunk): one goroutine per chunk, in chunk order.
SpawnChunkReader ==
    /\ pc = "spawn"
    /\ Len(g) < Len(chunks)
    /\ g' = Append(g, "blocked")
    /\ UNCHANGED <<req, pc, cur, rem, chunks, results, errs, ret>>

\* The spawning loop ends and wg.Wait() begins.
StartWait ==
    /\ pc = "spawn"
    /\ Len(g) = Len(chunks)
    /\ pc' = "wait"
    /\ UNCHANGED <<req, cur, rem, chunks, g, results, errs, ret>>

\* The concatenation of the first n results, in chunk order.
Concat(rs) ==
    LET c[n \in 0 .. Len(rs)] == IF n = 0 THEN <<>> ELSE c[n - 1] \o rs[n]
    IN  c[Len(rs)]

\* The index of the first chunk whose read failed.
FirstError(es) == CHOOSE i \in DOMAIN es :
                      es[i] # NoErr /\ \A j \in 1 .. i - 1 : es[j] = NoErr

\* wg.Wait() returns once every chunk goroutine is done; the first error in
\* chunk order is returned with a nil slice, else the results concatenated.
Assemble ==
    /\ pc = "wait"
    /\ \A i \in DOMAIN g : g[i] = "finished"
    /\ ret' = IF \E i \in DOMAIN errs : errs[i] # NoErr
                THEN [data |-> Nil, err |-> errs[FirstError(errs)]]
                ELSE [data |-> Concat(results), err |-> NoErr]
    /\ pc' = "done"
    /\ UNCHANGED <<req, cur, rem, chunks, g, results, errs>>

\* The caller issues its next read.
NextCall ==
    /\ pc = "done"
    /\ req' \in Requests
    /\ pc' = "start"
    /\ cur' = 0 /\ rem' = 0
    /\ chunks' = <<>> /\ g' = <<>> /\ results' = <<>> /\ errs' = <<>>
    /\ UNCHANGED ret

-----------------------------------------------------------------------------
(* The chunk goroutines.                                                   *)

\* sem <- struct{}{}: a slot of the semaphore of capacity maxConcurrency.
AcquireSlot(i) ==
    /\ g[i] = "blocked"
    /\ Cardinality(Running) < MaxConcurrency(req.sc)
    /\ g' = [g EXCEPT ![i] = "reading"]
    /\ UNCHANGED <<req, pc, cur, rem, chunks, results, errs, ret>>

\* Mutant: results and errors appended in completion order.
ReadChunkCompletionOrder(i) ==
    LET k == Cardinality({j \in DOMAIN g : g[j] = "finished"}) + 1 IN
    /\ g[i] = "reading"
    /\ \E r \in ReadAt(chunks[i].offset, chunks[i].size) :
          /\ results' = [results EXCEPT ![k] = r.data]
          /\ errs' = [errs EXCEPT ![k] = r.err]
    /\ g' = [g EXCEPT ![i] = "finished"]
    /\ UNCHANGED <<req, pc, cur, rem, chunks, ret>>

\* Mutant: a failed goroutine returns without wg.Done().
ReadChunkSkipsDoneOnError(i) ==
    /\ g[i] = "reading"
    /\ \E r \in ReadAt(chunks[i].offset, chunks[i].size) :
          /\ results' = [results EXCEPT ![i] = r.data]
          /\ errs' = [errs EXCEPT ![i] = r.err]
          /\ g' = [g EXCEPT ![i] = IF r.err = NoErr THEN "finished" ELSE "exited"]
    /\ UNCHANGED <<req, pc, cur, rem, chunks, ret>>

\* file.ReadAt(data, c.Offset); results[index] = data; errors[index] = err;
\* then the deferred <-sem and wg.Done().
ReadChunk(i) ==
    /\ g[i] = "reading"
    /\ \E r \in ReadAt(chunks[i].offset, chunks[i].size) :
          /\ results' = [results EXCEPT ![i] = r.data]
          /\ errs' = [errs EXCEPT ![i] = r.err]
    /\ g' = [g EXCEPT ![i] = "finished"]
    /\ UNCHANGED <<req, pc, cur, rem, chunks, ret>>

-----------------------------------------------------------------------------
(* The chunk plan.                                                         *)

\* The chunks cs cover [from, to) left to right with no gap or overlap, and
\* each is non-empty, lies within one stripe-size block and carries that
\* block's stripe number.
ChunkTiles(cs, from, to, ss, sc) ==
    /\ \A i \in 1 .. Len(cs) :
          /\ cs[i].size >= 1
          /\ cs[i].offset \div ss = (cs[i].offset + cs[i].size - 1) \div ss
          /\ cs[i].stripe = (cs[i].offset \div ss) % sc
          /\ cs[i].offset = IF i = 1 THEN from
                            ELSE cs[i - 1].offset + cs[i - 1].size
    /\ IF cs = <<>> THEN to = from
       ELSE cs[Len(cs)].offset + cs[Len(cs)].size = to

\* Once calculateStripeChunks returns, its chunks tile the requested range
\* exactly, each within one stripe (spec.md 8), so the chunk goroutines
\* together read every byte of the range once.
ChunksTileRange ==
    pc \in {"spawn", "wait", "done"} /\ req.sc > 1 =>
        ChunkTiles(chunks, req.offset, req.offset + req.size, req.ss, req.sc)

-----------------------------------------------------------------------------
Next ==
    \/ ParallelReadStripes
    \/ StripeChunkStep
    \/ CalculateStripeChunksDone
    \/ SpawnChunkReader
    \/ StartWait
    \/ Assemble
    \/ NextCall
    \/ \E i \in DOMAIN g : AcquireSlot(i) \/ ReadChunk(i)

\* The Go scheduler runs every runnable goroutine eventually.  While the
\* caller waits in wg.Wait() the only enabled steps are those of the chunk
\* goroutines, so weak fairness of Next is what the scheduler guarantees.
Spec == Init /\ [][Next]_vars /\ WF_vars(Next)

=============================================================================
