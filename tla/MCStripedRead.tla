--------------------------- MODULE MCStripedRead ---------------------------
(***************************************************************************)
(* TLC instantiation of StripedRead, with its properties and the           *)
(* refinement of the chunk-planning loop into StripePlan.                  *)
(***************************************************************************)
EXTENDS StripedRead

-----------------------------------------------------------------------------
(* Properties.                                                             *)

\* Refinement: the loop of calculateStripeChunks, run step by step by the
\* calling goroutine of parallelReadStripes, produces exactly the chunks of
\* the spec's DecomposeRange: the range cut at stripe boundaries, in order,
\* with the right stripe numbers.
\* The refinement mapping: a striped read is planned once the loop has
\* exited, and its plan is then the chunks the loop built.
absPlanned == pc \in {"spawn", "wait", "done"} /\ req.sc > 1
absPlan    == IF absPlanned THEN chunks ELSE <<>>

AbsPlan == INSTANCE StripePlan WITH planned <- absPlanned, plan <- absPlan

PlanRefinement == AbsPlan!Spec

\* parallelReadStripes returns the bytes of exactly [offset, offset+size) in
\* order when it reports success, whatever order the chunk goroutines finish
\* in; and it reports an error whenever a chunk runs past the end of the
\* file (spec.md 4.6).
ReadResultCorrect ==
    pc = "done" /\ req.sc > 1 =>
        IF \E i \in 1 .. Len(chunks) :
               chunks[i].offset + chunks[i].size > FileLen
        THEN ret.err # NoErr
        ELSE ret.err = NoErr => ret.data = Filled(req.offset, req.size, req.size)

\* Every read returns: the chunk goroutines all get a semaphore slot and
\* finish, so wg.Wait() returns.
ReadReturns == pc # "done" ~> pc = "done"

=============================================================================
