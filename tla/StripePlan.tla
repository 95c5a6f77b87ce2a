----------------------------- MODULE StripePlan -----------------------------
(***************************************************************************)
(* What the stripe planner promises (spec.md 4.5 and 8): the chunks of a   *)
(* read are the pieces of [offset, offset+length) cut at the stripe-size  *)
(* boundaries, in order, each tagged with its stripe.  The decomposition  *)
(* is stated in closed form, block by block, rather than as the walk the  *)
(* code performs; the walk is shown to implement it by the refinement in  *)
(* MCStripedRead.                                                          *)
(***************************************************************************)
EXTENDS Integers, Sequences

CONSTANT Requests       \* the reads a caller may issue

VARIABLES
    req,        \* the current read: [offset, size, sc, ss]
    planned,    \* whether its chunks have been planned
    plan        \* its chunks, once planned; empty before

\* Chunk j of the read covers its part of stripe-size block
\* offset \div ss + j - 1; the block's stripe is its number modulo sc.
DecomposeRange(off, len, ss, sc) ==
    IF len <= 0 THEN <<>>
    ELSE LET first == off \div ss
             last  == (off + len - 1) \div ss
             lo(b) == IF off > b * ss THEN off ELSE b * ss
             hi(b) == IF off + len < (b + 1) * ss THEN off + len ELSE (b + 1) * ss
         IN  [j \in 1 .. last - first + 1 |->
                 [offset |-> lo(first + j - 1),
                  size   |-> hi(first + j - 1) - lo(first + j - 1),
                  stripe |-> (first + j - 1) % sc]]

Init == req \in Requests /\ planned = FALSE /\ plan = <<>>

\* A striped read is planned in one step.
Decompose ==
    /\ ~planned
    /\ req.sc > 1
    /\ planned' = TRUE
    /\ plan' = DecomposeRange(req.offset, req.size, req.ss, req.sc)
    /\ UNCHANGED req

\* The next read, once this one is planned or needs no plan.
NewRequest ==
    /\ planned \/ req.sc <= 1
    /\ req' \in Requests
    /\ planned' = FALSE
    /\ plan' = <<>>

Spec == Init /\ [][Decompose \/ NewRequest]_<<req, planned, plan>>

=============================================================================
