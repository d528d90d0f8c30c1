--------------------------- MODULE MCPoolAblation ---------------------------
(* Instances of PoolAblation.                                               *)
EXTENDS PoolAblation

\* The second dataset has one object more than the other two, so that half of
\* it can look like the first.
MCExpected == <<1, 2, 1>>

\* Two neighbours have as many objects, and the first dataset has fewer.
MCEqual == <<1, 2, 2>>
=============================================================================
