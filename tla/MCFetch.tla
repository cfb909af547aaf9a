------------------------------ MODULE MCFetch ------------------------------
EXTENDS Fetch, TLC

CONSTANTS r1, r2, r3, u1, u2, h1, h2, ch1, ch2

MCHostOf == (u1 :> h1) @@ (u2 :> h2)
MCChannelOf == (r1 :> ch1) @@ (r2 :> ch1) @@ (r3 :> ch2)

\* The runs of one channel are alike.
Symmetry == Permutations({r1, r2})
=============================================================================
