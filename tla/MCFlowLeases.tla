---------------------------- MODULE MCFlowLeases ----------------------------
(* Small instances of the Convex control plane for TLC.                    *)
EXTENDS FlowLeases, TLC

CONSTANTS e1, e2, g1

\* One event id with a slug of its own.
SingleSlug == (e1 :> g1)
\* Two event ids that differ only in case or punctuation share one.
SharedSlug == (e1 :> g1) @@ (e2 :> g1)

\* A flow package that is absent, or lists every step.
AllOrNone == {{}, Steps \X EventTypes}

\* Requests below and above what leaseMs grants.
TooShort == {-1}
TooShortOrLong == {-1, MaxLease + 1}

Symmetry == Permutations(Workers)
=============================================================================
