----------------------------- MODULE MCSdkIngest -----------------------------
(***************************************************************************)
(* SdkIngest on small instances: what the events of two processes count    *)
(* toward.                                                                 *)
(***************************************************************************)
EXTENDS SdkIngest, TLC

CONSTANTS c1, c2, b1, b2, r1, ann, ben

\* two processes make calls for the same two employees, in opposite orders
EmployeeCalls == (<<c1, 1>> :> b1) @@ (<<c1, 2>> :> b2)
                 @@ (<<c2, 1>> :> b2) @@ (<<c2, 2>> :> b1)
AnnAndBen == (b1 :> ann) @@ (b2 :> ben)

NobodysBuckets == (b1 :> Nobody) @@ (b2 :> Nobody)

\* one call each, in one bucket; one call of one process
SharedBucket == (<<c1, 1>> :> b1) @@ (<<c2, 1>> :> b1)
OneCall == <<c1, 1>> :> b1

\* one process states an outcome three times; its second event is one the
\* server rejects
Restatements == (<<c1, 1>> :> r1) @@ (<<c1, 3>> :> r1) @@ (<<c1, 4>> :> r1)

NoCalls == [e \in {} |-> b1]
NoOutcomes == [e \in {} |-> r1]

Symmetry == Permutations(Slots)
=============================================================================
