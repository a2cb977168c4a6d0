-------------------------- MODULE MCDocumentPipeline --------------------------
(***************************************************************************)
(* Instances of DocumentPipeline for TLC: two contents, one of them        *)
(* uploaded twice; and, where workers are lost and liveness is checked,    *)
(* one content uploaded again and again.                                   *)
(***************************************************************************)
EXTENDS DocumentPipeline, TLC

CONSTANTS d1, d2, u1, u2, u3, w1, w2

MCDocs == {d1, d2}
MCUploads == {u1, u2, u3}
MCContent == u1 :> d1 @@ u2 :> d1 @@ u3 :> d2
MCWorkers == {w1, w2}

\* The same content every time: what its uploads do to each other.
OneDoc == {d1}
TwoUploads == {u1, u2}
SameContent == [u \in TwoUploads |-> d1]

\* Workers are interchangeable; used where no liveness is checked.
WorkerSymmetry == Permutations(MCWorkers)

=============================================================================
