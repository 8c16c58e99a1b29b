------------------------------ MODULE MCPublish ------------------------------
(* Instances of the publish pipeline for TLC.                               *)
EXTENDS PublishWorker, TLC

RequestSymmetry == Permutations(Requests)
WorkerSymmetry == Permutations(Workers)
=============================================================================
