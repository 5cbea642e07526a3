---------------------------- MODULE MCUploadReview ----------------------------
(* Uploads, scripts and scenarios are each interchangeable. *)
EXTENDS UploadReview, TLC

Interchangeable ==
    Permutations(Uploads) \cup Permutations(Scripts) \cup Permutations(Scenarios)
=============================================================================
