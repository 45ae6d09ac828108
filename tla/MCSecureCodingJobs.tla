------------------------- MODULE MCSecureCodingJobs -------------------------
(* Instances of SecureCodingJobs for TLC. *)
EXTENDS SecureCodingJobs, TLC

\* The default of _resolve_candidate_image: a tag of its own for each patch.
TagPerPatch == [p \in Patches |-> p]

\* docker-compose.real.yml: SECURE_CODING_BUILD_IMAGE_TAG is one fixed tag.
FixedTag == [p \in Patches |-> "real-latest"]

\* Jobs, patch ids and the two processes are interchangeable.
Symmetry == Permutations(Events) \cup Permutations(Patches) \cup Permutations(Threads)
=============================================================================
