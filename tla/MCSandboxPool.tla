--------------------------- MODULE MCSandboxPool ---------------------------
EXTENDS SandboxPool, TLC

\* Attempts and sandboxes are interchangeable.
Symmetry == Permutations(Attempt) \cup Permutations(Sandbox)

=============================================================================
