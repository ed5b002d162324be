---------------------------- MODULE MCAttempts -----------------------------
EXTENDS Attempts, TLC

CONSTANTS d1, d2, b1, k1, g1, submit1, submit2, sign1, sign2, again, run1, out1

\* A submission sent twice with one key and a run without a key, from one
\* browser, which signs in and out.
RetryRequest == {submit1, again, run1, sign1, out1}
RetryKindOf == [r \in RetryRequest |->
  CASE r = sign1 -> "google" [] r = out1 -> "logout" [] r = run1 -> "run" [] OTHER -> "submit"]
RetryDeviceOf == [r \in RetryRequest |-> d1]
RetryKeyOf == [r \in RetryRequest |-> IF r \in {submit1, again} THEN k1 ELSE NoKey]
RetryAccountOf == [r \in RetryRequest |-> g1]

\* The two submissions are interchangeable.
RetrySymmetry == Permutations({submit1, again})

\* One browser before and after its storage was cleared: two devices with a
\* submission without a key and a sign-in each, to one account.
MergeRequest == {submit1, submit2, sign1, sign2}
MergeKindOf == [r \in MergeRequest |-> IF r \in {sign1, sign2} THEN "google" ELSE "submit"]
MergeDeviceOf == [r \in MergeRequest |-> IF r \in {submit1, sign1} THEN d1 ELSE d2]
MergeKeyOf == [r \in MergeRequest |-> NoKey]
MergeAccountOf == [r \in MergeRequest |-> g1]

OneBrowser == [d \in Device |-> b1]

\* Student identifiers are interchangeable, and so are the two devices, each
\* with its requests.
Swap(x, y) == (x :> y) @@ (y :> x)
MergeSymmetry ==
  Permutations(StudentId) \cup
  {Swap(d1, d2) @@ Swap(submit1, submit2) @@ Swap(sign1, sign2)}

=============================================================================
