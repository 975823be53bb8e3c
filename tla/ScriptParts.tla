----------------------------- MODULE ScriptParts -----------------------------
(***************************************************************************)
(* What the scripts of module Scripts contain: the words of the proofs     *)
(* about the specifications that use them.                                 *)
(***************************************************************************)
EXTENDS Scripts, Naturals

\* The script s contains an operation of S.
Has(s, S) == \E i \in 1 .. Len(s) : s[i] \in S

\* In the script s an operation of B follows each of A.
Followed(s, A, B) ==
    \A i \in 1 .. Len(s) : s[i] \in A => \E j \in i + 1 .. Len(s) : s[j] \in B

\* The script s contains one operation of A at most.
Once(s, A) == \A i, j \in 1 .. Len(s) : s[i] \in A /\ s[j] \in A => i = j

\* An operation of A is the last of the script s.
Final(s, A) == \A i \in 1 .. Len(s) : s[i] \in A => i = Len(s)
=============================================================================
