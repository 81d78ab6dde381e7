----------------------------- MODULE MCOtpLogin -----------------------------
(***************************************************************************)
(* Small instances of OtpLogin for TLC.                                    *)
(***************************************************************************)
EXTENDS OtpLogin, TLC

CONSTANTS ann, bob

\* Two emails, spelled as normalizeEmail leaves them, and one it rejects.
MCAddresses == {ann, bob, "a\nb"}
MCNormalizeEmail == [a \in MCAddresses |-> IF a = "a\nb" THEN None ELSE a]

\* Two spellings of one email, and one normalizeEmail rejects.
OneAddress == {"ann@x", " Ann@X ", "a\nb"}
OneNormalizeEmail == [a \in OneAddress |-> IF a = "a\nb" THEN None ELSE ann]

\* Nothing in OtpLogin tells two codes, users or requests apart, nor two emails
\* where each is its only spelling.
Symmetry ==
  Permutations(Codes) \cup Permutations(UserIds) \cup Permutations(Requests)
    \cup Permutations(Emails)
=============================================================================
