-------------------------- MODULE MCLargeMailStore --------------------------
(* Instances of LargeMailStore for TLC.                                    *)
EXTENDS LargeMailStoreRefinement, TLC

CONSTANTS m1, m2

TwoMails == {m1, m2}
MailSymmetry == Permutations(TwoMails)

=============================================================================
