---------------------------- MODULE MCOtpService ----------------------------
EXTENDS OtpService, TLC

\* Verifications are interchangeable.
VerifySymmetry == Permutations(Verifies)
=============================================================================
