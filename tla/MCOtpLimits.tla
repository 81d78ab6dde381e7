----------------------------- MODULE MCOtpLimits -----------------------------
(***************************************************************************)
(* The small instances of MCOtpLogin, with the history of OtpLimits.       *)
(***************************************************************************)
EXTENDS OtpLimits, MCOtpLogin
=============================================================================
