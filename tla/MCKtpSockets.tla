----------------------------- MODULE MCKtpSockets -----------------------------
(* Instances of KtpSockets for TLC.                                           *)
EXTENDS KtpSockets

CONSTANTS p1, p2
===============================================================================
