------------------------------ MODULE MCMySmtp ------------------------------
(* Instances of MySmtp.                                                     *)
EXTENDS MySmtp, TLC

\* The user of one session writes a mail, that of the other begins to: its thread
\* may come by all the lines of the first, and be in data mode as well.
Typed ==
  (1 :> <<Line("MAIL FROM", "b"), Line("RCPT TO", "a"), Plain("DATA")>>)
  @@ (2 :> <<Line("MAIL FROM", "b")>>)

\* Nothing; a line that looks like a header and one that there is no room for,
\* and that is a command where it is not text.
Mails == {<<>>, <<Plain("From: "), Line("LIST", "a")>>}
=============================================================================
