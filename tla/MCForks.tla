------------------------------- MODULE MCForks -------------------------------
(* Forks on a charge before a mail that leaks, and on such a mail between a *)
(* read of personal data and a lookup.                                      *)
EXTENDS Forks

call(name, effect, leaks) ==
  [request |-> name, effect |-> effect, leaks |-> leaks]

Read == call("read", "none", FALSE)
Charge == call("charge", "irreversible", FALSE)
Leak == call("leak", "irreversible", TRUE)

Look == call("look", "none", FALSE)

Mixed == {<<Charge, Leak>>, <<Read, Leak, Look>>}

(* An approval takes the address out of the body of the mail and sends it   *)
(* to one, which the answer repeats, or charges another customer.           *)
Mail == call("mail", "irreversible", FALSE)
Other == call("other", "irreversible", FALSE)
Changed == {<<Leak, Mail>>, <<Charge, Other>>}

Chosen == {<<"approval">>, <<"injection_guard", "pii_mask">>,
           <<"dlp_block", "result_drop">>}
=============================================================================
