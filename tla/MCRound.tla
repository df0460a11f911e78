------------------------------- MODULE MCRound -------------------------------
(* Round on batches of three calls: a read before two effects, one of them  *)
(* leaking, and three effects, one above the budget.                         *)
EXTENDS Round

call(request, effect, leaks) ==
  [request |-> request, effect |-> effect, leaks |-> leaks]

Charge == call("charge", "irreversible", FALSE)
Refund == call("refund", "irreversible", FALSE)
Mail == call("mail", "irreversible", FALSE)
Leak == call("leak", "irreversible", TRUE)
Read == call("read", "none", FALSE)

Mixed == {<<Read, Charge, Leak>>, <<Charge, Refund, Mail>>}

(* An edit takes the address out of a mail or puts one in, and makes the    *)
(* request of another call, or one nobody made.                             *)
Changed == {<<Leak, Mail>>, <<Mail, Leak>>, <<Charge, Refund>>}
=============================================================================
