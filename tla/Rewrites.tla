------------------------------ MODULE Rewrites ------------------------------
(***************************************************************************)
(* The units of console/units.py that rewrite the result of a tool before  *)
(* it goes into the journal, and the composer that runs the selected ones  *)
(* one after the other over the same result.                               *)
(*                                                                         *)
(* Of a result: what its text is, whether the text still holds an e-mail   *)
(* address or an SSN (secret), which unit rewrote it last (redacted_by; of *)
(* a refusal, the unit that refused), and its replay mark.                 *)
(***************************************************************************)
EXTENDS Sequences, SequencesExt

Rewriting == {"pii_mask", "context_firewall", "injection_guard", "result_drop"}
Text == {"none", "plain", "masked", "notice", "structure", "dropped",
         "refused", "asked"}

result(text, secret, unit) ==
  [text |-> text, secret |-> secret, redacted_by |-> unit, replayed |-> FALSE]
NoResult == result("none", FALSE, "none")

rewritten(r, text, secret, unit) ==
  [r EXCEPT !.text = text, !.secret = secret, !.redacted_by = unit]

pii_mask(r) == IF r.secret THEN rewritten(r, "masked", FALSE, "pii_mask") ELSE r

context_firewall(r) ==
  IF r.secret THEN rewritten(r, "notice", FALSE, "context_firewall") ELSE r

injection_guard(r) ==
  IF r.redacted_by = "injection_guard" THEN r
  ELSE rewritten(r, "structure", r.secret, "injection_guard")

result_drop(r) == rewritten(r, "dropped", FALSE, "result_drop")

Rewrite(unit, r) ==
  CASE unit = "pii_mask"         -> pii_mask(r)
    [] unit = "context_firewall" -> context_firewall(r)
    [] unit = "injection_guard"  -> injection_guard(r)
    [] unit = "result_drop"      -> result_drop(r)
    [] OTHER                     -> r

(* Mutant: only the first rewriting unit is run. *)
Journal_First(units, r) ==
  LET chosen == SelectSeq(units, LAMBDA u : u \in Rewriting)
  IN  IF chosen = <<>> THEN r ELSE Rewrite(Head(chosen), r)

(* units is in the order of the request. *)
Journal(units, r) == FoldLeft(LAMBDA acc, u : Rewrite(u, acc), r, units)

(* The units that changed something of the result. *)
Changing(units, r) ==
  {units[i] : i \in {j \in DOMAIN units :
     LET before == Journal(SubSeq(units, 1, j - 1), r)
     IN  Rewrite(units[j], before) # before}}
=============================================================================
