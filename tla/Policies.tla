------------------------------ MODULE Policies ------------------------------
(***************************************************************************)
(* The gates of console/units.py: what a set of selected units says of a   *)
(* tool call before it runs, and again when a person has approved it.      *)
(*                                                                         *)
(* A call is a record of its request (tool and arguments), the effect the  *)
(* tool declares, and leaks: an outbound call whose body or subject        *)
(* carries an e-mail address or an SSN. made is the framework's            *)
(* calls_made: the whole batch the model asked for, in the order it asked, *)
(* as the model asked for it. The call a gate is asked about may differ.   *)
(***************************************************************************)
EXTENDS Integers, FiniteSets, Sequences

Units == {"approval", "dlp_block", "rate_cap"}
EffectClass == {"none", "record", "irreversible"}
CallType(Request) ==
  [request : Request, effect : EffectClass, leaks : BOOLEAN]

BUDGET == 2

(* The effects of a batch that leave the world changed. *)
Irreversible(made) == {i \in DOMAIN made : made[i].effect = "irreversible"}

(* Mutant: a raw count of the batch. *)
Rank_Raw(made, call) == Cardinality(Irreversible(made))

(* 1-based position among the irreversible requests: those before the first *)
(* equal one are counted. A call that equals none, as one whose arguments   *)
(* the person approving it has changed, comes after them all.               *)
Rank(made, call) ==
  LET world == Irreversible(made)
      equal == {i \in world : made[i].request = call.request}
  IN  Cardinality({i \in world : \A j \in equal : i < j}) + 1

approval(call) == IF call.effect = "none" THEN "continue" ELSE "suspend"

dlp_block(call) == IF call.leaks THEN "deny" ELSE "continue"

rate_cap(made, call) ==
  IF call.effect = "irreversible" /\ Rank(made, call) > BUDGET
  THEN "deny" ELSE "continue"

Verdicts(units, made, call) ==
  {CASE u = "approval"  -> approval(call)
     [] u = "dlp_block" -> dlp_block(call)
     [] u = "rate_cap"  -> rate_cap(made, call) : u \in units}

(* The composer: a denial outranks a suspension, whatever the order.       *)
Permissions(units, made, call) ==
  LET verdicts == Verdicts(units, made, call)
  IN  IF "deny" \in verdicts THEN "deny"
      ELSE IF "suspend" \in verdicts THEN "suspend" ELSE "continue"

(* Mutant: an approval is the last word. *)
revalidate_Never(units, made, call) == "continue"

(* on_resume: the gates in force now. The answer is the one a suspension   *)
(* was waiting for; a denial outranks it.                                  *)
revalidate(units, made, call) ==
  IF Permissions(units, made, call) = "deny" THEN "deny" ELSE "continue"

(* Where a scenario that crashes kills its worker. The one that leaves its *)
(* effect undecided is left to SessionStep.                                *)
crash_point(crashes, units) ==
  IF ~crashes THEN "none"
  ELSE IF "approval" \in units THEN "gate" ELSE "commit"
=============================================================================
