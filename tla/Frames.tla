-------------------------------- MODULE Frames --------------------------------
(***************************************************************************)
(* What a stream makes of the events and hooks of its attempt (on_event,   *)
(* publish and _project_event of console/server.py): the rows about tool   *)
(* calls, and how often each unit fired.                                   *)
(*                                                                         *)
(* An emission says to which of the two it goes ("event" or "hook"), its   *)
(* type, the call it names, and of an answer the result and whether the    *)
(* call was executed.                                                      *)
(***************************************************************************)
EXTENDS Rewrites, Integers, FiniteSets

emission(to, type, c, executed, r) ==
  [to |-> to, type |-> type, call |-> c, executed |-> executed, result |-> r]
hook(type, c) == emission("hook", type, c, FALSE, NoResult)

row(kind, c, unit, r) == [kind |-> kind, call |-> c, unit |-> unit, result |-> r]

(* The state of _stream: calls shown and not yet answered, denials and      *)
(* rewrites shown at their hook, calls announced by a hook, results held    *)
(* back, and the calls whose result has arrived.                            *)
EmptyStream ==
  [pending_calls |-> {}, projected_denials |-> {}, announced_rewrites |-> {},
   replayed_calls |-> {}, deferred_results |-> {}, answered |-> {},
   rows |-> <<>>]

(* put. A row of a unit is marked as it is put, so fired is how many there  *)
(* are.                                                                     *)
shown(s, rows) == [s EXCEPT !.rows = @ \o rows]

fired(s, unit) ==
  Cardinality({i \in DOMAIN s.rows : s.rows[i].kind = "unit" /\ s.rows[i].unit = unit})

unitRow(e) == row("unit", e.call, e.result.redacted_by, NoResult)

(* Mutant of _project_event: a denial shown at its hook is shown again. *)
refusal_Again(s, e) == <<unitRow(e), row("blocked", e.call, "none", NoResult),
                         row("result", e.call, "none", e.result)>>

(* A refusal: the verdict unless its hook has shown it, the call again as   *)
(* blocked, and the refusal as its result.                                  *)
refusal(s, e) ==
  (IF e.call \in s.projected_denials THEN <<>> ELSE <<unitRow(e)>>)
    \o <<row("blocked", e.call, "none", NoResult),
         row("result", e.call, "none", e.result)>>

(* A result that counts as executed is told as rewritten by the unit it     *)
(* names; a refusal that counts as executed names none.                     *)
on_event(s, e) ==
  LET t == [s EXCEPT !.pending_calls = @ \ {e.call},
                     !.answered = @ \cup {e.call}]
  IN  CASE e.type = "tool_call" ->
             shown([s EXCEPT !.pending_calls = @ \cup {e.call}],
                   <<row("call", e.call, "none", NoResult)>>)
        [] e.type = "tool_result" /\ ~e.executed ->
             IF e.result.text = "asked" THEN shown(t, <<unitRow(e)>>)
             ELSE shown([t EXCEPT !.projected_denials = @ \ {e.call}],
                        refusal(s, e))
        [] e.type = "tool_result" /\ e.executed ->
             shown([t EXCEPT !.announced_rewrites = @ \ {e.call}],
                   (IF \/ e.result.redacted_by = "none"
                       \/ e.result.text = "refused"
                       \/ e.call \in s.announced_rewrites
                    THEN <<>> ELSE <<unitRow(e)>>)
                     \o <<row("result", e.call, "none", e.result)>>)

(* A call no event has announced is announced by the first hook that names  *)
(* it.                                                                      *)
announce(s, e) ==
  IF \/ e.type \notin {"pre_tool_use", "post_tool_use"}
     \/ e.call \in s.pending_calls \cup s.replayed_calls
  THEN s
  ELSE shown([s EXCEPT !.replayed_calls = @ \cup {e.call},
                       !.pending_calls = @ \cup {e.call}],
             <<row("call", e.call, "none", NoResult)>>)

denial(s, e) ==
  IF e.type = "permission_denied" /\ e.call \notin s.projected_denials
  THEN shown([s EXCEPT !.projected_denials = @ \cup {e.call}], <<unitRow(e)>>)
  ELSE s

(* A held result goes out when it enters the context, if none has come.     *)
released(s, e) ==
  LET held == {w \in s.deferred_results : w.call = e.call}
      t == [s EXCEPT !.deferred_results = @ \ held]
  IN  IF e.type # "context_injected" THEN s
      ELSE IF held = {} \/ e.call \in s.answered THEN t
           ELSE shown(t, <<CHOOSE w \in held : TRUE>>)

boundary(s, e) ==
  IF e.type # "post_tool_use" THEN s
  ELSE LET held == IF e.call \in s.replayed_calls
                   THEN {row("result", e.call, "none", e.result)} ELSE {}
           t == [s EXCEPT !.deferred_results = @ \cup held,
                          !.replayed_calls = @ \ {e.call},
                          !.pending_calls = IF held = {} THEN @ ELSE @ \ {e.call}]
       IN  IF e.result.redacted_by = "none" THEN t
           ELSE shown([t EXCEPT !.announced_rewrites = @ \cup {e.call}],
                      <<unitRow(e)>>)

publish(s, e) ==
  boundary(shown(released(denial(announce(s, e), e), e),
                 <<row("hook", e.call, e.type, NoResult)>>), e)

project(s, e) == IF e.to = "event" THEN on_event(s, e) ELSE publish(s, e)

projected(s, emissions) == FoldLeft(project, s, emissions)

(* The members of a set of numbers, in order. *)
InOrder(S) ==
  CHOOSE q \in [1..Cardinality(S) -> S] :
    \A i, j \in DOMAIN q : i < j => q[i] < q[j]

(* The outcome: what is still held goes out (run_attempt). *)
flushed(s) ==
  LET held == {w \in s.deferred_results : w.call \notin s.answered}
      calls == {w.call : w \in held}
  IN  shown([s EXCEPT !.deferred_results = {}],
            [i \in 1..Cardinality(calls) |->
               CHOOSE w \in held : w.call = InOrder(calls)[i]])
=============================================================================
