-------------------------------- MODULE Forks --------------------------------
(***************************************************************************)
(* The versions of one conversation: a run and the forks made of it and of *)
(* its forks (fork of console/server.py, resume_history and run_from_event *)
(* of console/fork_demo.py), each with the hooks of its batch of calls     *)
(* (ObservedControls, console/runtime.py) and the stream of its attempt.   *)
(*                                                                         *)
(* Versions run side by side; the calls of one take turns. A hook is one   *)
(* step: deaths and cancellations inside it are the subject of Round.      *)
(* Of a native history: the calls of each response and the returns of each *)
(* request, from the response that asked for the batch.                    *)
(***************************************************************************)
EXTENDS Policies, Frames

CONSTANTS Batches,      \* the batches the model may ask for
          Edits,        \* pairs: a call and what an approval may make of it
          Selections,   \* the sequences of units a request may select
          Private,      \* the requests whose result holds personal data
          Charges,      \* the requests that charge a customer
          MaxBranches,  \* bound: versions
          MaxStreams,   \* bound: attempts of all versions
          MaxActive     \* bound: attempts at a time

ASSUME BatchesAreCalls ==
  \A batch \in Batches :
    batch \in Seq(CallType({batch[i].request : i \in DOMAIN batch}))
ASSUME EditsKeepTheTool ==
  \A e \in Edits :
    /\ e[2] \in CallType({e[2].request})
    /\ e[2].effect = e[1].effect
    /\ e[2].request \in Charges <=> e[1].request \in Charges
ASSUME SelectionsAreLists ==
  Selections \subseteq Seq(STRING) /\ <<"unused">> \notin Selections
ASSUME ForkBounds ==
  MaxBranches \in Nat /\ MaxStreams \in Nat /\ MaxActive \in Nat

Branch == 1..MaxBranches

(* Without rate_cap, which counts what the engine logs of a fork. *)
Gates == Units \ {"rate_cap"}

VARIABLES
  made,      \* the calls of the batch; a call is its place in it
  history,   \* the native history of a version
  session,   \* what the server keeps of a version
  engine,    \* what the engine keeps of it: the calls as they are carried
             \* out, records, answers, parked calls
  attempt,   \* its attempt and the progress of each call in it
  observed,  \* its ObservedControls, and what units did under them
  stream,    \* the rows it has shown
  points,    \* the checkpoints in the transcript
  paid,      \* the payments the provider has made
  bodies,    \* history: the bodies that ran
  surfaced   \* history: the results that went into a journal

vars == <<made, history, session, engine, attempt, observed, stream, points,
          paid, bodies, surfaced>>

Calls == DOMAIN made
raw(call) == result("plain", call.request \in Private, "none")

(* What a person who approves a call may make of it: the call as it is, or  *)
(* one with other arguments.                                                *)
Edited(call) == {call} \cup {e[2] : e \in {d \in Edits : d[1] = call}}

----------------------------------------------------------------------------
(* Native histories. *)

response(calls) == [kind |-> "response", calls |-> calls, returns |-> <<>>]
request(returns) == [kind |-> "request", calls |-> <<>>, returns |-> returns]

Requested(h) == UNION {Range(h[i].calls) : i \in DOMAIN h}
Returns(h) == UNION {Range(h[i].returns) : i \in DOMAIN h}
Returned(h) == {r.call : r \in Returns(h)}

calls_made(h) == FoldLeft(LAMBDA acc, m : acc \o m.calls, <<>>, h)
without(calls, S) ==
  FoldLeft(LAMBDA acc, c : IF c \in S THEN acc ELSE Append(acc, c), <<>>, calls)
unanswered(h) == without(calls_made(h), Returned(h))

(* Mutant: the pending calls stay where they were, too. *)
resume_history_Twice(h) ==
  IF unanswered(h) = <<>> \/ h[Len(h)].kind = "response" THEN h
  ELSE Append(h, response(unanswered(h)))

(* The pending calls of the last response move to one of their own at the   *)
(* end; a response that is left empty goes.                                 *)
resume_history(h) ==
  LET pending == Range(unanswered(h))
      last == CHOOSE i \in DOMAIN h :
                /\ h[i].kind = "response"
                /\ \A j \in DOMAIN h : h[j].kind = "response" => j <= i
      kept == without(h[last].calls, pending)
  IN  IF pending = {} \/ h[Len(h)].kind = "response" THEN h
      ELSE SubSeq(h, 1, last - 1)
             \o (IF kept = <<>> THEN <<>> ELSE <<response(kept)>>)
             \o SubSeq(h, last + 1, Len(h))
             \o <<response(without(h[last].calls, Range(kept)))>>

(* The history an attempt sees, and its results that are not in it. *)
checkpoint(h, results) ==
  LET more == {c \in Calls : results[c] # NoResult} \ Returned(h)
  IN  IF more = {} THEN h
      ELSE Append(h, request(
             [i \in 1..Cardinality(more) |->
                LET c == InOrder(more)[i]
                IN  [call |-> c, result |-> results[c]]]))

point(b, at, c, results) ==
  [branch |-> b, boundary |-> at, call |-> c,
   history |-> checkpoint(history[b], results)]

----------------------------------------------------------------------------
noResults == [c \in Calls |-> NoResult]
noWord == [c \in Calls |-> "none"]

NewControls == [results |-> noResults, announced |-> {}, answered |-> {},
                replayed |-> {}, acted |-> {}]

NewAttempt(kind) ==
  [mode |-> "opening", kind |-> kind, at |-> [c \in Calls |-> "todo"],
   ran |-> {}]

begin(b, kind) ==
  /\ Cardinality({d \in Branch : attempt[d].mode \notin {"idle", "parked", "done"}})
       < MaxActive
  /\ MapThenSumSet(LAMBDA d : session[d].streams, Branch) < MaxStreams
  /\ attempt' = [attempt EXCEPT ![b] = NewAttempt(kind)]
  /\ observed' = [observed EXCEPT ![b] = NewControls]
  /\ stream' = [stream EXCEPT ![b] = EmptyStream]

Unused == {b \in Branch : session[b].units = <<"unused">>}
Next_(b) == b \in Unused /\ \A d \in Unused : b <= d

NewSession(u, intent, source, regate, line) ==
  [units |-> u, intent |-> intent, source |-> source, regate |-> regate,
   terminal |-> FALSE, forkable |-> {}, line |-> line, streams |-> 1]

(* Where a conversation starts. *)
Origin == [branch |-> 0, boundary |-> "input", call |-> 0, history |-> <<>>]

Run(u) ==
  /\ Next_(1)
  /\ session' = [session EXCEPT ![1] = NewSession(u, 1, Origin, TRUE, {1})]
  /\ begin(1, "run")
  /\ UNCHANGED <<made, history, engine, points, paid, bodies, surfaced>>

(* Mutant: a version pays under its own name. *)
inherited_Own(b, p) == b

(* A child serves the request of its source: it pays under the same key.    *)
inherited(b, p) == session[p.branch].intent

(* Mutant: what the parent has recorded is not copied. *)
copied_None(p) == noResults

(* Semora copies the finished effects of the calls in the history: of the   *)
(* batch, unless the model is asked again.                                  *)
copied(p) ==
  IF p.boundary = "input" THEN noResults ELSE engine[p.branch].ledger

(* POST /api/fork, from a restore point of a version that has finished.     *)
Fork(b, p, u, rejournal) ==
  LET h == resume_history(p.history)
  IN  /\ Next_(b)
      /\ session[p.branch].terminal
      /\ p \in session[p.branch].forkable
      /\ session' = [session EXCEPT ![b] =
           NewSession(u, inherited(b, p), p, ~rejournal,
                      IF p.boundary = "input" THEN {b}
                      ELSE session[p.branch].line \cup {b})]
      /\ history' = [history EXCEPT ![b] = h]
      /\ engine' = [engine EXCEPT ![b].ledger = copied(p)]
      /\ begin(b, "fork")
      /\ UNCHANGED <<made, points, paid, bodies, surfaced>>

(* POST /api/resume. An approval may replace the arguments of the call. *)
Resume(b, c, says, call, u) ==
  /\ attempt[b].mode = "parked"
  /\ c \in engine[b].asked
  /\ engine[b].said[c] = "none"
  /\ call \in (IF says = "approve" THEN Edited(made[c]) ELSE {made[c]})
  /\ engine' = [engine EXCEPT ![b].said[c] = says, ![b].called[c] = call]
  /\ session' = [session EXCEPT ![b].units = u, ![b].streams = @ + 1]
  /\ begin(b, "resume")
  /\ UNCHANGED <<made, history, points, paid, bodies, surfaced>>

(* A run, and a fork from its input, begin with on_inputs; the model then   *)
(* asks for the batch.                                                      *)
Open(b) ==
  /\ attempt[b].mode = "opening"
  /\ attempt' = [attempt EXCEPT ![b].mode = "running"]
  /\ IF attempt[b].kind # "resume" /\ session[b].source.boundary = "input"
     THEN LET p == point(b, "input", 0, noResults)
          IN  /\ points' = points \cup {p}
              /\ session' = [session EXCEPT ![b].forkable = @ \cup {p}]
              /\ history' = [history EXCEPT ![b] =
                               <<response([c \in Calls |-> c])>>]
     ELSE UNCHANGED <<points, session, history>>
  /\ UNCHANGED <<made, engine, observed, stream, paid, bodies, surfaced>>

----------------------------------------------------------------------------
(* The hooks of a call, when those before it in the batch are settled.      *)

(* The framework resumes the calls of a final response; after anything else *)
(* it asks the model.                                                       *)
Pending(b) ==
  LET h == history[b]
  IN  IF h # <<>> /\ h[Len(h)].kind = "response" THEN Range(h[Len(h)].calls)
      ELSE {}

settled(b) == {c \in Calls : attempt[b].at[c] \in {"asked", "answered"}}
Waiting(b) == {c \in engine[b].asked : engine[b].said[c] = "none"}
Ready(b) == attempt[b].mode = "running" /\ Waiting(b) = {}
Turn(b, c) ==
  /\ Ready(b)
  /\ c \in Pending(b)
  /\ \A d \in Pending(b) : d < c => d \in settled(b)

Recorded(b, c) == engine[b].ledger[c] # NoResult

(* Mutant: a call is never announced. *)
_announce_Never(b, c) == <<>>

_announce(b, c) ==
  IF c \in observed[b].announced THEN <<>>
  ELSE <<emission("event", "tool_call", c, FALSE, NoResult)>>

_decision(c, r) ==
  IF r.text = "asked" THEN <<emission("event", "tool_result", c, FALSE, r)>>
  ELSE <<emission("hook", "permission_denied", c, FALSE, r),
         emission("event", "tool_result", c, FALSE, r),
         hook("context_injected", c)>>

gatesOf(b) == Range(session[b].units) \cap Gates

(* What becomes of a verdict of the gates: go on, or a refusal or a request *)
(* of one of them.                                                          *)
Decisions(b, c, verdict) ==
  CASE verdict = "continue" -> {NoResult}
    [] verdict = "suspend"  -> {result("asked", FALSE, "approval")}
    [] verdict = "deny"     ->
         {result("refused", FALSE, d) :
            d \in {x \in gatesOf(b) :
                    Permissions({x}, made, engine[b].called[c]) = "deny"}}

emit(b, emissions) ==
  stream' = [stream EXCEPT ![b] = projected(@, emissions)]

(* A gate: its hooks, its coordinate, and what comes of decision r. One     *)
(* that reads the record notes a call that will be replayed. A call that    *)
(* was refused has its result, which makes its gates restore points.        *)
gate(b, c, hooks, reads, r) ==
  LET refused == r.text = "refused"
      results == [observed[b].results EXCEPT ![c] = r]
      before == point(b, "tool", c, observed[b].results)
      after == point(b, "result", c, results)
      gates == {p \in points : p.branch = b /\ p.boundary = "tool" /\ p.call = c}
  IN  /\ emit(b, _announce(b, c) \o hooks
                   \o (IF r = NoResult THEN <<>> ELSE _decision(c, r)))
      /\ observed' = [observed EXCEPT
           ![b].announced = @ \cup {c},
           ![b].answered = IF r = NoResult THEN @ ELSE @ \cup {c},
           ![b].results = IF refused THEN results ELSE @,
           ![b].replayed = IF Recorded(b, c) /\ reads THEN @ \cup {c} ELSE @,
           ![b].acted = IF r = NoResult THEN @
                        ELSE @ \cup {<<c, r.redacted_by>>}]
      /\ attempt' = [attempt EXCEPT
           ![b].at[c] = CASE r = NoResult -> "let"
                          [] refused      -> "answered"
                          [] OTHER        -> "asked"]
      /\ engine' = [engine EXCEPT ![b].answer[c] = IF refused THEN r ELSE @]
      /\ points' = points \cup {before} \cup (IF refused THEN {after} ELSE {})
      /\ session' = [session EXCEPT ![b].forkable =
           IF refused THEN @ \cup gates \cup {before, after} ELSE @]
      /\ UNCHANGED <<made, history, paid, bodies, surfaced>>

(* Mutant: whatever the request says. *)
Skips_Always(b, c) == attempt[b].kind = "fork" /\ Recorded(b, c)

(* A fork that rejournals does not ask the gate of a recorded call. *)
Skips(b, c) ==
  attempt[b].kind = "fork" /\ ~session[b].regate /\ Recorded(b, c)

PreToolUse(b, c) ==
  /\ Turn(b, c)
  /\ attempt[b].at[c] = "todo"
  /\ c \notin engine[b].asked
  /\ engine[b].answer[c] = NoResult
  /\ ~Skips(b, c)
  /\ \E r \in Decisions(b, c, Permissions(gatesOf(b), made, engine[b].called[c])) :
       gate(b, c, <<hook("pre_tool_use", c)>>, TRUE, r)

OnResume(b, c) ==
  /\ Turn(b, c)
  /\ attempt[b].at[c] = "todo"
  /\ c \in engine[b].asked
  /\ engine[b].said[c] = "approve"
  /\ engine[b].answer[c] = NoResult
  /\ \E r \in Decisions(b, c, revalidate(gatesOf(b), made, engine[b].called[c])) :
       gate(b, c, <<hook("on_resume", c), hook("pre_tool_use", c)>>, FALSE, r)

(* The body runs unless the record is there. A charge asks the provider     *)
(* once under the key of its request (SessionStep); the rest of a payment   *)
(* is left out.                                                             *)
Execute(b, c) ==
  /\ Turn(b, c)
  /\ attempt[b].at[c] = "let"
  /\ IF Recorded(b, c)
     THEN /\ attempt' = [attempt EXCEPT ![b].at[c] = "ran"]
          /\ UNCHANGED <<engine, bodies, paid>>
     ELSE LET call == engine[b].called[c]
              key == <<session[b].intent, call.request>>
          IN  /\ attempt' = [attempt EXCEPT ![b].at[c] = "ran",
                                            ![b].ran = @ \cup {c}]
              /\ engine' = [engine EXCEPT ![b].ledger[c] = raw(call)]
              /\ bodies' = bodies \cup {[branch |-> b, call |-> c, as |-> call,
                                         stream |-> session[b].streams]}
              /\ paid' = IF call.request \notin Charges
                            \/ \E p \in paid : p.key = key
                         THEN paid ELSE paid \cup {[key |-> key, branch |-> b]}
  /\ UNCHANGED <<made, history, session, observed, stream, points, surfaced>>

Replay(b, c) ==
  /\ Turn(b, c)
  /\ attempt[b].at[c] = "todo"
  /\ c \notin engine[b].asked
  /\ Skips(b, c)
  /\ attempt' = [attempt EXCEPT ![b].at[c] = "ran"]
  /\ UNCHANGED <<made, history, session, engine, observed, stream, points, paid, bodies,
                 surfaced>>

(* Mutant: the journal works on the record itself. *)
recorded_InPlace(r, journaled) == journaled

(* The record is made before any hook and no unit reaches it. *)
recorded(r, journaled) == r

(* Mutant: the call is announced first. *)
replays_Late(b, c) == c \in observed[b].replayed

replays(b, c) == c \in observed[b].replayed \/ c \notin observed[b].announced

PostToolUse(b, c) ==
  LET units == session[b].units
      record == engine[b].ledger[c]
      r == [Journal(units, record) EXCEPT !.replayed = replays(b, c)]
      results == [observed[b].results EXCEPT ![c] = r]
      after == point(b, "result", c, results)
      gates == {p \in points : p.branch = b /\ p.boundary = "tool" /\ p.call = c}
  IN  /\ Turn(b, c)
      /\ attempt[b].at[c] = "ran"
      /\ attempt' = [attempt EXCEPT ![b].at[c] = "answered"]
      /\ emit(b, _announce(b, c)
                   \o <<emission("hook", "post_tool_use", c, TRUE, r),
                        emission("event", "tool_result", c, TRUE, r),
                        hook("context_injected", c)>>)
      /\ observed' = [observed EXCEPT
           ![b].results = results,
           ![b].announced = @ \cup {c},
           ![b].answered = @ \cup {c},
           ![b].acted = @ \cup {<<c, u>> : u \in Changing(units, record)}]
      /\ engine' = [engine EXCEPT ![b].answer[c] = r,
                                  ![b].ledger[c] = recorded(@, r)]
      /\ points' = points \cup {after}
      /\ session' = [session EXCEPT ![b].forkable = @ \cup gates \cup {after}]
      /\ surfaced' = surfaced \cup
           {[branch |-> b, call |-> c, as |-> engine[b].called[c],
             units |-> units, result |-> r,
             approved |-> engine[b].said[c] = "approve",
             rejournaled |-> attempt[b].kind = "fork" /\ ~session[b].regate]}
      /\ UNCHANGED <<made, history, paid, bodies>>

----------------------------------------------------------------------------
(* The rest of an attempt. *)

(* A call whose answer the engine has gets no hook. *)
Bypass(b, c) ==
  /\ Turn(b, c)
  /\ attempt[b].at[c] = "todo"
  /\ engine[b].answer[c] # NoResult \/ engine[b].said[c] = "deny"
  /\ attempt' = [attempt EXCEPT ![b].at[c] = "answered"]
  /\ engine' = [engine EXCEPT ![b].answer[c] =
       IF @ = NoResult THEN result("refused", FALSE, "control") ELSE @]
  /\ UNCHANGED <<made, history, session, observed, stream, points, paid, bodies,
                 surfaced>>

asking(b) == {c \in Calls : attempt[b].at[c] = "asked"}

(* AgentSuspended. *)
Suspend(b) ==
  /\ Ready(b)
  /\ asking(b) # {}
  /\ Pending(b) \subseteq settled(b)
  /\ attempt' = [attempt EXCEPT ![b].mode = "parked"]
  /\ engine' = [engine EXCEPT ![b].asked = asking(b), ![b].said = noWord]
  /\ emit(b, [i \in 1..Cardinality(asking(b)) |->
               hook("on_suspend", InOrder(asking(b))[i])])
  /\ UNCHANGED <<made, history, session, observed, points, paid, bodies, surfaced>>

(* A batch waits for every answer. *)
StayParked(b) ==
  /\ attempt[b].mode = "running"
  /\ Waiting(b) # {}
  /\ attempt' = [attempt EXCEPT ![b].mode = "parked"]
  /\ UNCHANGED <<made, history, session, engine, observed, stream, points, paid, bodies,
                 surfaced>>

Finish(b) ==
  /\ Ready(b)
  /\ asking(b) = {}
  /\ Pending(b) \subseteq settled(b)
  /\ attempt' = [attempt EXCEPT ![b].mode = "finishing"]
  /\ UNCHANGED <<made, history, session, engine, observed, stream, points, paid, bodies,
                 surfaced>>

(* The returns the attempt adds that no hook has shown. *)
missing(b) == Pending(b) \ observed[b].answered

ProjectMissing(b, c) ==
  /\ attempt[b].mode = "finishing"
  /\ c \in missing(b)
  /\ \A d \in missing(b) : c <= d
  /\ LET executed == Recorded(b, c)
         r == [engine[b].answer[c] EXCEPT !.replayed = executed]
     IN  emit(b, _announce(b, c)
                   \o <<emission("event", "tool_result", c, executed, r),
                        hook("context_injected", c)>>)
  /\ observed' = [observed EXCEPT ![b].announced = @ \cup {c},
                                  ![b].answered = @ \cup {c}]
  /\ UNCHANGED <<made, history, session, engine, attempt, points, paid, bodies, surfaced>>

(* The outcome marks the version terminal. *)
Outcome(b) ==
  /\ attempt[b].mode = "finishing"
  /\ missing(b) = {}
  /\ attempt' = [attempt EXCEPT ![b].mode = "done"]
  /\ session' = [session EXCEPT ![b].terminal = TRUE]
  /\ stream' = [stream EXCEPT ![b] = flushed(@)]
  /\ UNCHANGED <<made, history, engine, observed, points, paid, bodies, surfaced>>

----------------------------------------------------------------------------
Init ==
  /\ made \in Batches
  /\ session = [b \in Branch |->
       [NewSession(<<"unused">>, 1, Origin, TRUE, {}) EXCEPT !.streams = 0]]
  /\ history = [b \in Branch |-> <<>>]
  /\ engine = [b \in Branch |->
       [called |-> made, ledger |-> noResults, answer |-> noResults,
        asked |-> {}, said |-> noWord]]
  /\ attempt = [b \in Branch |-> [NewAttempt("run") EXCEPT !.mode = "idle"]]
  /\ observed = [b \in Branch |-> NewControls]
  /\ stream = [b \in Branch |-> EmptyStream]
  /\ points = {} /\ paid = {} /\ bodies = {} /\ surfaced = {}

Request ==
  \E u \in Selections :
    \/ Run(u)
    \/ \E b \in Branch : \E p \in points : \E rejournal \in BOOLEAN :
         Fork(b, p, u, rejournal)
    \/ \E b \in Branch, c \in Calls, says \in {"approve", "deny"} :
         \E call \in Edited(made[c]) : Resume(b, c, says, call, u)

Hook(b, c) ==
  \/ PreToolUse(b, c) \/ OnResume(b, c) \/ Execute(b, c) \/ Replay(b, c)
  \/ PostToolUse(b, c) \/ Bypass(b, c) \/ ProjectMissing(b, c)

Next ==
  \/ Request
  \/ \E b \in Branch : \/ Open(b) \/ Suspend(b) \/ StayParked(b)
                        \/ Finish(b) \/ Outcome(b)
                        \/ \E c \in Calls : Hook(b, c)

Spec == Init /\ [][Next]_vars

----------------------------------------------------------------------------
(* The history a version starts from (resume_history of console/            *)
(* fork_demo.py): the model asked for each call once, a return stands       *)
(* behind its call, calls that are still open form the last response, and   *)
(* nothing its restore point holds is lost or answered otherwise.           *)
whole(h) ==
  /\ Cardinality(Range(calls_made(h))) = Len(calls_made(h))
  /\ \A i \in DOMAIN h : \A r \in Range(h[i].returns) :
       \E j \in 1..(i - 1) : r.call \in Range(h[j].calls)
  /\ unanswered(h) # <<>> =>
       /\ h[Len(h)].kind = "response"
       /\ h[Len(h)].calls = unanswered(h)

HistoryIsWhole ==
  \A b \in Branch :
    LET from == session[b].source.history
        h == history[b]
    IN  attempt[b].mode = "opening" /\ attempt[b].kind = "fork" =>
          /\ whole(h)
          /\ Requested(h) = Requested(from) /\ Returns(h) = Returns(from)

(* Along a line of versions, each forked after the model asked, a tool body *)
(* runs once, in whatever stream and with whatever arguments: a fork        *)
(* replays what its source has done (run_from_event of console/             *)
(* fork_demo.py).                                                           *)
LineRunsOnce ==
  \A x, y \in bodies :
    x.call = y.call /\ x.branch \in session[y.branch].line => x = y

(* Over all versions, those whose model asked afresh included, a customer   *)
(* is charged once for a request (_charge of console/tools.py).             *)
PaidOnce ==
  \A x, y \in paid : x.key[2] = y.key[2] => x = y

(* A result enters a version under gates that let the call as it is carried *)
(* out there, or a person's word, copied or not; a rejournaled copy alone   *)
(* goes by them.                                                            *)
VersionsAreGated ==
  \A s \in surfaced :
    \/ /\ Permissions(Range(s.units) \cap Gates, made, s.as) # "deny"
       /\ Permissions({"approval"} \cap Range(s.units), made, s.as) = "suspend"
            => s.approved
    \/ /\ s.rejournaled
       /\ \E x \in bodies : /\ x.call = s.call
                            /\ x.branch \in session[s.branch].line \ {s.branch}

(* No personal data enters a version one of whose units would take it out,  *)
(* in whatever order its units stand (Journal over console/units.py).       *)
MasksHold ==
  \A s \in surfaced :
    s.result.secret =>
      Range(s.units) \cap {"pii_mask", "context_firewall", "result_drop"} = {}

(* A version without rewriting units gets the result as the body on its     *)
(* line made it, whatever the version it was forked from has made of it.    *)
OriginalsAreKept ==
  \A s \in surfaced :
    Range(s.units) \cap Rewriting = {} =>
      \E x \in bodies :
        /\ x.call = s.call /\ x.branch \in session[s.branch].line
        /\ s.result = [raw(x.as) EXCEPT !.replayed = s.result.replayed]

----------------------------------------------------------------------------
rowsOf(b, kind, c) ==
  {i \in DOMAIN stream[b].rows :
     stream[b].rows[i].kind = kind /\ stream[b].rows[i].call = c}

(* When a version is done its last stream has shown each call it resumed    *)
(* once, and behind it one answer.                                          *)
OneAnswerIsShown ==
  \A b \in Branch : attempt[b].mode = "done" =>
    \A c \in Pending(b) :
      LET cards == rowsOf(b, "call", c)
          answers == rowsOf(b, "result", c)
      IN  /\ Cardinality(cards) = 1 /\ Cardinality(answers) = 1
          /\ \A i \in cards, j \in answers : i < j

(* What a unit does to a call is told once in the stream it does it in, by  *)
(* a unit that did, and ahead of the answer it led to.                      *)
ActsAreTold ==
  \A b \in Branch : attempt[b].mode \in {"parked", "done"} =>
    \A c \in {a[1] : a \in observed[b].acted} :
      LET told == rowsOf(b, "unit", c)
      IN  /\ Cardinality(told) = 1
          /\ \A i \in told : /\ <<c, stream[b].rows[i].unit>> \in observed[b].acted
                            /\ \A j \in rowsOf(b, "result", c) : i < j

(* The replay mark of an answer is true: in a stream that begins a version, *)
(* a body ran there exactly for the answers without it; in a resumption, no *)
(* answer with it comes from a body that ran there.                         *)
MarksAreTrue ==
  \A b \in Branch : attempt[b].mode = "done" =>
    \A c \in Calls : \A i \in rowsOf(b, "result", c) :
      LET r == stream[b].rows[i].result
      IN  /\ r.replayed => c \notin attempt[b].ran
          /\ attempt[b].kind # "resume" /\ r.text # "refused" =>
               (c \in attempt[b].ran <=> ~r.replayed)
=============================================================================
