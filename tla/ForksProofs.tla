----------------------------- MODULE ForksProofs -----------------------------
(***************************************************************************)
(* Proofs about Forks, for every batch, selection of units and bound: a    *)
(* body runs once along a line of versions, a request is paid once over    *)
(* all of them, a result enters a version under its gates, and what the    *)
(* versions make of the results and show of them. A fork starts from a     *)
(* history that is whole.                                                  *)
(*                                                                         *)
(* The first three hold whatever history a restore point restores. That    *)
(* what is restored is whole is the last part: the invariant Histories     *)
(* says what form the histories of versions and of restore points have.    *)
(*                                                                         *)
(* For the results and the streams the folds are unrolled, to a sequence   *)
(* of the values they run through. Of results: units that mask leave       *)
(* nothing to see, units that do not rewrite leave the original. Of        *)
(* streams: lemmas say which rows an emission adds for its call, and that  *)
(* it adds none for another; the invariant Streams ties the rows of each   *)
(* call to its progress, and the theorems after it follow from it.       *)
(***************************************************************************)
EXTENDS Forks, FoldProofs, SequenceTheorems

Mode == {"idle", "opening", "running", "parked", "finishing", "done"}
Kind == {"run", "fork", "resume"}
Place == {"todo", "let", "ran", "asked", "answered"}
Word == {"none", "approve", "deny"}

(* The calls as a model asks for them or an approval leaves them. *)
Carried == {made[c] : c \in Calls} \cup {e[2] : e \in Edits}

Recordable == {NoResult} \cup {raw(call) : call \in Carried}
Refusal == {result("refused", FALSE, u) : u \in Gates \cup {"control"}}
Asking == {result("asked", FALSE, "approval")}
Journaled ==
  {[Journal(u, r) EXCEPT !.replayed = t] :
     u \in Selections \cup {<<"unused">>}, r \in Recordable, t \in BOOLEAN}

SessionType ==
  [units : Selections \cup {<<"unused">>}, intent : {1},
   source : points \cup {Origin}, regate : BOOLEAN, terminal : BOOLEAN,
   forkable : SUBSET points, line : SUBSET Branch, streams : Nat]
EngineType ==
  [called : [Calls -> Carried], ledger : [Calls -> Recordable],
   answer : [Calls -> {NoResult} \cup Refusal \cup Asking \cup Journaled],
   asked : SUBSET Calls, said : [Calls -> Word]]
AttemptType ==
  [mode : Mode, kind : Kind, at : [Calls -> Place], ran : SUBSET Calls]

Shape ==
  /\ session \in [Branch -> SessionType]
  /\ engine \in [Branch -> EngineType]
  /\ attempt \in [Branch -> AttemptType]
  /\ \A p \in points : p.branch \in Branch
  /\ bodies \subseteq [branch : Branch, call : Calls, as : Carried, stream : Nat]

(* A line ends in its version, and those before it have finished. *)
Lines ==
  \A b \in Branch :
    /\ b \in Unused => /\ session[b].line = {}
                       /\ ~session[b].terminal
                       /\ attempt[b].mode = "idle"
    /\ b \notin Unused => b \in session[b].line
    /\ \A d \in session[b].line : d = b \/ session[d].terminal
    /\ session[b].terminal => attempt[b].mode = "done"

(* The records of a version are those of the bodies along its line. *)
Records ==
  /\ \A x \in bodies : /\ x.branch \in session[x.branch].line
                       /\ \/ attempt[x.branch].kind = "resume"
                          \/ attempt[x.branch].at[x.call] \in {"ran", "answered"}
  /\ \A b \in Branch : \A c \in Calls :
       Recorded(b, c) <=> \E x \in bodies : /\ x.call = c
                                            /\ x.branch \in session[b].line

Payments ==
  \A x \in paid : /\ x.key = <<1, x.key[2]>>
                  /\ \A y \in paid : x.key = y.key => x = y

(* What the gates in force, or a person, have let. *)
Lets(u, word, call) ==
  /\ Permissions(Range(u) \cap Gates, made, call) # "deny"
  /\ Permissions({"approval"} \cap Range(u), made, call) = "suspend"
       => word = "approve"

Copied(b, c) ==
  \E x \in bodies : x.call = c /\ x.branch \in session[b].line \ {b}

Gated ==
  \A b \in Branch : \A c \in Calls :
    (/\ attempt[b].mode \in {"opening", "running"}
     /\ attempt[b].at[c] \in {"let", "ran"}) =>
      \/ Lets(session[b].units, engine[b].said[c], engine[b].called[c])
      \/ /\ attempt[b].at[c] = "ran"
         /\ attempt[b].kind = "fork" /\ ~session[b].regate
         /\ Copied(b, c)

Surfaced ==
  \A s \in surfaced :
    /\ s.branch \in Branch \ Unused
    /\ \/ Lets(s.units, IF s.approved THEN "approve" ELSE "none", s.as)
       \/ s.rejournaled /\ Copied(s.branch, s.call)

IInv ==
  Shape /\ Lines /\ Records /\ LineRunsOnce /\ Payments /\ Gated /\ Surfaced

----------------------------------------------------------------------------
(* Types. *)

LEMMA Constants ==
  /\ noResults \in [Calls -> Recordable]
  /\ noResults \in [Calls -> {NoResult}]
  /\ noWord \in [Calls -> Word]
  /\ \A kind \in Kind : NewAttempt(kind) \in AttemptType
BY DEF noResults, noWord, Recordable, Word, Kind, Place, NewAttempt,
       AttemptType, Mode

LEMMA SameBatch ==
  ASSUME made' = made
  PROVE  /\ EngineType' = EngineType /\ AttemptType' = AttemptType
         /\ Calls' = Calls /\ Carried' = Carried
BY DEF EngineType, AttemptType, Carried, Recordable, Journaled, Calls

LEMMA InitShape == Init => Shape
<1> SUFFICES ASSUME Init PROVE Shape
  OBVIOUS
<1>1. session \in [Branch -> SessionType]
  <2>1. [NewSession(<<"unused">>, 1, Origin, TRUE, {}) EXCEPT !.streams = 0]
          \in SessionType
    BY DEF NewSession, SessionType
  <2> QED BY <2>1 DEF Init
<1>2. engine \in [Branch -> EngineType]
  <2>1. made \in [Calls -> Carried]
    <3>1. made \in Seq(CallType({made[i].request : i \in DOMAIN made}))
      BY BatchesAreCalls DEF Init
    <3> QED BY <3>1 DEF Calls, Carried
  <2>2. [called |-> made, ledger |-> noResults, answer |-> noResults,
         asked |-> {}, said |-> noWord] \in EngineType
    BY <2>1, Constants DEF EngineType
  <2> QED BY <2>2 DEF Init
<1>3. attempt \in [Branch -> AttemptType]
  BY Constants DEF Init, AttemptType, Mode, Kind
<1> QED BY <1>1, <1>2, <1>3 DEF Init, Shape

(* A step that gives one version another session keeps the types. *)
LEMMA SessionShape ==
  ASSUME Shape, NEW b \in Branch, NEW s, points \subseteq points',
         session' = [session EXCEPT ![b] = s],
         s \in SessionType'
  PROVE  session' \in [Branch -> SessionType']
BY DEF Shape, SessionType

LEMMA SameSessionShape ==
  ASSUME Shape, points \subseteq points', session' = session
  PROVE  session' \in [Branch -> SessionType']
BY DEF Shape, SessionType

LEMMA NewPoints ==
  ASSUME Shape, NEW b \in Branch,
         \A p \in points' : p \in points \/ p.branch = b
  PROVE  \A p \in points' : p.branch \in Branch
BY DEF Shape

LEMMA RunShape == ASSUME Shape, NEW u \in Selections, Run(u) PROVE Shape'
<1>0. 1 \in Branch BY DEF Run, Next_, Unused
<1>1. NewSession(u, 1, Origin, TRUE, {1}) \in SessionType'
  BY <1>0 DEF NewSession, SessionType
<1>2. session' \in [Branch -> SessionType']
  BY <1>0, <1>1, SessionShape DEF Run
<1>3. attempt' \in [Branch -> AttemptType]
  BY <1>0, Constants DEF Run, begin, Shape, Kind
<1> QED BY <1>2, <1>3, SameBatch DEF Shape, Run

LEMMA ForkShape ==
  ASSUME Shape, NEW b \in Branch, NEW p \in points, NEW u \in Selections,
         NEW r \in BOOLEAN, Fork(b, p, u, r)
  PROVE  Shape'
<1>0. p.branch \in Branch BY DEF Shape
<1> DEFINE line == IF p.boundary = "input" THEN {b}
                   ELSE session[p.branch].line \cup {b}
<1>1. NewSession(u, inherited(b, p), p, ~r, line) \in SessionType'
  BY <1>0 DEF NewSession, SessionType, Shape, inherited, Fork
<1>2. session' \in [Branch -> SessionType']
  BY <1>1, SessionShape DEF Fork
<1>3. attempt' \in [Branch -> AttemptType]
  BY Constants DEF Fork, begin, Shape, Kind
<1>4. engine' \in [Branch -> EngineType]
  <2>1. copied(p) \in [Calls -> Recordable]
    BY <1>0, Constants DEF copied, Shape, EngineType
  <2>2. [engine[b] EXCEPT !.ledger = copied(p)] \in EngineType
    BY <2>1 DEF Shape, EngineType
  <2> QED BY <2>2 DEF Fork, Shape
<1> QED BY <1>2, <1>3, <1>4, SameBatch DEF Shape, Fork

LEMMA ResumeShape ==
  ASSUME Shape, NEW b \in Branch, NEW c \in Calls,
         NEW says \in {"approve", "deny"}, NEW call, NEW u \in Selections,
         Resume(b, c, says, call, u)
  PROVE  Shape'
<1>1. session' \in [Branch -> SessionType']
  BY DEF Resume, Shape, SessionType
<1>2. attempt' \in [Branch -> AttemptType]
  BY Constants DEF Resume, begin, Shape, Kind
<1>3. engine' \in [Branch -> EngineType]
  <2> DEFINE e == [engine[b] EXCEPT !.said[c] = says]
             f == [e EXCEPT !.called[c] = call]
  <2>1. call \in Carried BY DEF Resume, Edited, Carried
  <2>2. engine[b] \in EngineType BY DEF Shape
  <2>3. e \in EngineType BY <2>2 DEF EngineType, Word
  <2>4. engine' = [engine EXCEPT ![b] = f] BY DEF Resume
  <2>5. f \in EngineType
    <3> HIDE DEF e
    <3> QED BY <2>1, <2>3 DEF EngineType
  <2> HIDE DEF f
  <2> QED BY <2>4, <2>5 DEF Shape
<1> QED BY <1>1, <1>2, <1>3, SameBatch DEF Shape, Resume

LEMMA OpenShape == ASSUME Shape, NEW b \in Branch, Open(b) PROVE Shape'
<1> DEFINE p == point(b, "input", 0, noResults)
<1>1. p.branch = b BY DEF point
<1>2. attempt' \in [Branch -> AttemptType]
  BY DEF Open, Shape, AttemptType, Mode
<1>3. points \subseteq points' /\ \A q \in points' : q \in points \/ q.branch = b
  BY <1>1 DEF Open
<1>4. session' \in [Branch -> SessionType']
  <2>1. CASE session' = session BY <2>1, <1>3, SameSessionShape
  <2>2. CASE session' = [session EXCEPT ![b].forkable = @ \cup {p}] /\ p \in points'
    BY <2>2, <1>3 DEF Shape, SessionType
  <2> QED BY <2>1, <2>2 DEF Open
<1> QED BY <1>2, <1>3, <1>4, SameBatch, NewPoints DEF Shape, Open

LEMMA DecisionShape ==
  ASSUME NEW b \in Branch, NEW c,
         NEW verdict \in {"continue", "suspend", "deny"},
         NEW r \in Decisions(b, c, verdict)
  PROVE  r \in {NoResult} \cup Refusal \cup Asking
<1>1. \/ r \in {NoResult} \/ r \in Asking
      \/ \E d \in gatesOf(b) : r = result("refused", FALSE, d)
  BY DEF Decisions, Asking
<1> QED BY <1>1 DEF Refusal, gatesOf

LEMMA Verdict ==
  ASSUME NEW units, NEW call
  PROVE  /\ Permissions(units, made, call) \in {"continue", "suspend", "deny"}
         /\ revalidate(units, made, call) \in {"continue", "suspend", "deny"}
BY DEF Permissions, revalidate

LEMMA GateShape ==
  ASSUME Shape, NEW b \in Branch, NEW c \in Calls, NEW hooks, NEW reads,
         NEW r \in {NoResult} \cup Refusal \cup Asking,
         gate(b, c, hooks, reads, r)
  PROVE  Shape'
<1> DEFINE before == point(b, "tool", c, observed[b].results)
           after == point(b, "result", c, [observed[b].results EXCEPT ![c] = r])
           gates == {p \in points : /\ p.branch = b
                                    /\ p.boundary = "tool" /\ p.call = c}
<1>1. before.branch = b /\ after.branch = b BY DEF point
<1>2. attempt' \in [Branch -> AttemptType]
  BY ZenonT(40) DEF gate, Shape, AttemptType, Place
<1>3. points \subseteq points' /\ \A q \in points' : q \in points \/ q.branch = b
  <2> HIDE DEF before, after
  <2>1. points' = points \cup {before}
                         \cup (IF r.text = "refused" THEN {after} ELSE {})
    BY DEF gate, before, after
  <2> QED BY <2>1, <1>1
<1>4. engine' \in [Branch -> EngineType]
  <2>1. engine' = [engine EXCEPT ![b].answer[c] = IF r.text = "refused" THEN r ELSE @]
    BY DEF gate
  <2> QED BY <2>1, ZenonT(40) DEF Shape, EngineType
<1>5. session' \in [Branch -> SessionType']
  <2> HIDE DEF before, after, gates
  <2>1. /\ points' = points \cup {before}
                         \cup (IF r.text = "refused" THEN {after} ELSE {})
        /\ session' = [session EXCEPT ![b].forkable =
             IF r.text = "refused" THEN @ \cup gates \cup {before, after} ELSE @]
    BY DEF gate, before, after, gates
  <2>2. gates \subseteq points BY DEF gates
  <2> DEFINE more == IF r.text = "refused"
                     THEN session[b].forkable \cup gates \cup {before, after}
                     ELSE session[b].forkable
  <2>3. session[b] \in SessionType /\ points \subseteq points'
    BY <2>1 DEF Shape
  <2>4. more \subseteq points' BY <2>1, <2>2, <2>3 DEF SessionType
  <2>5. session' = [session EXCEPT ![b].forkable = more] BY <2>1
  <2> HIDE DEF more
  <2>6. [session[b] EXCEPT !.forkable = more] \in SessionType'
    BY <2>3, <2>4 DEF SessionType
  <2> QED BY <2>3, <2>5, <2>6, SessionShape
<1> QED BY <1>2, <1>3, <1>4, <1>5, SameBatch, NewPoints DEF Shape, gate

LEMMA ExecuteShape ==
  ASSUME Shape, NEW b \in Branch, NEW c \in Calls, Execute(b, c) PROVE Shape'
<1>1. session' \in [Branch -> SessionType']
  BY SameSessionShape DEF Execute
<1>2. attempt' \in [Branch -> AttemptType]
  <2>1. \/ attempt' = [attempt EXCEPT ![b].at[c] = "ran"]
        \/ attempt' = [attempt EXCEPT ![b].at[c] = "ran", ![b].ran = @ \cup {c}]
    BY DEF Execute
  <2>2. attempt[b] \in AttemptType BY DEF Shape
  <2>3. /\ [attempt[b] EXCEPT !.at[c] = "ran"] \in AttemptType
        /\ [attempt[b] EXCEPT !.at[c] = "ran", !.ran = @ \cup {c}] \in AttemptType
    BY <2>2 DEF AttemptType, Place
  <2> QED BY <2>1, <2>3 DEF Shape
<1> DEFINE call == engine[b].called[c]
<1>3. engine' \in [Branch -> EngineType]
  <2>1. raw(call) \in Recordable BY DEF Shape, EngineType, Recordable
  <2>2. engine' = engine \/ engine' = [engine EXCEPT ![b].ledger[c] = raw(call)]
    BY DEF Execute
  <2> HIDE DEF call
  <2>3. [engine[b] EXCEPT !.ledger[c] = raw(call)] \in EngineType
    <3>1. engine[b] \in EngineType BY DEF Shape
    <3> HIDE DEF raw, Recordable
    <3> QED BY <2>1, <3>1 DEF EngineType
  <2> HIDE DEF raw
  <2> QED BY <2>2, <2>3 DEF Shape
<1>4. bodies' \subseteq [branch : Branch, call : Calls, as : Carried, stream : Nat]
  <2>1. call \in Carried /\ session[b].streams \in Nat
    BY DEF Shape, EngineType, SessionType
  <2>2. \/ bodies' = bodies
        \/ bodies' = bodies \cup {[branch |-> b, call |-> c, as |-> call,
                                   stream |-> session[b].streams]}
    BY DEF Execute
  <2> HIDE DEF call
  <2> QED BY <2>1, <2>2 DEF Shape
<1> QED BY <1>1, <1>2, <1>3, <1>4, SameBatch DEF Shape, Execute

LEMMA PostToolUseShape ==
  ASSUME Shape, NEW b \in Branch, NEW c \in Calls, PostToolUse(b, c) PROVE Shape'
<1> DEFINE u == session[b].units
           r == [Journal(u, engine[b].ledger[c]) EXCEPT !.replayed = replays(b, c)]
           after == point(b, "result", c, [observed[b].results EXCEPT ![c] = r])
           gates == {p \in points : /\ p.branch = b
                                    /\ p.boundary = "tool" /\ p.call = c}
<1>1. after.branch = b BY DEF point
<1>2. attempt' \in [Branch -> AttemptType]
  BY DEF PostToolUse, Shape, AttemptType, Place
<1>3. r \in Journaled
  <2>1. u \in Selections \cup {<<"unused">>} /\ engine[b].ledger[c] \in Recordable
    BY DEF Shape, SessionType, EngineType
  <2>2. replays(b, c) \in BOOLEAN BY DEF replays
  <2> QED BY <2>1, <2>2 DEF Journaled
<1>4. /\ engine' = [engine EXCEPT ![b].answer[c] = r,
                                  ![b].ledger[c] = recorded(@, r)]
      /\ points' = points \cup {after}
      /\ session' = [session EXCEPT ![b].forkable = @ \cup gates \cup {after}]
      /\ made' = made /\ bodies' = bodies
  BY DEF PostToolUse
<1>5. gates \subseteq points OBVIOUS
<1> HIDE DEF r, after, gates, u
<1>6. engine' \in [Branch -> EngineType]
  BY <1>3, <1>4, ZenonT(40) DEF Shape, EngineType, recorded
<1>7. session' \in [Branch -> SessionType']
  <2>1. session[b] \in SessionType /\ points' = points \cup {after}
    BY <1>4 DEF Shape
  <2>2. [session[b] EXCEPT !.forkable = @ \cup gates \cup {after}] \in SessionType'
    BY <2>1, <1>5 DEF SessionType
  <2> QED BY <1>4, <2>2, SessionShape
<1>8. \A q \in points' : q.branch \in Branch
  BY <1>1, <1>4 DEF Shape
<1> QED BY <1>2, <1>4, <1>6, <1>7, <1>8, SameBatch DEF Shape

(* The steps that make no restore point. *)
LEMMA QuietShape ==
  ASSUME Shape, NEW b \in Branch,
         \/ \E c \in Calls : Replay(b, c) \/ Bypass(b, c) \/ ProjectMissing(b, c)
         \/ Suspend(b) \/ StayParked(b) \/ Finish(b)
  PROVE  Shape'
<1>1. session' \in [Branch -> SessionType'] /\ points' = points /\ bodies' = bodies
      /\ made' = made
  <2>1. session' = session /\ points' = points /\ bodies' = bodies /\ made' = made
    BY DEF Replay, Bypass, ProjectMissing, Suspend, StayParked, Finish
  <2> QED BY <2>1, SameSessionShape
<1>2. attempt' \in [Branch -> AttemptType]
  <2>1. \/ attempt' = attempt
        \/ \E c \in Calls, p \in {"ran", "answered"} :
             attempt' = [attempt EXCEPT ![b].at[c] = p]
        \/ \E m \in {"parked", "finishing"} :
             attempt' = [attempt EXCEPT ![b].mode = m]
    BY DEF Replay, Bypass, ProjectMissing, Suspend, StayParked, Finish
  <2>2. attempt[b] \in AttemptType BY DEF Shape
  <2>3. /\ \A c \in Calls, p \in {"ran", "answered"} :
             [attempt[b] EXCEPT !.at[c] = p] \in AttemptType
        /\ \A m \in {"parked", "finishing"} :
             [attempt[b] EXCEPT !.mode = m] \in AttemptType
    BY <2>2 DEF AttemptType, Place, Mode
  <2>4. CASE attempt' = attempt BY <2>4 DEF Shape
  <2>5. CASE \E c \in Calls, p \in {"ran", "answered"} :
               attempt' = [attempt EXCEPT ![b].at[c] = p]
    <3>1. PICK c \in Calls, p \in {"ran", "answered"} :
            attempt' = [attempt EXCEPT ![b].at[c] = p]
      BY <2>5
    <3>2. [attempt[b] EXCEPT !.at[c] = p] \in AttemptType BY <2>3
    <3> QED BY <3>1, <3>2 DEF Shape
  <2>6. CASE \E m \in {"parked", "finishing"} :
               attempt' = [attempt EXCEPT ![b].mode = m]
    BY <2>3, <2>6 DEF Shape
  <2> QED BY <2>1, <2>4, <2>5, <2>6
<1>3. engine' \in [Branch -> EngineType]
  <2>1. CASE \E c \in Calls : Bypass(b, c)
    <3> PICK c \in Calls : Bypass(b, c) BY <2>1
    <3>1. result("refused", FALSE, "control") \in Refusal BY DEF Refusal
    <3> HIDE DEF Refusal, NoResult
    <3>2. engine' = [engine EXCEPT ![b].answer[c] =
             IF @ = NoResult THEN result("refused", FALSE, "control") ELSE @]
      BY DEF Bypass
    <3> QED BY <3>1, <3>2, ZenonT(40) DEF Shape, EngineType
  <2>2. CASE Suspend(b)
    <3>1. asking(b) \subseteq Calls BY DEF asking
    <3> QED BY <2>2, <3>1, Constants, ZenonT(40) DEF Suspend, Shape, EngineType
  <2>3. CASE engine' = engine BY <2>3 DEF Shape
  <2> QED BY <2>1, <2>2, <2>3 DEF Replay, ProjectMissing, StayParked, Finish
<1> QED BY <1>1, <1>2, <1>3, SameBatch DEF Shape

LEMMA OutcomeShape == ASSUME Shape, NEW b \in Branch, Outcome(b) PROVE Shape'
<1>1. session' \in [Branch -> SessionType']
  <2>1. session[b] \in SessionType /\ points' = points
    BY DEF Outcome, Shape
  <2>2. [session[b] EXCEPT !.terminal = TRUE] \in SessionType'
    BY <2>1 DEF SessionType
  <2> QED BY <2>1, <2>2, SessionShape DEF Outcome
<1>2. attempt' \in [Branch -> AttemptType]
  BY DEF Outcome, Shape, AttemptType, Mode
<1> QED BY <1>1, <1>2, SameBatch DEF Shape, Outcome

----------------------------------------------------------------------------
(* A step of version b at work: the sessions keep what a version is, and    *)
(* nothing happens to the others.                                           *)
Works(b) ==
  /\ attempt[b].mode \in {"opening", "running", "finishing"}
  /\ attempt'[b].kind = attempt[b].kind
  /\ made' = made
  /\ \A d \in Branch : /\ session'[d].units = session[d].units
                       /\ session'[d].line = session[d].line
                       /\ session'[d].regate = session[d].regate
                       /\ session'[d].intent = session[d].intent
                       /\ session'[d].terminal = session[d].terminal
  /\ \A d \in Branch \ {b} : attempt'[d] = attempt[d] /\ engine'[d] = engine[d]

(* What such a step leaves as it was. *)
LEMMA WorkKeeps ==
  ASSUME Shape, Lines, NEW b \in Branch, Works(b), bodies \subseteq bodies'
  PROVE  /\ Unused' = Unused
         /\ Lines'
         /\ b \notin Unused
         /\ \A d \in Branch : \A c : Copied(d, c) => Copied(d, c)'
         /\ surfaced' = surfaced /\ Surfaced => Surfaced'
         /\ paid' = paid /\ Payments => Payments'
<1>1. Unused' = Unused BY DEF Works, Unused
<1>2. b \notin Unused BY DEF Works, Lines
<1>3. ~session[b].terminal BY DEF Works, Lines
<1>4. Lines'
  <2>1. \A d \in Branch : /\ session'[d].line = session[d].line
                          /\ session'[d].terminal = session[d].terminal
                          /\ session[d].line \subseteq Branch
    BY DEF Works, Shape, SessionType
  <2>2. \A d \in Branch \ {b} : attempt'[d] = attempt[d] BY DEF Works
  <2> QED BY <1>1, <1>2, <1>3, <2>1, <2>2 DEF Lines
<1>5. \A d \in Branch : \A c : Copied(d, c) => Copied(d, c)'
  BY DEF Works, Copied
<1>6. ASSUME surfaced' = surfaced, Surfaced PROVE Surfaced'
  <2>1. \A u, w, c : Lets(u, w, c)' <=> Lets(u, w, c) BY DEF Works, Lets
  <2> QED BY <1>1, <1>5, <1>6, <2>1 DEF Surfaced
<1>7. paid' = paid /\ Payments => Payments' BY DEF Payments
<1> QED BY <1>1, <1>2, <1>4, <1>5, <1>6, <1>7

(* A step at work that runs no body. *)
LEMMA WorkRecords ==
  ASSUME Shape, Records, LineRunsOnce, NEW b \in Branch, Works(b),
         bodies' = bodies, engine'[b].ledger = engine[b].ledger,
         \A c \in Calls : attempt[b].at[c] \in {"ran", "answered"}
                            => attempt'[b].at[c] \in {"ran", "answered"}
  PROVE  Records' /\ LineRunsOnce'
<1>1. \A d \in Branch : \A c \in Calls : Recorded(d, c)' <=> Recorded(d, c)
  BY DEF Works, Recorded
<1>2. Calls' = Calls BY DEF Works, Calls
<1>3. \A x \in bodies : x.branch \in Branch /\ x.call \in Calls BY DEF Shape
<1>4. LineRunsOnce' BY <1>3 DEF LineRunsOnce, Works
<1>5. \A x \in bodies : /\ (x.branch \in session[x.branch].line)'
                        /\ \/ attempt'[x.branch].kind = "resume"
                           \/ attempt'[x.branch].at[x.call] \in {"ran", "answered"}
  BY <1>3 DEF Records, Works
<1>6. ASSUME NEW d \in Branch, NEW c \in Calls
      PROVE  Recorded(d, c)' <=> \E x \in bodies : /\ x.call = c
                                                   /\ x.branch \in session'[d].line
  BY <1>1, <1>6 DEF Records, Works
<1> QED BY <1>2, <1>4, <1>5, <1>6 DEF Records

(* A step at work after which a call stands as let or run only where it     *)
(* stood so, or where a gate or the rejournaling of a fork has let it.      *)
LEMMA WorkGated ==
  ASSUME Shape, Lines, Gated, NEW b \in Branch, Works(b), bodies \subseteq bodies',
         \A c \in Calls :
           (/\ attempt'[b].mode \in {"opening", "running"}
            /\ attempt'[b].at[c] \in {"let", "ran"}) =>
           \/ /\ attempt[b].mode \in {"opening", "running"}
              /\ \/ attempt[b].at[c] = attempt'[b].at[c]
                 \/ attempt[b].at[c] = "let"
              /\ engine'[b].said = engine[b].said
              /\ engine'[b].called = engine[b].called
           \/ Lets(session[b].units, engine'[b].said[c], engine'[b].called[c])
           \/ /\ attempt'[b].at[c] = "ran"
              /\ attempt[b].kind = "fork" /\ ~session[b].regate
              /\ Copied(b, c)
  PROVE  Gated'
<1>1. \A u, w, c : Lets(u, w, c)' <=> Lets(u, w, c) BY DEF Works, Lets
<1>2. \A d \in Branch : \A c : Copied(d, c) => Copied(d, c)' BY WorkKeeps
<1>3. Calls' = Calls BY DEF Works, Calls
<1> SUFFICES ASSUME NEW d \in Branch, NEW c \in Calls,
                    attempt'[d].mode \in {"opening", "running"},
                    attempt'[d].at[c] \in {"let", "ran"}
             PROVE  \/ Lets(session[d].units, engine[d].said[c], engine[d].called[c])'
                    \/ /\ attempt'[d].at[c] = "ran"
                       /\ attempt'[d].kind = "fork" /\ ~session'[d].regate
                       /\ Copied(d, c)'
  BY <1>3 DEF Gated
<1>4. CASE d # b BY <1>1, <1>2, <1>4 DEF Gated, Works
<1>5. CASE d = b
  <2>1. session'[b].units = session[b].units /\ session'[b].regate = session[b].regate
        /\ attempt'[b].kind = attempt[b].kind
    BY DEF Works
  <2>2. CASE Lets(session[b].units, engine'[b].said[c], engine'[b].called[c])
    BY <1>1, <1>5, <2>1, <2>2
  <2>3. CASE /\ attempt'[b].at[c] = "ran"
             /\ attempt[b].kind = "fork" /\ ~session[b].regate /\ Copied(b, c)
    BY <1>2, <1>5, <2>1, <2>3
  <2>4. CASE /\ attempt[b].mode \in {"opening", "running"}
             /\ \/ attempt[b].at[c] = attempt'[b].at[c]
                \/ attempt[b].at[c] = "let"
             /\ engine'[b].said = engine[b].said
             /\ engine'[b].called = engine[b].called
    <3>1. \/ Lets(session[b].units, engine[b].said[c], engine[b].called[c])
          \/ /\ attempt[b].at[c] = "ran"
             /\ attempt[b].kind = "fork" /\ ~session[b].regate /\ Copied(b, c)
      BY <1>5, <2>4 DEF Gated
    <3> QED BY <1>1, <1>2, <1>5, <2>1, <2>4, <3>1
  <2> QED BY <1>5, <2>2, <2>3, <2>4
<1> QED BY <1>4, <1>5

(* What is shown of every step but those that begin, or run a body. *)
LEMMA Worked ==
  ASSUME IInv, NEW b \in Branch, Works(b), Shape',
         bodies' = bodies, paid' = paid, engine'[b].ledger = engine[b].ledger,
         \A c \in Calls : attempt[b].at[c] \in {"ran", "answered"}
                            => attempt'[b].at[c] \in {"ran", "answered"},
         \A c \in Calls :
           (/\ attempt'[b].mode \in {"opening", "running"}
            /\ attempt'[b].at[c] \in {"let", "ran"}) =>
           \/ /\ attempt[b].mode \in {"opening", "running"}
              /\ \/ attempt[b].at[c] = attempt'[b].at[c]
                 \/ attempt[b].at[c] = "let"
              /\ engine'[b].said = engine[b].said
              /\ engine'[b].called = engine[b].called
           \/ Lets(session[b].units, engine'[b].said[c], engine'[b].called[c])
           \/ /\ attempt'[b].at[c] = "ran"
              /\ attempt[b].kind = "fork" /\ ~session[b].regate
              /\ Copied(b, c)
  PROVE  /\ Shape' /\ Lines' /\ Records' /\ LineRunsOnce' /\ Payments' /\ Gated'
         /\ surfaced' = surfaced => IInv'
<1>1. Lines' /\ Payments' /\ (surfaced' = surfaced => Surfaced')
  BY WorkKeeps DEF IInv
<1>2. Records' /\ LineRunsOnce' BY WorkRecords DEF IInv
<1>3. Gated' BY WorkGated DEF IInv
<1> QED BY <1>1, <1>2, <1>3 DEF IInv

(* A version at work, by its session. *)
LEMMA SameSession ==
  ASSUME Shape, NEW b \in Branch,
         attempt[b].mode \in {"opening", "running", "finishing"}, made' = made,
         \/ session' = session
         \/ \E f : session' = [session EXCEPT ![b].forkable = f],
         attempt' = attempt \/ \E a : /\ attempt' = [attempt EXCEPT ![b] = a]
                                      /\ a.kind = attempt[b].kind,
         engine' = engine \/ \E e : engine' = [engine EXCEPT ![b] = e]
  PROVE  Works(b)
<1>1. \A d \in Branch : session[d] \in SessionType BY DEF Shape
<1>2. \A d \in Branch : /\ session'[d].units = session[d].units
                        /\ session'[d].line = session[d].line
                        /\ session'[d].regate = session[d].regate
                        /\ session'[d].intent = session[d].intent
                        /\ session'[d].terminal = session[d].terminal
  BY <1>1 DEF Shape, SessionType
<1>3. \A d \in Branch \ {b} : attempt'[d] = attempt[d] /\ engine'[d] = engine[d]
  BY DEF Shape
<1>4. attempt'[b].kind = attempt[b].kind BY DEF Shape
<1> QED BY <1>2, <1>3, <1>4 DEF Works

LEMMA OpenStep == ASSUME IInv, NEW b \in Branch, Open(b) PROVE IInv'
<1>0. Shape BY DEF IInv
<1>1. attempt[b] \in AttemptType BY <1>0 DEF Shape
<1>2. /\ attempt' = [attempt EXCEPT ![b].mode = "running"]
      /\ attempt[b].mode = "opening" /\ engine' = engine /\ made' = made
      /\ bodies' = bodies /\ paid' = paid /\ surfaced' = surfaced
  BY DEF Open
<1>3. \/ session' = session
      \/ \E f : session' = [session EXCEPT ![b].forkable = f]
  BY DEF Open
<1>4. /\ attempt' = [attempt EXCEPT ![b] = [attempt[b] EXCEPT !.mode = "running"]]
      /\ [attempt[b] EXCEPT !.mode = "running"].kind = attempt[b].kind
  BY <1>1, <1>2 DEF AttemptType
<1>5. Works(b) BY <1>0, <1>2, <1>3, <1>4, SameSession
<1>6. attempt'[b].at = attempt[b].at BY <1>0, <1>1, <1>2 DEF Shape, AttemptType
<1> QED BY <1>0, <1>2, <1>5, <1>6, OpenShape, Worked

(* A gate that goes on stands by its units, or by the person asked. *)
LEMMA Continue ==
  ASSUME NEW u, NEW call,
         Permissions(Range(u) \cap Gates, made, call) = "continue"
  PROVE  Permissions({"approval"} \cap Range(u), made, call) # "suspend"
<1>1. {"approval"} \cap Range(u) \subseteq Range(u) \cap Gates BY DEF Gates, Units
<1>2. Verdicts({"approval"} \cap Range(u), made, call)
        \subseteq Verdicts(Range(u) \cap Gates, made, call)
  BY <1>1 DEF Verdicts
<1>3. "suspend" \notin Verdicts(Range(u) \cap Gates, made, call)
  <2> HIDE DEF Verdicts
  <2> QED BY DEF Permissions
<1> HIDE DEF Verdicts
<1> QED BY <1>2, <1>3 DEF Permissions

LEMMA GateStep ==
  ASSUME IInv, NEW b \in Branch, NEW c \in Calls, NEW hooks, NEW reads,
         NEW r \in {NoResult} \cup Refusal \cup Asking, Ready(b),
         attempt[b].at[c] = "todo", gate(b, c, hooks, reads, r),
         r = NoResult =>
           Lets(session[b].units, engine[b].said[c], engine[b].called[c])
  PROVE  IInv'
<1>0. Shape BY DEF IInv
<1>1. attempt[b] \in AttemptType /\ engine[b] \in EngineType BY <1>0 DEF Shape
<1> DEFINE place == CASE r = NoResult       -> "let"
                      [] r.text = "refused" -> "answered"
                      [] OTHER              -> "asked"
           a == [attempt[b] EXCEPT !.at[c] = place]
           e == [engine[b] EXCEPT !.answer[c] = IF r.text = "refused" THEN r ELSE @]
<1>2. /\ attempt' = [attempt EXCEPT ![b] = a]
      /\ engine' = [engine EXCEPT ![b] = e] BY DEF gate
<1>3. /\ \E f : session' = [session EXCEPT ![b].forkable = f]
      /\ made' = made /\ bodies' = bodies /\ paid' = paid /\ surfaced' = surfaced
  BY DEF gate
<1>4. a.kind = attempt[b].kind /\ a.mode = attempt[b].mode
      /\ e.ledger = engine[b].ledger /\ e.said = engine[b].said
      /\ e.called = engine[b].called
  BY <1>1 DEF AttemptType, EngineType
<1>5. a.at[c] = place /\ \A d \in Calls \ {c} : a.at[d] = attempt[b].at[d]
  BY <1>1 DEF AttemptType
<1>6. place \in {"let", "ran"} => r = NoResult OBVIOUS
<1> HIDE DEF a, e, place
<1>7. Works(b) BY <1>0, <1>2, <1>3, <1>4, SameSession DEF Ready
<1>8. attempt'[b] = a /\ engine'[b] = e BY <1>0, <1>2 DEF Shape
<1>9. ASSUME NEW d \in Calls, attempt'[b].at[d] \in {"let", "ran"}
      PROVE  \/ attempt[b].at[d] = attempt'[b].at[d]
             \/ Lets(session[b].units, engine'[b].said[d], engine'[b].called[d])
  BY <1>4, <1>5, <1>6, <1>8, <1>9
<1>10. \A d \in Calls : attempt[b].at[d] \in {"ran", "answered"}
                          => attempt'[b].at[d] \in {"ran", "answered"}
  BY <1>5, <1>8
<1>11. engine'[b].ledger = engine[b].ledger /\ engine'[b].said = engine[b].said
       /\ engine'[b].called = engine[b].called
       /\ attempt[b].mode \in {"opening", "running"}
  BY <1>4, <1>8 DEF Ready
<1>12. Shape' BY <1>0, GateShape
<1> QED BY <1>3, <1>7, <1>9, <1>10, <1>11, <1>12, Worked

LEMMA PreToolUseStep ==
  ASSUME IInv, NEW b \in Branch, NEW c \in Calls, PreToolUse(b, c) PROVE IInv'
<1> DEFINE call == engine[b].called[c]
<1> PICK r \in Decisions(b, c, Permissions(gatesOf(b), made, call)) :
      gate(b, c, <<hook("pre_tool_use", c)>>, TRUE, r)
  BY DEF PreToolUse
<1>1. ASSUME r = NoResult
      PROVE  Lets(session[b].units, engine[b].said[c], call)
  <2>1. Permissions(Range(session[b].units) \cap Gates, made, call) = "continue"
    BY <1>1 DEF Decisions, gatesOf, Permissions, NoResult, result
  <2> QED BY <2>1, Continue DEF Lets
<1>2. r \in {NoResult} \cup Refusal \cup Asking BY DecisionShape, Verdict
<1> QED BY <1>1, <1>2, GateStep DEF PreToolUse, Turn

LEMMA OnResumeStep ==
  ASSUME IInv, NEW b \in Branch, NEW c \in Calls, OnResume(b, c) PROVE IInv'
<1> DEFINE call == engine[b].called[c]
<1> PICK r \in Decisions(b, c, revalidate(gatesOf(b), made, call)) :
      gate(b, c, <<hook("on_resume", c), hook("pre_tool_use", c)>>, FALSE, r)
  BY DEF OnResume
<1>1. ASSUME r = NoResult
      PROVE  Lets(session[b].units, engine[b].said[c], call)
  <2>1. revalidate(Range(session[b].units) \cap Gates, made, call) = "continue"
    BY <1>1 DEF Decisions, gatesOf, revalidate, NoResult, result
  <2>2. Permissions(Range(session[b].units) \cap Gates, made, call) # "deny"
    BY <2>1 DEF revalidate
  <2> QED BY <2>2 DEF Lets, OnResume
<1>2. r \in {NoResult} \cup Refusal \cup Asking BY DecisionShape, Verdict
<1> QED BY <1>1, <1>2, GateStep DEF OnResume, Turn

LEMMA ExecuteStep ==
  ASSUME IInv, NEW b \in Branch, NEW c \in Calls, Execute(b, c) PROVE IInv'
<1> DEFINE call == engine[b].called[c]
           x0 == [branch |-> b, call |-> c, as |-> call,
                  stream |-> session[b].streams]
           mark == [attempt[b] EXCEPT !.at[c] = "ran"]
<1>0. Shape /\ Lines /\ Records /\ LineRunsOnce BY DEF IInv
<1>1. attempt[b] \in AttemptType /\ engine[b] \in EngineType BY <1>0 DEF Shape
<1>2. Turn(b, c) /\ attempt[b].at[c] = "let" /\ attempt[b].mode = "running"
  BY DEF Execute, Turn, Ready
<1>3. session' = session /\ made' = made /\ surfaced' = surfaced
  BY DEF Execute
<1>4. Shape' BY <1>0, ExecuteShape
<1>5. CASE Recorded(b, c)
  <2>1. /\ attempt' = [attempt EXCEPT ![b] = mark]
        /\ engine' = engine /\ bodies' = bodies /\ paid' = paid
    BY <1>5 DEF Execute
  <2>2. /\ mark.kind = attempt[b].kind /\ mark.mode = "running"
        /\ mark.at[c] = "ran" /\ \A d \in Calls \ {c} : mark.at[d] = attempt[b].at[d]
    BY <1>1, <1>2 DEF AttemptType
  <2> HIDE DEF mark
  <2>3. Works(b) BY <1>0, <1>2, <1>3, <2>1, <2>2, SameSession
  <2>4. attempt'[b] = mark BY <1>0, <2>1 DEF Shape
  <2> QED BY <1>2, <1>3, <1>4, <2>1, <2>2, <2>3, <2>4, Worked
<1>6. CASE ~Recorded(b, c)
  <2> DEFINE a == [mark EXCEPT !.ran = @ \cup {c}]
             e == [engine[b] EXCEPT !.ledger[c] = raw(call)]
             key == <<session[b].intent, call.request>>
  <2>1. /\ attempt' = [attempt EXCEPT ![b] = a]
        /\ engine' = [engine EXCEPT ![b] = e]
        /\ bodies' = bodies \cup {x0}
        /\ paid' = paid \/ /\ paid' = paid \cup {[key |-> key, branch |-> b]}
                           /\ \A p \in paid : p.key # key
    BY <1>6, ZenonT(40) DEF Execute
  <2>2. /\ a.kind = attempt[b].kind /\ a.mode = "running"
        /\ a.at[c] = "ran" /\ \A d \in Calls \ {c} : a.at[d] = attempt[b].at[d]
    BY <1>1, <1>2 DEF AttemptType
  <2>3. /\ e.said = engine[b].said /\ e.called = engine[b].called
        /\ e.ledger[c] # NoResult
        /\ \A d \in Calls \ {c} : e.ledger[d] = engine[b].ledger[d]
    <3>1. raw(call) # NoResult BY DEF raw, NoResult, result
    <3> HIDE DEF call
    <3> QED BY <1>1, <3>1 DEF EngineType
  <2>0. x0.branch = b /\ x0.call = c OBVIOUS
  <2> HIDE DEF a, e, mark, x0
  <2>4. Works(b) BY <1>0, <1>2, <1>3, <2>1, <2>2, SameSession
  <2>5. attempt'[b] = a /\ engine'[b] = e BY <1>0, <2>1 DEF Shape
  <2>6. /\ Lines' /\ b \notin Unused /\ (Surfaced => Surfaced')
    BY <1>0, <1>3, <2>1, <2>4, WorkKeeps
  <2>7. b \in session[b].line /\ ~session[b].terminal
    BY <1>0, <1>2, <2>6 DEF Lines
  <2>8. \A d \in Branch \ {b} : b \notin session[d].line
    BY <1>0, <2>7 DEF Lines
  <2>9. \A x \in bodies : x.branch \in Branch /\ x.call \in Calls
    BY <1>0 DEF Shape
  <2>10. Records'
    <3>1. \A x \in bodies' :
            /\ x.branch \in session[x.branch].line
            /\ \/ attempt'[x.branch].kind = "resume"
               \/ attempt'[x.branch].at[x.call] \in {"ran", "answered"}
      <4>1. ASSUME NEW x \in bodies
            PROVE  /\ x.branch \in session[x.branch].line
                   /\ \/ attempt'[x.branch].kind = "resume"
                      \/ attempt'[x.branch].at[x.call] \in {"ran", "answered"}
        <5>1. CASE x.branch = b BY <1>0, <2>2, <2>5, <2>9, <5>1 DEF Records
        <5>2. CASE x.branch # b BY <1>0, <2>4, <2>9, <5>2 DEF Records, Works
        <5> QED BY <5>1, <5>2
      <4> QED BY <2>0, <2>1, <2>2, <2>5, <2>7, <4>1
    <3>2. ASSUME NEW d \in Branch, NEW f \in Calls
          PROVE  Recorded(d, f)' <=> \E x \in bodies' : /\ x.call = f
                                                        /\ x.branch \in session[d].line
      <4>1. Recorded(d, f) <=> \E x \in bodies : /\ x.call = f
                                                 /\ x.branch \in session[d].line
        BY <1>0 DEF Records
      <4>2. CASE d = b /\ f = c
        <5>1. Recorded(d, f)' BY <2>3, <2>5, <4>2 DEF Recorded
        <5>2. x0 \in bodies' /\ x0.call = f /\ x0.branch \in session[d].line
          BY <2>0, <2>1, <2>7, <4>2
        <5> QED BY <5>1, <5>2
      <4>3. CASE d = b /\ f # c
        <5>1. Recorded(d, f)' <=> Recorded(d, f) BY <2>3, <2>5, <4>3 DEF Recorded
        <5> QED BY <2>0, <2>1, <4>1, <4>3, <5>1
      <4>4. CASE d # b
        <5>1. Recorded(d, f)' <=> Recorded(d, f) BY <2>4, <4>4 DEF Recorded, Works
        <5> QED BY <2>0, <2>1, <2>8, <4>1, <4>4, <5>1
      <4> QED BY <4>2, <4>3, <4>4
    <3>3. Calls' = Calls BY <1>3 DEF Calls
    <3> QED BY <1>3, <3>1, <3>2, <3>3 DEF Records
  <2>11. LineRunsOnce'
    <3> SUFFICES ASSUME NEW x \in bodies', NEW y \in bodies', x.call = y.call,
                        x.branch \in session[y.branch].line
                 PROVE  x = y
      BY <1>3 DEF LineRunsOnce
    <3>1. CASE x \in bodies /\ y \in bodies BY <1>0, <3>1 DEF LineRunsOnce
    <3>2. CASE x = x0 /\ y \in bodies
      <4>1. y.call = c /\ y.branch \in Branch /\ b \in session[y.branch].line
        BY <2>0, <2>9, <3>2
      <4>2. y.branch = b BY <2>8, <4>1
      <4> QED BY <1>0, <1>6, <3>2, <4>1, <4>2 DEF Records
    <3>3. CASE x \in bodies /\ y = x0
      BY <1>0, <1>6, <2>0, <2>9, <3>3 DEF Records
    <3> QED BY <2>1, <3>1, <3>2, <3>3
  <2>12. Payments'
    <3>1. Payments BY DEF IInv
    <3>2. session[b].intent = 1 BY <1>0 DEF Shape, SessionType
    <3>3. CASE paid' = paid BY <3>1, <3>3 DEF Payments
    <3>4. CASE /\ paid' = paid \cup {[key |-> key, branch |-> b]}
               /\ \A p \in paid : p.key # key
      BY <3>1, <3>2, <3>4 DEF Payments
    <3> QED BY <2>1, <3>3, <3>4
  <2>13. Gated'
    <3>1. \A d \in Calls : \/ attempt[b].at[d] = attempt'[b].at[d]
                           \/ attempt[b].at[d] = "let"
      BY <1>2, <2>2, <2>5
    <3>2. /\ engine'[b].said = engine[b].said
          /\ engine'[b].called = engine[b].called
      BY <2>3, <2>5
    <3>3. Gated BY DEF IInv
    <3>4. bodies \subseteq bodies' BY <2>1
    <3> QED BY <1>0, <1>2, <2>4, <3>1, <3>2, <3>3, <3>4, WorkGated
  <2> QED BY <1>4, <2>6, <2>10, <2>11, <2>12, <2>13 DEF IInv
<1> QED BY <1>5, <1>6

LEMMA ReplayStep ==
  ASSUME IInv, NEW b \in Branch, NEW c \in Calls, Replay(b, c) PROVE IInv'
<1> DEFINE a == [attempt[b] EXCEPT !.at[c] = "ran"]
<1>0. Shape /\ Records BY DEF IInv
<1>1. attempt[b] \in AttemptType BY <1>0 DEF Shape
<1>2. attempt[b].at[c] = "todo" /\ attempt[b].mode = "running" /\ Skips(b, c)
  BY DEF Replay, Turn, Ready
<1>3. /\ attempt' = [attempt EXCEPT ![b] = a] /\ session' = session
      /\ made' = made /\ surfaced' = surfaced /\ engine' = engine
      /\ bodies' = bodies /\ paid' = paid
  BY DEF Replay
<1>4. /\ a.kind = attempt[b].kind /\ a.mode = "running"
      /\ a.at[c] = "ran" /\ \A d \in Calls \ {c} : a.at[d] = attempt[b].at[d]
  BY <1>1, <1>2 DEF AttemptType
<1> HIDE DEF a
<1>5. Works(b) BY <1>0, <1>2, <1>3, <1>4, SameSession
<1>6. attempt'[b] = a BY <1>0, <1>3 DEF Shape
<1>7. Copied(b, c)
  <2>1. PICK x \in bodies : x.call = c /\ x.branch \in session[b].line
    BY <1>0, <1>2 DEF Records, Skips
  <2>2. x.branch # b BY <1>0, <1>2, <2>1 DEF Records, Skips
  <2> QED BY <2>1, <2>2 DEF Copied
<1>8. attempt[b].kind = "fork" /\ ~session[b].regate BY <1>2 DEF Skips
<1>9. Shape' BY <1>0, QuietShape
<1> QED BY <1>2, <1>3, <1>4, <1>5, <1>6, <1>7, <1>8, <1>9, Worked

(* The steps that let nothing. *)
LEMMA QuietStep ==
  ASSUME IInv, NEW b \in Branch,
         \/ \E c \in Calls : Bypass(b, c) \/ ProjectMissing(b, c)
         \/ Suspend(b) \/ StayParked(b) \/ Finish(b)
  PROVE  IInv'
<1>0. Shape BY DEF IInv
<1>1. attempt[b] \in AttemptType /\ engine[b] \in EngineType BY <1>0 DEF Shape
<1>2. /\ session' = session /\ made' = made /\ surfaced' = surfaced
      /\ bodies' = bodies /\ paid' = paid
      /\ attempt[b].mode \in {"opening", "running", "finishing"}
  BY DEF Bypass, ProjectMissing, Suspend, StayParked, Finish, Turn, Ready
<1>3. \/ attempt' = attempt
      \/ \E c \in Calls : attempt' = [attempt EXCEPT ![b].at[c] = "answered"]
      \/ \E m \in {"parked", "finishing"} : attempt' = [attempt EXCEPT ![b].mode = m]
  BY DEF Bypass, ProjectMissing, Suspend, StayParked, Finish
<1>4. \/ attempt' = attempt
      \/ \E a : /\ attempt' = [attempt EXCEPT ![b] = a]
                /\ a.kind = attempt[b].kind
  <2>1. ASSUME NEW c \in Calls PROVE [attempt[b] EXCEPT !.at[c] = "answered"].kind
                                       = attempt[b].kind
    BY <1>1 DEF AttemptType
  <2>2. ASSUME NEW m PROVE [attempt[b] EXCEPT !.mode = m].kind = attempt[b].kind
    BY <1>1 DEF AttemptType
  <2>3. CASE \E c \in Calls : attempt' = [attempt EXCEPT ![b].at[c] = "answered"]
    BY <2>1, <2>3
  <2>4. CASE \E m \in {"parked", "finishing"} :
               attempt' = [attempt EXCEPT ![b].mode = m]
    BY <2>2, <2>4
  <2> QED BY <1>3, <2>3, <2>4
<1>5. /\ engine' = engine \/ \E e : engine' = [engine EXCEPT ![b] = e]
      /\ engine'[b].ledger = engine[b].ledger
      /\ engine'[b].called = engine[b].called
      /\ engine'[b].said = engine[b].said \/ attempt'[b].mode = "parked"
  <2>1. CASE \E c \in Calls : Bypass(b, c)
    <3> PICK c \in Calls : Bypass(b, c) BY <2>1
    <3> DEFINE e == [engine[b] EXCEPT !.answer[c] =
                       IF @ = NoResult THEN result("refused", FALSE, "control") ELSE @]
    <3>1. engine' = [engine EXCEPT ![b] = e] BY DEF Bypass
    <3>2. /\ e.ledger = engine[b].ledger /\ e.said = engine[b].said
          /\ e.called = engine[b].called
      BY <1>1 DEF EngineType
    <3> HIDE DEF e
    <3> QED BY <1>0, <3>1, <3>2 DEF Shape
  <2>2. CASE Suspend(b)
    <3> DEFINE e == [engine[b] EXCEPT !.asked = asking(b), !.said = noWord]
    <3>1. engine' = [engine EXCEPT ![b] = e]
          /\ attempt' = [attempt EXCEPT ![b].mode = "parked"]
      BY <2>2 DEF Suspend
    <3>2. e.ledger = engine[b].ledger /\ e.called = engine[b].called
      BY <1>1 DEF EngineType
    <3>3. attempt'[b].mode = "parked" BY <1>0, <1>1, <3>1 DEF Shape, AttemptType
    <3> HIDE DEF e
    <3> QED BY <1>0, <3>1, <3>2, <3>3 DEF Shape
  <2>3. CASE engine' = engine BY <2>3
  <2> QED BY <2>1, <2>2, <2>3 DEF ProjectMissing, StayParked, Finish
<1>6. Works(b) BY <1>0, <1>2, <1>4, <1>5, SameSession
<1>7. \A c \in Calls : \/ attempt'[b].at[c] = attempt[b].at[c]
                       \/ attempt'[b].at[c] = "answered"
  <2>1. CASE \E d \in Calls : attempt' = [attempt EXCEPT ![b].at[d] = "answered"]
    BY <1>0, <1>1, <2>1 DEF Shape, AttemptType
  <2>2. CASE \E m \in {"parked", "finishing"} :
               attempt' = [attempt EXCEPT ![b].mode = m]
    BY <1>0, <1>1, <2>2 DEF Shape, AttemptType
  <2> QED BY <1>3, <2>1, <2>2
<1>8. attempt'[b].mode \in {"opening", "running"} =>
        attempt[b].mode \in {"opening", "running"}
  <2>1. CASE \E d \in Calls : attempt' = [attempt EXCEPT ![b].at[d] = "answered"]
    BY <1>0, <1>1, <2>1 DEF Shape, AttemptType
  <2>2. CASE \E m \in {"parked", "finishing"} :
               attempt' = [attempt EXCEPT ![b].mode = m]
    BY <1>0, <1>1, <2>2 DEF Shape, AttemptType
  <2> QED BY <1>3, <2>1, <2>2
<1>9. Shape' BY <1>0, QuietShape
<1>10. \A c \in Calls : attempt[b].at[c] \in {"ran", "answered"}
                          => attempt'[b].at[c] \in {"ran", "answered"}
  BY <1>7
<1> QED BY <1>2, <1>5, <1>6, <1>7, <1>8, <1>9, <1>10, Worked

LEMMA PostToolUseStep ==
  ASSUME IInv, NEW b \in Branch, NEW c \in Calls, PostToolUse(b, c) PROVE IInv'
<1> DEFINE a == [attempt[b] EXCEPT !.at[c] = "answered"]
           u == session[b].units
           r == [Journal(u, engine[b].ledger[c]) EXCEPT !.replayed = replays(b, c)]
           e == [engine[b] EXCEPT !.answer[c] = r]
           new == [branch |-> b, call |-> c, as |-> engine[b].called[c],
                   units |-> u, result |-> r,
                   approved |-> engine[b].said[c] = "approve",
                   rejournaled |-> attempt[b].kind = "fork" /\ ~session[b].regate]
<1>0. Shape BY DEF IInv
<1>1. attempt[b] \in AttemptType /\ engine[b] \in EngineType BY <1>0 DEF Shape
<1>2. attempt[b].at[c] = "ran" /\ attempt[b].mode = "running"
  BY DEF PostToolUse, Turn, Ready
<1>3. /\ attempt' = [attempt EXCEPT ![b] = a]
      /\ \E f : session' = [session EXCEPT ![b].forkable = f]
      /\ made' = made /\ bodies' = bodies /\ paid' = paid
      /\ surfaced' = surfaced \cup {new}
  BY DEF PostToolUse
<1>4. engine' = [engine EXCEPT ![b].answer[c] = r,
                               ![b].ledger[c] = recorded(@, r)]
  BY DEF PostToolUse
<1> HIDE DEF r
<1>5. engine' = [engine EXCEPT ![b] = [e EXCEPT !.ledger[c] = @]]
  BY <1>4 DEF recorded
<1>6. [e EXCEPT !.ledger[c] = @].ledger = engine[b].ledger
      /\ [e EXCEPT !.ledger[c] = @].said = engine[b].said
      /\ [e EXCEPT !.ledger[c] = @].called = engine[b].called
  BY <1>1 DEF EngineType
<1>7. /\ a.kind = attempt[b].kind /\ a.mode = "running"
      /\ a.at[c] = "answered" /\ \A d \in Calls \ {c} : a.at[d] = attempt[b].at[d]
  BY <1>1, <1>2 DEF AttemptType
<1>8. new.branch = b /\ new.call = c /\ new.as = engine[b].called[c]
      /\ new.units = u
      /\ new.approved = (engine[b].said[c] = "approve")
      /\ new.rejournaled = (attempt[b].kind = "fork" /\ ~session[b].regate)
  OBVIOUS
<1> HIDE DEF a, e, new, u
<1>9. Works(b) BY <1>0, <1>2, <1>3, <1>5, <1>7, SameSession
<1>10. attempt'[b] = a BY <1>0, <1>3 DEF Shape
<1>11. engine'[b].ledger = engine[b].ledger /\ engine'[b].said = engine[b].said
       /\ engine'[b].called = engine[b].called
  BY <1>0, <1>5, <1>6 DEF Shape
<1>12. Shape' BY <1>0, PostToolUseShape
<1>13. Shape' /\ Lines' /\ Records' /\ LineRunsOnce' /\ Payments' /\ Gated'
  BY <1>2, <1>3, <1>7, <1>9, <1>10, <1>11, <1>12, Worked
<1>14. Surfaced'
  <2>1. /\ Unused' = Unused /\ b \notin Unused
        /\ \A d \in Branch : \A f : Copied(d, f) => Copied(d, f)'
    BY <1>0, <1>3, <1>9, WorkKeeps DEF IInv
  <2>2. \A v, w, f : Lets(v, w, f)' <=> Lets(v, w, f) BY <1>3 DEF Lets
  <2>3. \/ Lets(u, engine[b].said[c], engine[b].called[c])
        \/ attempt[b].kind = "fork" /\ ~session[b].regate /\ Copied(b, c)
    BY <1>2 DEF IInv, Gated, u
  <2>4. \/ Lets(u, IF new.approved THEN "approve" ELSE "none", new.as)
        \/ new.rejournaled /\ Copied(b, c)
    BY <1>8, <2>3 DEF Lets
  <2>5. \A s \in surfaced : /\ s.branch \in Branch \ Unused
                            /\ \/ Lets(s.units, IF s.approved THEN "approve" ELSE "none",
                                       s.as)
                               \/ s.rejournaled /\ Copied(s.branch, s.call)
    BY DEF IInv, Surfaced
  <2> QED BY <1>3, <1>8, <2>1, <2>2, <2>4, <2>5 DEF Surfaced
<1> QED BY <1>13, <1>14 DEF IInv

----------------------------------------------------------------------------
(* A version begins. *)
LEMMA Begins ==
  ASSUME IInv, NEW b \in Unused, Shape',
         session'[b].units # <<"unused">>, ~session'[b].terminal,
         b \in session'[b].line,
         \A d \in session'[b].line \ {b} : d \in Branch /\ session[d].terminal,
         \A d \in Branch \ {b} : /\ session'[d] = session[d]
                                 /\ attempt'[d] = attempt[d]
                                 /\ engine'[d] = engine[d],
         attempt'[b].mode = "opening", \A c \in Calls : attempt'[b].at[c] = "todo",
         made' = made, bodies' = bodies, paid' = paid, surfaced' = surfaced,
         \A c \in Calls : engine'[b].ledger[c] # NoResult <=>
           \E x \in bodies : x.call = c /\ x.branch \in session'[b].line
  PROVE  IInv'
<1>0. Shape /\ Lines /\ Records /\ LineRunsOnce /\ Payments /\ Gated /\ Surfaced
  BY DEF IInv
<1>1. b \in Branch /\ ~session[b].terminal /\ session[b].line = {}
  BY <1>0 DEF Unused, Lines
<1>2. Unused' = Unused \ {b} BY <1>1 DEF Unused
<1>3. \A d \in Branch \ {b} : session[d].line \subseteq Branch /\ b \notin session[d].line
  BY <1>0, <1>1 DEF Lines, Shape, SessionType
<1>4. \A x \in bodies : x.branch \in Branch \ {b} /\ x.call \in Calls
  BY <1>0, <1>1 DEF Records, Shape
<1>5. Lines'
  <2>1. ASSUME NEW d \in Branch
        PROVE  /\ d \in Unused' => /\ session'[d].line = {}
                                   /\ ~session'[d].terminal
                                   /\ attempt'[d].mode = "idle"
               /\ d \notin Unused' => d \in session'[d].line
               /\ \A f \in session'[d].line : f = d \/ session'[f].terminal
               /\ session'[d].terminal => attempt'[d].mode = "done"
    <3>1. CASE d = b BY <1>1, <1>2, <3>1
    <3>2. CASE d # b
      <4>1. session'[d] = session[d] /\ attempt'[d] = attempt[d] BY <3>2
      <4>2. \A f \in session[d].line : session'[f] = session[f] BY <1>3, <3>2
      <4> QED BY <1>0, <1>2, <3>2, <4>1, <4>2 DEF Lines
    <3> QED BY <3>1, <3>2
  <2> QED BY <2>1 DEF Lines
<1>6. Records'
  <2>1. \A x \in bodies : /\ x.branch \in session'[x.branch].line
                          /\ \/ attempt'[x.branch].kind = "resume"
                             \/ attempt'[x.branch].at[x.call] \in {"ran", "answered"}
    BY <1>0, <1>4 DEF Records
  <2>2. ASSUME NEW d \in Branch, NEW c \in Calls
        PROVE  Recorded(d, c)' <=> \E x \in bodies : /\ x.call = c
                                                     /\ x.branch \in session'[d].line
    BY <1>0 DEF Records, Recorded
  <2>3. Calls' = Calls BY DEF Calls
  <2> QED BY <2>1, <2>2, <2>3 DEF Records
<1>7. LineRunsOnce' BY <1>0, <1>4 DEF LineRunsOnce
<1>8. Payments' BY <1>0 DEF Payments
<1>9. \A u, w, c : Lets(u, w, c)' <=> Lets(u, w, c) BY DEF Lets
<1>10. \A d \in Branch \ {b} : \A c : Copied(d, c)' <=> Copied(d, c) BY DEF Copied
<1>11. Gated'
  <2> SUFFICES ASSUME NEW d \in Branch, NEW c \in Calls,
                      attempt'[d].mode \in {"opening", "running"},
                      attempt'[d].at[c] \in {"let", "ran"}
               PROVE  \/ Lets(session[d].units, engine[d].said[c], engine[d].called[c])'
                      \/ /\ attempt'[d].at[c] = "ran"
                         /\ attempt'[d].kind = "fork" /\ ~session'[d].regate
                         /\ Copied(d, c)'
    BY DEF Gated, Calls
  <2>1. d # b OBVIOUS
  <2> QED BY <1>0, <1>9, <1>10, <2>1 DEF Gated
<1>12. Surfaced'
  <2>1. \A s \in surfaced : s.branch \in Branch \ Unused /\ s.branch # b
    BY <1>0 DEF Surfaced
  <2> QED BY <1>0, <1>2, <1>9, <1>10, <2>1 DEF Surfaced
<1> QED BY <1>5, <1>6, <1>7, <1>8, <1>11, <1>12 DEF IInv

LEMMA RunStep == ASSUME IInv, NEW u \in Selections, Run(u) PROVE IInv'
<1> DEFINE s == NewSession(u, 1, Origin, TRUE, {1})
<1>0. Shape /\ Lines /\ Records BY DEF IInv
<1>1. 1 \in Unused /\ 1 \in Branch BY DEF Run, Next_, Unused
<1>2. /\ s.units = u /\ s.terminal = FALSE /\ s.line = {1} /\ u # <<"unused">>
  BY SelectionsAreLists DEF NewSession
<1>3. /\ session' = [session EXCEPT ![1] = s] /\ engine' = engine
      /\ attempt' = [attempt EXCEPT ![1] = NewAttempt("run")]
      /\ made' = made /\ bodies' = bodies /\ paid' = paid /\ surfaced' = surfaced
  BY DEF Run, begin
<1> HIDE DEF s
<1>4. session'[1] = s /\ attempt'[1] = NewAttempt("run") /\ engine'[1] = engine[1]
  BY <1>0, <1>1, <1>3 DEF Shape
<1>5. \A d \in Branch \ {1} : session'[d] = session[d] /\ attempt'[d] = attempt[d]
  BY <1>0, <1>3 DEF Shape
<1>6. \A c \in Calls : engine'[1].ledger[c] # NoResult <=>
        \E x \in bodies : x.call = c /\ x.branch \in session'[1].line
  <2>1. session[1].line = {} BY <1>0, <1>1 DEF Lines
  <2>2. \A x \in bodies : x.branch # 1 BY <1>0, <2>1 DEF Records
  <2> QED BY <1>0, <1>1, <1>2, <1>4, <2>1, <2>2 DEF Records, Recorded
<1>7. attempt'[1].mode = "opening" /\ \A c \in Calls : attempt'[1].at[c] = "todo"
  BY <1>4 DEF NewAttempt
<1>8. Shape' BY <1>0, RunShape
<1> QED BY <1>1, <1>2, <1>3, <1>4, <1>5, <1>6, <1>7, <1>8, Begins

LEMMA ForkStep ==
  ASSUME IInv, NEW b \in Branch, NEW p \in points, NEW u \in Selections,
         NEW r \in BOOLEAN, Fork(b, p, u, r)
  PROVE  IInv'
<1> DEFINE from == IF p.boundary = "input" THEN {} ELSE session[p.branch].line
           line == IF p.boundary = "input" THEN {b}
                   ELSE session[p.branch].line \cup {b}
           s == NewSession(u, inherited(b, p), p, ~r, line)
           e == [engine[b] EXCEPT !.ledger = copied(p)]
<1>0. Shape /\ Lines /\ Records BY DEF IInv
<1>1. b \in Unused /\ p.branch \in Branch /\ session[p.branch].terminal
  BY <1>0 DEF Fork, Next_, Shape
<1>2. /\ s.units = u /\ s.terminal = FALSE /\ s.line = from \cup {b}
      /\ u # <<"unused">>
  BY SelectionsAreLists DEF NewSession
<1>3. /\ session' = [session EXCEPT ![b] = s]
      /\ engine' = [engine EXCEPT ![b] = e]
      /\ attempt' = [attempt EXCEPT ![b] = NewAttempt("fork")]
      /\ made' = made /\ bodies' = bodies /\ paid' = paid /\ surfaced' = surfaced
  BY DEF Fork, begin
<1>4. e.ledger = copied(p)
  <2>1. engine[b] \in EngineType BY <1>0 DEF Shape
  <2> QED BY <2>1 DEF EngineType
<1> HIDE DEF s, e
<1>5. session'[b] = s /\ attempt'[b] = NewAttempt("fork") /\ engine'[b] = e
  BY <1>0, <1>3 DEF Shape
<1>6. \A d \in Branch \ {b} : session'[d] = session[d] /\ attempt'[d] = attempt[d]
                              /\ engine'[d] = engine[d]
  BY <1>0, <1>3 DEF Shape
<1>7. \A d \in from : d \in Branch /\ session[d].terminal
  BY <1>0, <1>1 DEF Lines, Shape, SessionType
<1>8. \A c \in Calls : engine'[b].ledger[c] # NoResult <=>
        \E x \in bodies : x.call = c /\ x.branch \in session'[b].line
  <2>1. \A x \in bodies : x.branch # b
    BY <1>0, <1>1 DEF Records, Lines
  <2>2. \A c \in Calls : copied(p)[c] # NoResult <=>
          \E x \in bodies : x.call = c /\ x.branch \in from
    <3>1. CASE p.boundary = "input" BY <3>1 DEF copied, noResults
    <3>2. CASE p.boundary # "input" BY <1>0, <1>1, <3>2 DEF copied, Records, Recorded
    <3> QED BY <3>1, <3>2
  <2> QED BY <1>2, <1>4, <1>5, <2>1, <2>2
<1>9. attempt'[b].mode = "opening" /\ \A c \in Calls : attempt'[b].at[c] = "todo"
  BY <1>5 DEF NewAttempt
<1>10. Shape' BY <1>0, ForkShape
<1> HIDE DEF from
<1> QED BY <1>1, <1>2, <1>3, <1>5, <1>6, <1>7, <1>8, <1>9, <1>10, Begins

LEMMA ResumeStep ==
  ASSUME IInv, NEW b \in Branch, NEW c \in Calls,
         NEW says \in {"approve", "deny"}, NEW call, NEW u \in Selections,
         Resume(b, c, says, call, u)
  PROVE  IInv'
<1> DEFINE s == [session[b] EXCEPT !.units = u, !.streams = @ + 1]
           e == [engine[b] EXCEPT !.said[c] = says, !.called[c] = call]
<1>0. Shape /\ Lines /\ Records /\ LineRunsOnce /\ Payments /\ Gated /\ Surfaced
  BY DEF IInv
<1>1. session[b] \in SessionType /\ engine[b] \in EngineType BY <1>0 DEF Shape
<1>2. /\ session' = [session EXCEPT ![b] = s]
      /\ engine' = [engine EXCEPT ![b] = e]
      /\ attempt' = [attempt EXCEPT ![b] = NewAttempt("resume")]
      /\ made' = made /\ bodies' = bodies /\ paid' = paid /\ surfaced' = surfaced
      /\ attempt[b].mode = "parked"
  BY DEF Resume, begin
<1>3. /\ s.units = u /\ u # <<"unused">> /\ s.line = session[b].line
      /\ s.terminal = session[b].terminal
  BY <1>1, SelectionsAreLists DEF SessionType
<1>4. e.ledger = engine[b].ledger BY <1>1 DEF EngineType
<1> HIDE DEF s, e
<1>5. session'[b] = s /\ attempt'[b] = NewAttempt("resume") /\ engine'[b] = e
  BY <1>0, <1>2 DEF Shape
<1>6. \A d \in Branch \ {b} : session'[d] = session[d] /\ attempt'[d] = attempt[d]
                              /\ engine'[d] = engine[d]
  BY <1>0, <1>2 DEF Shape
<1>7. \A d \in Branch : /\ session'[d].line = session[d].line
                        /\ session'[d].terminal = session[d].terminal
                        /\ engine'[d].ledger = engine[d].ledger
                        /\ session[d].line \subseteq Branch
  BY <1>0, <1>3, <1>4, <1>5, <1>6 DEF Shape, SessionType
<1>8. b \notin Unused /\ ~session[b].terminal BY <1>0, <1>2 DEF Lines
<1>9. Unused' = Unused BY <1>3, <1>5, <1>6, <1>8 DEF Unused
<1>10. attempt'[b].kind = "resume" /\ \A d \in Calls : attempt'[b].at[d] = "todo"
  BY <1>5 DEF NewAttempt
<1>11. Lines' BY <1>0, <1>6, <1>7, <1>8, <1>9 DEF Lines
<1>12. \A x \in bodies : x.branch \in Branch BY <1>0 DEF Shape
<1>13. Records'
  <2>1. \A x \in bodies : /\ x.branch \in session'[x.branch].line
                          /\ \/ attempt'[x.branch].kind = "resume"
                             \/ attempt'[x.branch].at[x.call] \in {"ran", "answered"}
    BY <1>0, <1>6, <1>7, <1>10, <1>12 DEF Records
  <2>2. \A d \in Branch : \A f \in Calls :
          Recorded(d, f)' <=> \E x \in bodies : /\ x.call = f
                                                /\ x.branch \in session'[d].line
    BY <1>0, <1>7 DEF Records, Recorded
  <2> QED BY <1>2, <2>1, <2>2 DEF Records, Calls
<1>14. LineRunsOnce' BY <1>0, <1>2, <1>7, <1>12 DEF LineRunsOnce
<1>15. Payments' BY <1>0, <1>2 DEF Payments
<1>16. \A v, w, f : Lets(v, w, f)' <=> Lets(v, w, f) BY <1>2 DEF Lets
<1>17. \A d \in Branch : \A f : Copied(d, f)' <=> Copied(d, f)
  BY <1>2, <1>7 DEF Copied
<1>18. Gated'
  <2> SUFFICES ASSUME NEW d \in Branch, NEW f \in Calls,
                      attempt'[d].mode \in {"opening", "running"},
                      attempt'[d].at[f] \in {"let", "ran"}
               PROVE  \/ Lets(session[d].units, engine[d].said[f], engine[d].called[f])'
                      \/ /\ attempt'[d].at[f] = "ran"
                         /\ attempt'[d].kind = "fork" /\ ~session'[d].regate
                         /\ Copied(d, f)'
    BY <1>2 DEF Gated, Calls
  <2>1. d # b BY <1>10
  <2> QED BY <1>0, <1>6, <1>16, <1>17, <2>1 DEF Gated
<1>19. Surfaced' BY <1>0, <1>2, <1>9, <1>16, <1>17 DEF Surfaced
<1>20. Shape' BY <1>0, ResumeShape
<1> QED BY <1>11, <1>13, <1>14, <1>15, <1>18, <1>19, <1>20 DEF IInv

LEMMA OutcomeStep == ASSUME IInv, NEW b \in Branch, Outcome(b) PROVE IInv'
<1> DEFINE s == [session[b] EXCEPT !.terminal = TRUE]
           a == [attempt[b] EXCEPT !.mode = "done"]
<1>0. Shape /\ Lines /\ Records /\ LineRunsOnce /\ Payments /\ Gated /\ Surfaced
  BY DEF IInv
<1>1. session[b] \in SessionType /\ attempt[b] \in AttemptType BY <1>0 DEF Shape
<1>2. /\ session' = [session EXCEPT ![b] = s] /\ engine' = engine
      /\ attempt' = [attempt EXCEPT ![b] = a]
      /\ made' = made /\ bodies' = bodies /\ paid' = paid /\ surfaced' = surfaced
      /\ attempt[b].mode = "finishing"
  BY DEF Outcome
<1>3. /\ s.units = session[b].units /\ s.line = session[b].line /\ s.terminal
      /\ a.mode = "done" /\ a.at = attempt[b].at /\ a.kind = attempt[b].kind
  BY <1>1 DEF SessionType, AttemptType
<1> HIDE DEF s, a
<1>4. session'[b] = s /\ attempt'[b] = a BY <1>0, <1>2 DEF Shape
<1>5. \A d \in Branch \ {b} : session'[d] = session[d] /\ attempt'[d] = attempt[d]
  BY <1>0, <1>2 DEF Shape
<1>6. \A d \in Branch : /\ session'[d].line = session[d].line
                        /\ session'[d].units = session[d].units
                        /\ session[d].terminal => session'[d].terminal
                        /\ attempt'[d].at = attempt[d].at
                        /\ attempt'[d].kind = attempt[d].kind
                        /\ session[d].line \subseteq Branch
  BY <1>0, <1>3, <1>4, <1>5 DEF Shape, SessionType
<1>7. b \notin Unused BY <1>0, <1>2 DEF Lines
<1>8. Unused' = Unused BY <1>6 DEF Unused
<1>9. Lines' BY <1>0, <1>3, <1>4, <1>5, <1>6, <1>7, <1>8 DEF Lines
<1>10. \A x \in bodies : x.branch \in Branch BY <1>0 DEF Shape
<1>11. Records'
  <2>1. \A x \in bodies : /\ x.branch \in session'[x.branch].line
                          /\ \/ attempt'[x.branch].kind = "resume"
                             \/ attempt'[x.branch].at[x.call] \in {"ran", "answered"}
    BY <1>0, <1>6, <1>10 DEF Records
  <2>2. \A d \in Branch : \A c \in Calls :
          Recorded(d, c)' <=> \E x \in bodies : /\ x.call = c
                                                /\ x.branch \in session'[d].line
    BY <1>0, <1>2, <1>6 DEF Records, Recorded
  <2> QED BY <1>2, <2>1, <2>2 DEF Records, Calls
<1>12. LineRunsOnce' BY <1>0, <1>2, <1>6, <1>10 DEF LineRunsOnce
<1>13. Payments' BY <1>0, <1>2 DEF Payments
<1>14. \A v, w, f : Lets(v, w, f)' <=> Lets(v, w, f) BY <1>2 DEF Lets
<1>15. \A d \in Branch : \A f : Copied(d, f)' <=> Copied(d, f)
  BY <1>2, <1>6 DEF Copied
<1>16. Gated'
  <2> SUFFICES ASSUME NEW d \in Branch, NEW f \in Calls,
                      attempt'[d].mode \in {"opening", "running"},
                      attempt'[d].at[f] \in {"let", "ran"}
               PROVE  \/ Lets(session[d].units, engine[d].said[f], engine[d].called[f])'
                      \/ /\ attempt'[d].at[f] = "ran"
                         /\ attempt'[d].kind = "fork" /\ ~session'[d].regate
                         /\ Copied(d, f)'
    BY <1>2 DEF Gated, Calls
  <2>1. d # b BY <1>3, <1>4
  <2> QED BY <1>0, <1>2, <1>5, <1>14, <1>15, <2>1 DEF Gated
<1>17. Surfaced' BY <1>0, <1>2, <1>8, <1>14, <1>15 DEF Surfaced
<1>18. Shape' BY <1>0, OutcomeShape
<1> QED BY <1>9, <1>11, <1>12, <1>13, <1>16, <1>17, <1>18 DEF IInv

----------------------------------------------------------------------------
LEMMA InitInv == Init => IInv
<1> SUFFICES ASSUME Init PROVE IInv
  OBVIOUS
<1>1. Shape BY InitShape
<1>2. \A b \in Branch : /\ session[b].units = <<"unused">> /\ session[b].line = {}
                        /\ session[b].terminal = FALSE
                        /\ attempt[b].mode = "idle"
                        /\ engine[b].ledger = noResults
  BY DEF Init, NewSession, NewAttempt
<1>3. paid = {} /\ bodies = {} /\ surfaced = {} BY DEF Init
<1>4. Lines BY <1>2 DEF Lines, Unused
<1>5. Records BY <1>2, <1>3 DEF Records, Recorded, noResults
<1>6. Gated BY <1>2 DEF Gated
<1> QED BY <1>1, <1>3, <1>4, <1>5, <1>6
    DEF IInv, LineRunsOnce, Payments, Surfaced

LEMMA StepInv == IInv /\ [Next]_vars => IInv'
<1> SUFFICES ASSUME IInv, [Next]_vars PROVE IInv'
  OBVIOUS
<1>1. CASE Request
  <2> PICK u \in Selections :
        \/ Run(u)
        \/ \E b \in Branch : \E p \in points : \E r \in BOOLEAN : Fork(b, p, u, r)
        \/ \E b \in Branch, c \in Calls, says \in {"approve", "deny"} :
             \E call : Resume(b, c, says, call, u)
    BY <1>1 DEF Request
  <2> QED BY RunStep, ForkStep, ResumeStep
<1>2. CASE \E b \in Branch : \/ Open(b) \/ Suspend(b) \/ StayParked(b)
                             \/ Finish(b) \/ Outcome(b)
  BY <1>2, OpenStep, QuietStep, OutcomeStep
<1>3. CASE \E b \in Branch : \E c \in Calls : Hook(b, c)
  <2> PICK b \in Branch, c \in Calls : Hook(b, c) BY <1>3
  <2> QED BY PreToolUseStep, OnResumeStep, ExecuteStep, ReplayStep,
             PostToolUseStep, QuietStep DEF Hook
<1>4. CASE UNCHANGED vars
  <2>1. UNCHANGED <<made, session, engine, attempt, points, paid, bodies, surfaced>>
    BY <1>4 DEF vars
  <2>2. Shape' <=> Shape
    BY <2>1, SameBatch DEF Shape, SessionType
  <2>3. (Lines' <=> Lines) /\ (Records' <=> Records)
    BY <2>1 DEF Lines, Unused, Records, Recorded, Calls
  <2>4. (LineRunsOnce' <=> LineRunsOnce) /\ (Payments' <=> Payments)
    BY <2>1 DEF LineRunsOnce, Payments
  <2>5. /\ \A u, w, c : Lets(u, w, c)' <=> Lets(u, w, c)
        /\ \A b, c : Copied(b, c)' <=> Copied(b, c)
    BY <2>1 DEF Lets, Copied
  <2>6. (Gated' <=> Gated) /\ (Surfaced' <=> Surfaced)
    BY <2>1, <2>5 DEF Gated, Surfaced, Calls, Unused
  <2> QED BY <2>2, <2>3, <2>4, <2>6 DEF IInv
<1> QED BY <1>1, <1>2, <1>3, <1>4 DEF Next

THEOREM Always == Spec => []IInv
<1> QED BY InitInv, StepInv, PTL DEF Spec

(* Along a line of versions a tool body runs once: what a fork replays,     *)
(* its source has run (LineRunsOnce).                                       *)
THEOREM LinesRunOnce == Spec => []LineRunsOnce
<1>1. IInv => LineRunsOnce BY DEF IInv
<1> QED BY <1>1, Always, PTL

(* Over all versions a customer is charged once for a request (PaidOnce).   *)
THEOREM RequestsArePaidOnce == Spec => []PaidOnce
<1>1. IInv => PaidOnce
  <2> SUFFICES ASSUME Payments, NEW x \in paid, NEW y \in paid,
                      x.key[2] = y.key[2]
               PROVE  x = y
    BY DEF IInv, PaidOnce
  <2> QED BY DEF Payments
<1> QED BY <1>1, Always, PTL

(* A result enters a version under gates that let it, or a person's word,   *)
(* unless the request rejournals a record of a version before it            *)
(* (VersionsAreGated).                                                      *)
THEOREM VersionsKeepTheirGates == Spec => []VersionsAreGated
<1>1. IInv => VersionsAreGated
  <2> SUFFICES ASSUME Surfaced PROVE VersionsAreGated
    BY DEF IInv
  <2> QED BY DEF Surfaced, VersionsAreGated, Lets, Copied
<1> QED BY <1>1, Always, PTL

----------------------------------------------------------------------------
(* Journals. *)

(* What units make of an original: never a refusal or a request. *)
Result ==
  [text : Text \ {"refused", "asked"}, secret : BOOLEAN,
   redacted_by : Rewriting \cup {"none"}, replayed : BOOLEAN]

LEMMA RewriteType ==
  ASSUME NEW unit, NEW r \in Result
  PROVE  Rewrite(unit, r) \in Result
BY DEF Rewrite, pii_mask, context_firewall, injection_guard, result_drop,
       rewritten, Result, Text, Rewriting

(* The units rewrite one after the other. *)
LEMMA JournalRuns ==
  ASSUME NEW u \in Seq(STRING), NEW r \in Result
  PROVE  \E g \in [0..Len(u) -> Result] :
           /\ g[0] = r
           /\ \A i \in 1..Len(u) : g[i] = Rewrite(u[i], g[i - 1])
           /\ Journal(u, r) = g[Len(u)]
<1> DEFINE n == Len(u)
           F == [p \in (1..n) \X Result |-> Rewrite(u[p[1]], p[2])]
           J(g) == g = [S \in SUBSET (1..n) |->
                          IF S = {} THEN r ELSE Rewrite(u[Max(S)], g[S \ {Max(S)}])]
           it == CHOOSE g : J(g)
<1>1. n \in Nat /\ DOMAIN u = 1..n /\ \A i \in 1..n : u[i] \in STRING
  OBVIOUS
<1>2. F \in [(1..n) \X Result -> Result] BY <1>1, RewriteType
<1>3. PICK g \in [SUBSET (1..n) -> Result] : Solves(g, n, r, F)
  <2> HIDE DEF F, n
  <2> QED BY <1>1, <1>2, FoldExists
<1>4. J(g)
  <2>1. \A S \in SUBSET (1..n) : S # {} =>
          F[<<Max(S), g[S \ {Max(S)}]>>] = Rewrite(u[Max(S)], g[S \ {Max(S)}])
    <3> SUFFICES ASSUME NEW S \in SUBSET (1..n), S # {}
                 PROVE  <<Max(S), g[S \ {Max(S)}]>> \in (1..n) \X Result
      OBVIOUS
    <3>1. Max(S) \in S BY <1>1, LargestIn
    <3> QED BY <3>1
  <2> HIDE DEF F, n
  <2>2. [S \in SUBSET (1..n) |->
           IF S = {} THEN r ELSE F[<<Max(S), g[S \ {Max(S)}]>>]]
        = [S \in SUBSET (1..n) |->
             IF S = {} THEN r ELSE Rewrite(u[Max(S)], g[S \ {Max(S)}])]
    BY <2>1
  <2> QED BY <1>3, <2>2, Zenon DEF Solves
<1>5. J(it) BY <1>4, Zenon
<1>6. Journal(u, r) = it[1..n]
  BY <1>1, Zenon DEF Journal, FoldLeft, MapThenFoldSet
<1> HIDE DEF it, F
<1> DEFINE f == [i \in 0..n |-> it[1..i]]
<1>7. f[0] = r
  <2>1. 1..0 = {} OBVIOUS
  <2>2. it[{}] = r BY <1>5
  <2> QED BY <1>1, <2>1, <2>2
<1>8. ASSUME NEW i \in 1..n PROVE f[i] = Rewrite(u[i], f[i - 1])
  <2>1. Max(1..i) = i BY LargestIs
  <2>2. (1..i) \ {i} = 1..(i - 1) /\ 1..i # {} /\ (1..i) \in SUBSET (1..n)
    BY <1>1
  <2>3. it[1..i] = Rewrite(u[Max(1..i)], it[(1..i) \ {Max(1..i)}]) BY <1>5, <2>2
  <2>4. f[i] = it[1..i] /\ f[i - 1] = it[1..(i - 1)] BY <1>1
  <2> QED BY <2>1, <2>2, <2>3, <2>4
<1>9. f[n] = Journal(u, r) BY <1>1, <1>6
<1> HIDE DEF f
<1>10. {i \in 0..n : f[i] \in Result} = 0..n
  <2> DEFINE A == {i \in 0..n : f[i] \in Result}
  <2>1. 0 \in A BY <1>1, <1>7
  <2>2. ASSUME NEW i \in 1..n, f[i - 1] \in Result PROVE f[i] \in Result
    <3>1. u[i] \in STRING BY <1>1
    <3>2. Rewrite(u[i], f[i - 1]) \in Result BY <2>2, <3>1, RewriteType
    <3> QED BY <1>8, <3>2
  <2>3. \A i \in 1..n : i - 1 \in A => i \in A BY <2>2
  <2> HIDE DEF A
  <2>4. A \in SUBSET (0..n) BY DEF A
  <2>5. A = 0..n BY <1>1, <2>1, <2>3, <2>4, Inducts
  <2> QED BY <2>5 DEF A
<1>11. f \in [0..n -> Result] BY <1>10 DEF f
<1> QED BY <1>7, <1>8, <1>9, <1>11

LEMMA JournalType ==
  ASSUME NEW u \in Seq(STRING), NEW r \in Result PROVE Journal(u, r) \in Result
<1>1. Len(u) \in 0..Len(u) OBVIOUS
<1> QED BY <1>1, JournalRuns

Masking == {"pii_mask", "context_firewall", "result_drop"}

(* A masking unit leaves no secret, and none of the units brings one back. *)
LEMMA Masked ==
  ASSUME NEW u \in Seq(STRING), NEW r \in Result, Range(u) \cap Masking # {}
  PROVE  Journal(u, r).secret = FALSE
<1> DEFINE n == Len(u)
<1>1. n \in Nat /\ DOMAIN u = 1..n OBVIOUS
<1>2. PICK g \in [0..n -> Result] :
        /\ \A i \in 1..n : g[i] = Rewrite(u[i], g[i - 1])
        /\ Journal(u, r) = g[n]
  BY JournalRuns
<1>3. PICK k \in 1..n : u[k] \in Masking BY <1>1 DEF Range
<1> DEFINE A == {i \in 0..n : i >= k => g[i].secret = FALSE}
<1>4. 0 \in A BY <1>1
<1>5. ASSUME NEW i \in 1..n, i - 1 \in A PROVE i \in A
  <2>1. g[i] = Rewrite(u[i], g[i - 1]) /\ g[i - 1] \in Result BY <1>1, <1>2
  <2>2. CASE i = k
    <3>1. u[i] \in Masking BY <1>3, <2>2
    <3>2. g[i].secret = FALSE
      BY <2>1, <3>1 DEF Masking, Rewrite, pii_mask, context_firewall, result_drop,
                        rewritten, Result
    <3> QED BY <3>2
  <2>3. CASE i > k
    <3>1. g[i - 1].secret = FALSE BY <1>5, <1>1, <1>3, <2>3
    <3>2. g[i].secret = FALSE
      BY <2>1, <3>1 DEF Rewrite, pii_mask, context_firewall, injection_guard,
                        result_drop, rewritten, Result
    <3> QED BY <3>2
  <2>4. CASE i < k BY <2>4, <1>1, <1>3
  <2> QED BY <1>1, <1>3, <2>2, <2>3, <2>4
<1> HIDE DEF A
<1>6. A \in SUBSET (0..n) BY DEF A
<1>7. A = 0..n BY <1>1, <1>4, <1>5, <1>6, Inducts
<1>8. n \in A BY <1>1, <1>7
<1> QED BY <1>1, <1>2, <1>3, <1>8 DEF A

(* Units that do not rewrite leave a result as it is. *)
LEMMA Untouched ==
  ASSUME NEW u \in Seq(STRING), NEW r \in Result, Range(u) \cap Rewriting = {}
  PROVE  Journal(u, r) = r
<1> DEFINE n == Len(u)
<1>1. n \in Nat /\ DOMAIN u = 1..n OBVIOUS
<1>2. PICK g \in [0..n -> Result] :
        /\ g[0] = r
        /\ \A i \in 1..n : g[i] = Rewrite(u[i], g[i - 1])
        /\ Journal(u, r) = g[n]
  BY JournalRuns
<1> DEFINE A == {i \in 0..n : g[i] = r}
<1>3. 0 \in A BY <1>1, <1>2
<1>4. ASSUME NEW i \in 1..n, i - 1 \in A PROVE i \in A
  <2>1. u[i] \notin Rewriting BY <1>1 DEF Range
  <2>2. Rewrite(u[i], g[i - 1]) = g[i - 1] BY <2>1 DEF Rewrite, Rewriting
  <2> QED BY <1>1, <1>2, <1>4, <2>2
<1> HIDE DEF A
<1>5. A \in SUBSET (0..n) BY DEF A
<1>6. A = 0..n BY <1>1, <1>3, <1>4, <1>5, Inducts
<1>7. n \in A BY <1>1, <1>6
<1> QED BY <1>2, <1>7 DEF A

----------------------------------------------------------------------------
(* Originals. *)

(* A result as a body on the line of a version gave it. *)
Original(b, c, o) ==
  \E x \in bodies : x.call = c /\ x.branch \in session[b].line /\ o = raw(x.as)

Surfaces(s) ==
  \E t \in BOOLEAN : \E o :
    /\ Original(s.branch, s.call, o)
    /\ s.result = [Journal(s.units, o) EXCEPT !.replayed = t]

(* The record of a call, in every version that has one, is what a body on   *)
(* its line gave; a call counts as run only with its record; and what       *)
(* surfaced is what the units of its stream made of the original.           *)
Originals ==
  /\ \A b \in Branch : \A c \in Calls :
       /\ \/ engine[b].ledger[c] = NoResult
          \/ Original(b, c, engine[b].ledger[c])
       /\ attempt[b].at[c] = "ran" => Recorded(b, c)
  /\ \A s \in surfaced :
       s.branch \in Branch /\ s.units \in Seq(STRING) /\ Surfaces(s)

LEMMA RawIsOriginal ==
  ASSUME NEW call
  PROVE  raw(call) \in Result /\ NoResult \in Result /\ raw(call) # NoResult
<1>1. raw(call).text = "plain" /\ NoResult.text = "none"
  BY DEF raw, NoResult, result
<1>2. \A t \in {"plain", "none"}, s \in BOOLEAN : result(t, s, "none") \in Result
  <2> TAKE t \in {"plain", "none"}, s \in BOOLEAN
  <2>1. t \in Text \ {"refused", "asked"} BY DEF Text
  <2>2. /\ [text |-> t, secret |-> TRUE, redacted_by |-> "none", replayed |-> FALSE]
             \in Result
        /\ [text |-> t, secret |-> FALSE, redacted_by |-> "none", replayed |-> FALSE]
             \in Result
    BY <2>1 DEF Result, Rewriting
  <2>3. s = TRUE \/ s = FALSE OBVIOUS
  <2> QED BY <2>2, <2>3, Zenon DEF result
<1>3. raw(call) \in Result
  <2>1. (call.request \in Private) \in BOOLEAN OBVIOUS
  <2> QED BY <1>2, <2>1, Zenon DEF raw
<1>4. NoResult \in Result BY <1>2, Zenon DEF NoResult
<1> QED BY <1>1, <1>3, <1>4

(* Bodies that ran stay, and so do the versions of a line. *)
Lengthens ==
  /\ bodies \subseteq bodies'
  /\ \A d \in Branch : session[d].line \subseteq session'[d].line

LEMMA LinesGrow == ASSUME Shape, Lines, [Next]_vars PROVE Lengthens /\ made' = made
<1>1. \A d \in Branch : session[d] \in SessionType BY DEF Shape
<1>2. ASSUME NEW u \in Selections, Run(u) PROVE Lengthens /\ made' = made
  <2> DEFINE s == NewSession(u, 1, Origin, TRUE, {1})
  <2>1. /\ 1 \in Branch /\ session[1].line = {} /\ bodies' = bodies /\ made' = made
        /\ session' = [session EXCEPT ![1] = s]
    BY <1>2 DEF Run, Next_, Unused, Lines
  <2> HIDE DEF s
  <2> QED BY <2>1 DEF Lengthens, Shape
<1>3. ASSUME NEW b \in Branch, NEW p \in points, NEW u \in Selections,
             NEW r \in BOOLEAN, Fork(b, p, u, r)
      PROVE  Lengthens /\ made' = made
  <2>1. /\ session[b].line = {} /\ bodies' = bodies /\ made' = made
        /\ \E s : session' = [session EXCEPT ![b] = s]
    BY <1>3 DEF Fork, Next_, Unused, Lines
  <2> QED BY <2>1 DEF Lengthens, Shape
<1>4. ASSUME NEW b \in Branch, NEW c \in Calls, NEW says, NEW call,
             NEW u \in Selections, Resume(b, c, says, call, u)
      PROVE  Lengthens /\ made' = made
  <2>1. /\ bodies' = bodies /\ made' = made
        /\ session' = [session EXCEPT ![b].units = u, ![b].streams = @ + 1]
    BY <1>4 DEF Resume
  <2>2. session'[b].line = session[b].line BY <1>1, <2>1 DEF Shape, SessionType
  <2> QED BY <2>1, <2>2 DEF Lengthens, Shape
<1>5. CASE Request
  BY <1>2, <1>3, <1>4, <1>5 DEF Request
<1>6. ASSUME NEW b \in Branch, bodies' = bodies, made' = made,
             \/ session' = session
             \/ \E f : session' = [session EXCEPT ![b].forkable = f]
             \/ session' = [session EXCEPT ![b].terminal = TRUE]
      PROVE  Lengthens /\ made' = made
  <2>1. session'[b].line = session[b].line BY <1>1, <1>6 DEF Shape, SessionType
  <2> QED BY <1>6, <2>1 DEF Lengthens, Shape
<1>7. ASSUME NEW b \in Branch,
             Open(b) \/ Suspend(b) \/ StayParked(b) \/ Finish(b) \/ Outcome(b)
      PROVE  Lengthens /\ made' = made
  BY <1>6, <1>7 DEF Open, Suspend, StayParked, Finish, Outcome
<1>8. ASSUME NEW b \in Branch, NEW c \in Calls, Hook(b, c)
      PROVE  Lengthens /\ made' = made
  <2>1. CASE Execute(b, c) BY <2>1 DEF Execute, Lengthens
  <2>2. CASE PreToolUse(b, c) \/ OnResume(b, c)
    BY <1>6, <2>2 DEF PreToolUse, OnResume, gate
  <2>3. CASE Replay(b, c) \/ Bypass(b, c) \/ ProjectMissing(b, c)
    BY <1>6, <2>3 DEF Replay, Bypass, ProjectMissing
  <2>4. CASE PostToolUse(b, c) BY <1>6, <2>4 DEF PostToolUse
  <2> QED BY <1>8, <2>1, <2>2, <2>3, <2>4 DEF Hook
<1>9. CASE UNCHANGED vars BY <1>9 DEF vars, Lengthens
<1> QED BY <1>5, <1>7, <1>8, <1>9 DEF Next

(* What surfaced is still one of the originals. *)
LEMMA SurfacedStays ==
  ASSUME Lengthens, NEW s, s.branch \in Branch, Surfaces(s)
  PROVE  Surfaces(s)'
<1>1. PICK t, o : /\ t \in BOOLEAN /\ Original(s.branch, s.call, o)
                  /\ s.result = [Journal(s.units, o) EXCEPT !.replayed = t]
  BY DEF Surfaces
<1>2. Original(s.branch, s.call, o)' BY <1>1 DEF Lengthens, Original
<1> QED BY <1>1, <1>2 DEF Surfaces

(* A step that makes no record and surfaces nothing. *)
LEMMA OriginalsKeep ==
  ASSUME Originals, Lengthens, made' = made, surfaced' = surfaced,
         \A d \in Branch : engine'[d].ledger = engine[d].ledger,
         \A d \in Branch : \A f \in Calls :
           attempt'[d].at[f] = "ran" => attempt[d].at[f] = "ran" \/ Recorded(d, f)
  PROVE  Originals'
<1>1. Calls' = Calls BY DEF Calls
<1>2. \A d \in Branch : \A f \in Calls : Recorded(d, f)' <=> Recorded(d, f)
  BY DEF Recorded
<1>3. ASSUME NEW d \in Branch, NEW f \in Calls
      PROVE  engine'[d].ledger[f] = NoResult \/ Original(d, f, engine[d].ledger[f])'
  <2>1. engine[d].ledger[f] = NoResult \/ Original(d, f, engine[d].ledger[f])
    BY DEF Originals
  <2> QED BY <2>1 DEF Original, Lengthens
<1>4. \A s \in surfaced : Surfaces(s)' BY SurfacedStays DEF Originals
<1> QED BY <1>1, <1>2, <1>3, <1>4 DEF Originals

(* A version that begins has the records of another, or its own, or none. *)
LEMMA BeginOriginals ==
  ASSUME Originals, Lengthens, NEW b \in Branch, made' = made, surfaced' = surfaced,
         \A d \in Branch \ {b} : /\ engine'[d].ledger = engine[d].ledger
                                 /\ attempt'[d] = attempt[d],
         \A f \in Calls : attempt'[b].at[f] = "todo",
         \/ engine'[b].ledger = noResults
         \/ \E d \in Branch : /\ engine'[b].ledger = engine[d].ledger
                             /\ session[d].line \subseteq session'[b].line
  PROVE  Originals'
<1>1. Calls' = Calls BY DEF Calls
<1>2. ASSUME NEW f \in Calls
      PROVE  engine'[b].ledger[f] = NoResult \/ Original(b, f, engine[b].ledger[f])'
  <2>1. CASE engine'[b].ledger = noResults BY <2>1 DEF noResults
  <2>2. CASE \E d \in Branch : /\ engine'[b].ledger = engine[d].ledger
                              /\ session[d].line \subseteq session'[b].line
    <3>1. PICK d \in Branch : /\ engine'[b].ledger = engine[d].ledger
                             /\ session[d].line \subseteq session'[b].line
      BY <2>2
    <3>2. engine[d].ledger[f] = NoResult \/ Original(d, f, engine[d].ledger[f])
      BY DEF Originals
    <3> QED BY <3>1, <3>2 DEF Original, Lengthens
  <2> QED BY <2>1, <2>2
<1>3. \A d \in Branch \ {b} : \A f \in Calls : Recorded(d, f)' <=> Recorded(d, f)
  BY DEF Recorded
<1>4. ASSUME NEW d \in Branch \ {b}, NEW f \in Calls
      PROVE  engine'[d].ledger[f] = NoResult \/ Original(d, f, engine[d].ledger[f])'
  <2>1. engine[d].ledger[f] = NoResult \/ Original(d, f, engine[d].ledger[f])
    BY DEF Originals
  <2> QED BY <2>1 DEF Original, Lengthens
<1>5. \A s \in surfaced : Surfaces(s)' BY SurfacedStays DEF Originals
<1> QED BY <1>1, <1>2, <1>3, <1>4, <1>5 DEF Originals

LEMMA OriginalsStep ==
  ASSUME IInv, Originals, [Next]_vars PROVE Originals'
<1>. Shape /\ Lines BY DEF IInv
<1>0. Lengthens BY LinesGrow
<1>1. /\ \A b \in Branch : /\ session[b] \in SessionType
                           /\ engine[b] \in EngineType
                           /\ attempt[b] \in AttemptType
      /\ \A p \in points : p.branch \in Branch
  BY DEF Shape
<1>2. ASSUME NEW u \in Selections, Run(u) PROVE Originals'
  <2>1. /\ 1 \in Branch /\ engine' = engine /\ made' = made /\ surfaced' = surfaced
        /\ attempt' = [attempt EXCEPT ![1] = NewAttempt("run")]
    BY <1>2 DEF Run, begin, Next_, Unused
  <2>2. attempt'[1].at = [c \in Calls |-> "todo"]
    BY <2>1 DEF Shape, NewAttempt
  <2> QED BY <1>0, <2>1, <2>2, BeginOriginals DEF Shape, Lengthens
<1>3. ASSUME NEW b \in Branch, NEW p \in points, NEW u \in Selections,
             NEW r \in BOOLEAN, Fork(b, p, u, r)
      PROVE  Originals'
  <2>1. /\ engine' = [engine EXCEPT ![b].ledger = copied(p)]
        /\ made' = made /\ surfaced' = surfaced
        /\ attempt' = [attempt EXCEPT ![b] = NewAttempt("fork")]
    BY <1>3 DEF Fork, begin
  <2>2. attempt'[b].at = [c \in Calls |-> "todo"]
    BY <2>1 DEF Shape, NewAttempt
  <2>3. engine'[b].ledger = copied(p) BY <1>1, <2>1 DEF Shape, EngineType
  <2>4. \A d \in Branch \ {b} : engine'[d] = engine[d] /\ attempt'[d] = attempt[d]
    BY <2>1 DEF Shape
  <2>5. \/ engine'[b].ledger = noResults
        \/ \E d \in Branch : /\ engine'[b].ledger = engine[d].ledger
                            /\ session[d].line \subseteq session'[b].line
    <3>1. CASE p.boundary = "input" BY <2>3, <3>1 DEF copied
    <3>2. CASE p.boundary # "input"
      <4>1. session'[b].line = session[p.branch].line \cup {b}
        BY <1>3, <3>2 DEF Fork, NewSession, Shape
      <4> QED BY <1>1, <2>3, <3>2, <4>1 DEF copied
    <3> QED BY <3>1, <3>2
  <2> QED BY <2>1, <2>2, <2>4, <2>5, BeginOriginals, <1>0
<1>4. ASSUME NEW b \in Branch, NEW c \in Calls, NEW says \in {"approve", "deny"},
             NEW call, NEW u \in Selections, Resume(b, c, says, call, u)
      PROVE  Originals'
  <2>1. /\ engine' = [engine EXCEPT ![b].said[c] = says, ![b].called[c] = call]
        /\ made' = made /\ surfaced' = surfaced
        /\ attempt' = [attempt EXCEPT ![b] = NewAttempt("resume")]
    BY <1>4 DEF Resume, begin
  <2>2. attempt'[b].at = [f \in Calls |-> "todo"]
    BY <2>1 DEF Shape, NewAttempt
  <2>3. engine'[b].ledger = engine[b].ledger BY <1>1, <2>1 DEF Shape, EngineType
  <2>4. \A d \in Branch \ {b} : engine'[d] = engine[d] /\ attempt'[d] = attempt[d]
    BY <2>1 DEF Shape
  <2>5. session[b].line \subseteq session'[b].line BY <1>0 DEF Lengthens
  <2> QED BY <1>0, <2>1, <2>2, <2>3, <2>4, <2>5, BeginOriginals
<1>5. ASSUME NEW b \in Branch,
             Open(b) \/ Suspend(b) \/ StayParked(b) \/ Finish(b) \/ Outcome(b)
      PROVE  Originals'
  <2>1. /\ made' = made /\ surfaced' = surfaced
        /\ \E m : attempt' = [attempt EXCEPT ![b].mode = m]
        /\ \/ engine' = engine
           \/ engine' = [engine EXCEPT ![b].asked = asking(b), ![b].said = noWord]
    BY <1>5 DEF Open, Suspend, StayParked, Finish, Outcome
  <2>2. \A d \in Branch : attempt'[d].at = attempt[d].at
    BY <1>1, <2>1 DEF Shape, AttemptType
  <2>3. \A d \in Branch : engine'[d].ledger = engine[d].ledger
    <3>1. CASE engine' = engine BY <3>1
    <3>2. CASE engine' = [engine EXCEPT ![b].asked = asking(b), ![b].said = noWord]
      BY <1>1, <3>2 DEF Shape, EngineType
    <3> QED BY <2>1, <3>1, <3>2
  <2> QED BY <2>1, <2>2, <2>3, OriginalsKeep, <1>0
<1>6. ASSUME NEW b \in Branch, NEW c \in Calls, NEW hooks, NEW reads, NEW r,
             gate(b, c, hooks, reads, r)
      PROVE  Originals'
  <2> DEFINE place == CASE r = NoResult       -> "let"
                        [] r.text = "refused" -> "answered"
                        [] OTHER              -> "asked"
  <2>1. /\ made' = made /\ surfaced' = surfaced
        /\ attempt' = [attempt EXCEPT ![b].at[c] = place]
        /\ engine' = [engine EXCEPT
             ![b].answer[c] = IF r.text = "refused" THEN r ELSE @]
    BY <1>6 DEF gate
  <2>2. place # "ran" OBVIOUS
  <2> HIDE DEF place
  <2>3. \A d \in Branch : \A f \in Calls :
          attempt'[d].at[f] = "ran" => attempt[d].at[f] = "ran"
    BY <1>1, <2>1, <2>2 DEF Shape, AttemptType
  <2>4. \A d \in Branch : engine'[d].ledger = engine[d].ledger
    BY <1>1, <2>1 DEF Shape, EngineType
  <2> QED BY <2>1, <2>3, <2>4, OriginalsKeep, <1>0
<1>7. ASSUME NEW b \in Branch, NEW c \in Calls, Execute(b, c) PROVE Originals'
  <2>1. made' = made /\ surfaced' = surfaced BY <1>7 DEF Execute
  <2>2. \A d \in Branch : \A f \in Calls :
          attempt'[d].at[f] = "ran" => attempt[d].at[f] = "ran" \/ (d = b /\ f = c)
    <3>1. \/ attempt' = [attempt EXCEPT ![b].at[c] = "ran"]
          \/ attempt' = [attempt EXCEPT ![b].at[c] = "ran", ![b].ran = @ \cup {c}]
      BY <1>7 DEF Execute
    <3> QED BY <1>1, <3>1 DEF Shape, AttemptType
  <2>3. CASE Recorded(b, c)
    <3>1. engine' = engine BY <1>7, <2>3 DEF Execute
    <3> QED BY <2>1, <2>2, <2>3, <3>1, OriginalsKeep, <1>0
  <2>4. CASE ~Recorded(b, c)
    <3> DEFINE o == raw(engine[b].called[c])
    <3>1. engine' = [engine EXCEPT ![b].ledger[c] = o] BY <1>7, <2>4 DEF Execute
    <3>2. o # NoResult BY RawIsOriginal
    <3>3. \E x \in bodies' :
            x.call = c /\ x.branch \in session'[b].line /\ o = raw(x.as)
      <4> DEFINE x == [branch |-> b, call |-> c, as |-> engine[b].called[c],
                       stream |-> session[b].streams]
      <4>1. session' = session /\ attempt[b].mode = "running" /\ x \in bodies'
        BY <1>7, <2>4 DEF Execute, Turn, Ready
      <4>2. b \in session[b].line BY <4>1 DEF Lines
      <4>3. x.branch = b /\ x.call = c /\ x.as = engine[b].called[c] OBVIOUS
      <4> QED BY <4>1, <4>2, <4>3
    <3> HIDE DEF o
    <3>4. \A d \in Branch : \A f \in Calls :
            engine'[d].ledger[f] = IF d = b /\ f = c THEN o
                                   ELSE engine[d].ledger[f]
      BY <1>1, <3>1 DEF Shape, EngineType
    <3>5. Calls' = Calls BY <2>1 DEF Calls
    <3>6. \A d \in Branch : \A f \in Calls :
            Recorded(d, f)' <=> Recorded(d, f) \/ (d = b /\ f = c)
      BY <3>2, <3>4 DEF Recorded
    <3>7. ASSUME NEW d \in Branch, NEW f \in Calls
          PROVE  \/ engine'[d].ledger[f] = NoResult
                 \/ Original(d, f, engine[d].ledger[f])'
      <4>1. CASE d = b /\ f = c
        <5>1. engine'[d].ledger[f] = o BY <3>4, <4>1
        <5> QED BY <3>3, <4>1, <5>1 DEF Original
      <4>2. CASE ~(d = b /\ f = c)
        <5>1. engine'[d].ledger[f] = engine[d].ledger[f] BY <3>4, <4>2
        <5>2. engine[d].ledger[f] = NoResult \/ Original(d, f, engine[d].ledger[f])
          BY DEF Originals
        <5> QED BY <1>0, <5>1, <5>2 DEF Original, Lengthens
      <4> QED BY <4>1, <4>2
    <3>8. \A s \in surfaced : Surfaces(s)' BY <1>0, SurfacedStays DEF Originals
    <3> QED BY <2>1, <2>2, <3>5, <3>6, <3>7, <3>8 DEF Originals
  <2> QED BY <2>3, <2>4
<1>8. ASSUME NEW b \in Branch, NEW c \in Calls,
             Replay(b, c) \/ Bypass(b, c) \/ ProjectMissing(b, c)
      PROVE  Originals'
  <2>1. made' = made /\ surfaced' = surfaced
    BY <1>8 DEF Replay, Bypass, ProjectMissing
  <2>2. CASE Replay(b, c)
    <3>1. /\ attempt' = [attempt EXCEPT ![b].at[c] = "ran"] /\ engine' = engine
          /\ Recorded(b, c)
      BY <2>2 DEF Replay, Skips
    <3>2. \A d \in Branch : \A f \in Calls :
            attempt'[d].at[f] = "ran" => attempt[d].at[f] = "ran" \/ Recorded(d, f)
      BY <1>1, <3>1 DEF Shape, AttemptType
    <3> QED BY <2>1, <3>1, <3>2, OriginalsKeep, <1>0
  <2>3. CASE Bypass(b, c)
    <3>1. /\ attempt' = [attempt EXCEPT ![b].at[c] = "answered"]
          /\ engine' = [engine EXCEPT ![b].answer[c] =
                 IF @ = NoResult THEN result("refused", FALSE, "control") ELSE @]
      BY <2>3 DEF Bypass
    <3>2. \A d \in Branch : \A f \in Calls :
            attempt'[d].at[f] = "ran" => attempt[d].at[f] = "ran"
      BY <1>1, <3>1 DEF Shape, AttemptType
    <3>3. \A d \in Branch : engine'[d].ledger = engine[d].ledger
      BY <1>1, <3>1 DEF Shape, EngineType
    <3> QED BY <2>1, <3>2, <3>3, OriginalsKeep, <1>0
  <2>4. CASE ProjectMissing(b, c)
    <3>1. attempt' = attempt /\ engine' = engine BY <2>4 DEF ProjectMissing
    <3> QED BY <2>1, <3>1, OriginalsKeep, <1>0
  <2> QED BY <1>8, <2>2, <2>3, <2>4
<1>9. ASSUME NEW b \in Branch, NEW c \in Calls, PostToolUse(b, c) PROVE Originals'
  <2> DEFINE u == session[b].units
             r == [Journal(u, engine[b].ledger[c]) EXCEPT !.replayed = replays(b, c)]
  <2>1. /\ made' = made /\ attempt[b].at[c] = "ran"
        /\ attempt' = [attempt EXCEPT ![b].at[c] = "answered"]
        /\ engine' = [engine EXCEPT ![b].answer[c] = r,
                                    ![b].ledger[c] = recorded(@, r)]
        /\ \A s \in surfaced' :
             \/ s \in surfaced
             \/ s.branch = b /\ s.call = c /\ s.units = u /\ s.result = r
    BY <1>9 DEF PostToolUse
  <2>2. Original(b, c, engine[b].ledger[c]) BY <2>1 DEF Originals, Recorded
  <2>3. u \in Seq(STRING)
    <3>1. u \in Selections \cup {<<"unused">>} BY <1>1 DEF SessionType
    <3>2. attempt[b].mode # "idle" BY <1>9 DEF PostToolUse, Turn, Ready
    <3>3. u # <<"unused">> BY <3>2 DEF IInv, Lines, Unused
    <3> QED BY <3>1, <3>3, SelectionsAreLists
  <2>4. replays(b, c) \in BOOLEAN BY DEF replays
  <2>5. \E t \in BOOLEAN : \E o :
          Original(b, c, o) /\ r = [Journal(u, o) EXCEPT !.replayed = t]
    BY <2>2, <2>4
  <2> HIDE DEF r, u
  <2>6. \A d \in Branch : engine'[d].ledger = engine[d].ledger
    BY <1>1, <2>1 DEF Shape, EngineType, recorded
  <2>7. \A d \in Branch : \A f \in Calls :
          attempt'[d].at[f] = "ran" => attempt[d].at[f] = "ran"
    BY <1>1, <2>1 DEF Shape, AttemptType
  <2>8. Calls' = Calls BY <2>1 DEF Calls
  <2>9. \A d \in Branch : \A f \in Calls : Recorded(d, f)' <=> Recorded(d, f)
    BY <2>6 DEF Recorded
  <2>10. ASSUME NEW d \in Branch, NEW f \in Calls
         PROVE  \/ engine'[d].ledger[f] = NoResult
                \/ Original(d, f, engine[d].ledger[f])'
    <3>1. engine[d].ledger[f] = NoResult \/ Original(d, f, engine[d].ledger[f])
      BY DEF Originals
    <3> QED BY <1>0, <2>6, <3>1 DEF Original, Lengthens
  <2>11. ASSUME NEW s \in surfaced'
         PROVE  s.branch \in Branch /\ s.units \in Seq(STRING) /\ Surfaces(s)'
    <3>1. CASE s \in surfaced BY <1>0, <3>1, SurfacedStays DEF Originals
    <3>2. CASE s.branch = b /\ s.call = c /\ s.units = u /\ s.result = r
      <4>1. Surfaces(s) BY <2>5, <3>2 DEF Surfaces
      <4> QED BY <1>0, <2>3, <3>2, <4>1, SurfacedStays
    <3> QED BY <2>1, <3>1, <3>2
  <2> QED BY <2>7, <2>8, <2>9, <2>10, <2>11 DEF Originals
<1>10. CASE UNCHANGED vars
  BY <1>10, OriginalsKeep, <1>0 DEF vars
<1>11. CASE Request BY <1>11, <1>2, <1>3, <1>4 DEF Request
<1>12. CASE \E b \in Branch : \E c \in Calls : Hook(b, c)
  BY <1>12, <1>6, <1>7, <1>8, <1>9 DEF Hook, PreToolUse, OnResume
<1> QED BY <1>5, <1>10, <1>11, <1>12 DEF Next

THEOREM AlwaysOriginal == Spec => []Originals
<1>1. Init => Originals
  <2> SUFFICES ASSUME Init PROVE Originals
    OBVIOUS
  <2>1. \A b \in Branch : engine[b].ledger = noResults
                          /\ attempt[b].at = [c \in Calls |-> "todo"]
    BY DEF Init, NewAttempt
  <2>2. \A c \in Calls : noResults[c] = NoResult BY DEF noResults
  <2>3. surfaced = {} BY DEF Init
  <2> QED BY <2>1, <2>2, <2>3 DEF Originals
<1> QED BY <1>1, OriginalsStep, Always, PTL DEF Spec

(* No personal data enters a version one of whose units would take it out,  *)
(* whatever the selection and the order of its units (MasksHold).           *)
THEOREM MasksAreKept == Spec => []MasksHold
<1>1. Originals => MasksHold
  <2> SUFFICES ASSUME Originals, NEW s \in surfaced,
                      Range(s.units) \cap Masking # {}
               PROVE  s.result.secret = FALSE
    BY DEF MasksHold, Masking
  <2>1. PICK t, o :
          /\ t \in BOOLEAN /\ Original(s.branch, s.call, o)
          /\ s.result = [Journal(s.units, o) EXCEPT !.replayed = t]
    BY DEF Originals, Surfaces
  <2>2. o \in Result BY <2>1, RawIsOriginal DEF Original
  <2>3. Journal(s.units, o) \in Result BY <2>2, JournalType DEF Originals
  <2>4. Journal(s.units, o).secret = FALSE BY <2>2, Masked DEF Originals
  <2> QED BY <2>1, <2>3, <2>4 DEF Result
<1> QED BY <1>1, AlwaysOriginal, PTL

(* A version without rewriting units gets the original result, whatever the *)
(* versions before it have made of it (OriginalsAreKept).                   *)
THEOREM OriginalsAreSafe == Spec => []OriginalsAreKept
<1>1. Originals => OriginalsAreKept
  <2> SUFFICES ASSUME Originals, NEW s \in surfaced,
                      Range(s.units) \cap Rewriting = {}
               PROVE  \E x \in bodies :
                        /\ x.call = s.call /\ x.branch \in session[s.branch].line
                        /\ s.result = [raw(x.as) EXCEPT
                                         !.replayed = s.result.replayed]
    BY DEF OriginalsAreKept
  <2>1. PICK t, o :
          /\ t \in BOOLEAN /\ Original(s.branch, s.call, o)
          /\ s.result = [Journal(s.units, o) EXCEPT !.replayed = t]
    BY DEF Originals, Surfaces
  <2>2. o \in Result BY <2>1, RawIsOriginal DEF Original
  <2>3. Journal(s.units, o) = o BY <2>2, Untouched DEF Originals
  <2>4. s.result = [o EXCEPT !.replayed = s.result.replayed]
    BY <2>1, <2>2, <2>3 DEF Result
  <2> QED BY <2>1, <2>4 DEF Original
<1> QED BY <1>1, AlwaysOriginal, PTL

----------------------------------------------------------------------------
(* Streams.  Of a stream the results say where the rows of a call stand,    *)
(* and what the stream remembers of the call.                               *)

Marks(s, kind, c) ==
  {i \in DOMAIN s.rows : s.rows[i].kind = kind /\ s.rows[i].call = c}

(* The runtime announces every call by an event, so no stream takes one for *)
(* replayed, or holds a result back.                                        *)
StreamOf(P, R, W, A, L) ==
  [pending_calls |-> P, projected_denials |-> R, announced_rewrites |-> W,
   replayed_calls |-> {}, deferred_results |-> {}, answered |-> A, rows |-> L]

IsStream(s) ==
  \E P, R, W, A, L, B : s = StreamOf(P, R, W, A, L) /\ L \in Seq(B)

(* Nothing of the call; its card; the verdict of a gate, shown at its hook; *)
(* the unit that rewrote, shown at its hook; a request to a person; an      *)
(* answer behind its card, and behind the one unit of us that acted.        *)
Blank(s, c) ==
  /\ \A kind \in {"call", "unit", "result"} : Marks(s, kind, c) = {}
  /\ c \notin s.pending_calls /\ c \notin s.answered
  /\ c \notin s.projected_denials /\ c \notin s.announced_rewrites

HasCard(s, c) == \E i \in DOMAIN s.rows : Marks(s, "call", c) = {i}
HasUnit(s, c, u) ==
  \E k \in DOMAIN s.rows : Marks(s, "unit", c) = {k} /\ s.rows[k].unit = u

Called(s, c) ==
  /\ HasCard(s, c) /\ Marks(s, "unit", c) = {} /\ Marks(s, "result", c) = {}
  /\ c \in s.pending_calls /\ c \notin s.answered
  /\ c \notin s.projected_denials /\ c \notin s.announced_rewrites

Denied(s, c, u) ==
  /\ HasCard(s, c) /\ HasUnit(s, c, u) /\ Marks(s, "result", c) = {}
  /\ c \in s.pending_calls /\ c \in s.projected_denials

Rewrote(s, c, u) ==
  /\ HasCard(s, c) /\ HasUnit(s, c, u) /\ Marks(s, "result", c) = {}
  /\ c \in s.pending_calls /\ c \in s.announced_rewrites

Asked(s, c) ==
  HasCard(s, c) /\ HasUnit(s, c, "approval") /\ Marks(s, "result", c) = {}

Shut(s, c, r, us) ==
  \E i, j \in DOMAIN s.rows :
    /\ Marks(s, "call", c) = {i} /\ Marks(s, "result", c) = {j} /\ i < j
    /\ s.rows[j].result = r
    /\ us # {} => \E k \in DOMAIN s.rows :
                    /\ Marks(s, "unit", c) = {k} /\ s.rows[k].unit \in us
                    /\ k < j

(* To call c a longer stream is the same. *)
Same(s, t, c) ==
  /\ \A i \in DOMAIN s.rows : i \in DOMAIN t.rows /\ t.rows[i] = s.rows[i]
  /\ \A kind \in {"call", "unit", "result"} : Marks(t, kind, c) = Marks(s, kind, c)
  /\ c \in t.pending_calls <=> c \in s.pending_calls
  /\ c \in t.answered <=> c \in s.answered
  /\ c \in t.projected_denials <=> c \in s.projected_denials
  /\ c \in t.announced_rewrites <=> c \in s.announced_rewrites

Others(s, t, c) == \A d : d # c => Same(s, t, d)

LEMMA SameStages ==
  ASSUME NEW s, NEW t, NEW c, Same(s, t, c)
  PROVE  /\ Blank(s, c) => Blank(t, c)
         /\ Called(s, c) => Called(t, c)
         /\ Asked(s, c) => Asked(t, c)
         /\ \A r, us : Shut(s, c, r, us) => Shut(t, c, r, us)
<1>1. Blank(s, c) => Blank(t, c) BY DEF Same, Blank
<1>2. Called(s, c) => Called(t, c) BY DEF Same, Called, HasCard
<1>3. Asked(s, c) => Asked(t, c) BY DEF Same, Asked, HasCard, HasUnit
<1>4. \A r, us : Shut(s, c, r, us) => Shut(t, c, r, us)
  <2> TAKE r, us
  <2> HAVE Shut(s, c, r, us)
  <2>1. PICK i \in DOMAIN s.rows, j \in DOMAIN s.rows :
          /\ Marks(s, "call", c) = {i} /\ Marks(s, "result", c) = {j} /\ i < j
          /\ s.rows[j].result = r
          /\ us # {} => \E k \in DOMAIN s.rows :
                          /\ Marks(s, "unit", c) = {k} /\ s.rows[k].unit \in us
                          /\ k < j
    BY DEF Shut
  <2>2. /\ i \in DOMAIN t.rows /\ j \in DOMAIN t.rows
        /\ Marks(t, "call", c) = {i} /\ Marks(t, "result", c) = {j}
        /\ t.rows[j].result = r
    BY <2>1 DEF Same
  <2>3. us # {} => \E k \in DOMAIN t.rows :
                     /\ Marks(t, "unit", c) = {k} /\ t.rows[k].unit \in us
                     /\ k < j
    BY <2>1 DEF Same
  <2> QED BY <2>1, <2>2, <2>3 DEF Shut
<1> QED BY <1>1, <1>2, <1>3, <1>4

LEMMA SameIsTransitive ==
  ASSUME NEW s, NEW t, NEW v, NEW c, Same(s, t, c), Same(t, v, c)
  PROVE  Same(s, v, c)
BY DEF Same

LEMMA OthersIsTransitive ==
  ASSUME NEW s, NEW t, NEW v, NEW c, Others(s, t, c), Others(t, v, c)
  PROVE  Others(s, v, c)
BY SameIsTransitive DEF Others

(* What rows a stream gets. *)
Added(n, N, kind, c) ==
  {n + j : j \in {i \in DOMAIN N : N[i].kind = kind /\ N[i].call = c}}

Longer(s, t, N) ==
  /\ Len(s.rows) \in Nat /\ DOMAIN s.rows = 1..Len(s.rows)
  /\ DOMAIN t.rows = 1..(Len(s.rows) + Len(N))
  /\ \A i \in DOMAIN s.rows : i \in DOMAIN t.rows /\ t.rows[i] = s.rows[i]
  /\ \A j \in 1..Len(N) : t.rows[Len(s.rows) + j] = N[j]
  /\ \A kind, c : Marks(t, kind, c) =
                    Marks(s, kind, c) \cup Added(Len(s.rows), N, kind, c)

LEMMA RowsAdded ==
  ASSUME NEW s, NEW t, NEW B, s.rows \in Seq(B), NEW N \in Seq(B),
         t.rows = s.rows \o N
  PROVE  Longer(s, t, N) /\ t.rows \in Seq(B)
<1> DEFINE n == Len(s.rows)
<1>1. n \in Nat /\ DOMAIN s.rows = 1..n /\ Len(N) \in Nat /\ DOMAIN N = 1..Len(N)
  OBVIOUS
<1>2. /\ DOMAIN t.rows = 1..(n + Len(N))
      /\ \A i \in 1..n : t.rows[i] = s.rows[i]
      /\ \A j \in 1..Len(N) : t.rows[n + j] = N[j]
      /\ t.rows \in Seq(B)
  OBVIOUS
<1>3. \A i \in 1..(n + Len(N)) : i \in 1..n \/ \E j \in 1..Len(N) : i = n + j
  <2> TAKE i \in 1..(n + Len(N))
  <2>1. CASE i > n
    <3>1. i - n \in 1..Len(N) /\ i = n + (i - n) BY <1>1, <2>1
    <3> QED BY <3>1
  <2> QED BY <1>1, <2>1
<1> HIDE DEF n
<1>4. ASSUME NEW kind, NEW c, NEW i \in Marks(t, kind, c)
      PROVE  i \in Marks(s, kind, c) \cup Added(n, N, kind, c)
  <2>1. i \in 1..(n + Len(N)) /\ t.rows[i].kind = kind /\ t.rows[i].call = c
    BY <1>2 DEF Marks
  <2>2. CASE i \in 1..n
    <3>1. i \in DOMAIN s.rows /\ s.rows[i] = t.rows[i] BY <1>1, <1>2, <2>2
    <3> QED BY <2>1, <3>1 DEF Marks
  <2>3. CASE \E j \in 1..Len(N) : i = n + j
    <3>1. PICK j \in 1..Len(N) : i = n + j BY <2>3
    <3>2. j \in DOMAIN N /\ N[j] = t.rows[i] BY <1>1, <1>2, <3>1
    <3> QED BY <2>1, <3>1, <3>2 DEF Added
  <2> QED BY <1>3, <2>1, <2>2, <2>3
<1>5. ASSUME NEW kind, NEW c, NEW i \in Marks(s, kind, c) \cup Added(n, N, kind, c)
      PROVE  i \in Marks(t, kind, c)
  BY <1>1, <1>2 DEF Marks, Added
<1>6. \A kind, c : Marks(t, kind, c) = Marks(s, kind, c) \cup Added(n, N, kind, c)
  BY <1>4, <1>5
<1>7. \A i \in DOMAIN s.rows : i \in DOMAIN t.rows /\ t.rows[i] = s.rows[i]
  BY <1>1, <1>2
<1> QED BY <1>1, <1>2, <1>6, <1>7 DEF n, Longer

(* A stream gets rows of call c, and remembers nothing new of other calls.  *)
Apart(S, T, c) == \A d : d # c => (d \in S <=> d \in T)

LEMMA Grown ==
  ASSUME NEW P, NEW R, NEW W, NEW A, NEW L, NEW B, L \in Seq(B),
         NEW P2, NEW R2, NEW W2, NEW A2, NEW c, NEW D, NEW N \in Seq(D),
         \A j \in DOMAIN N : N[j].call = c,
         Apart(P2, P, c), Apart(R2, R, c), Apart(W2, W, c), Apart(A2, A, c)
  PROVE  LET s == StreamOf(P, R, W, A, L)
             t == StreamOf(P2, R2, W2, A2, L \o N)
         IN  IsStream(t) /\ Others(s, t, c) /\ Longer(s, t, N)
<1> DEFINE s == StreamOf(P, R, W, A, L)
           t == StreamOf(P2, R2, W2, A2, L \o N)
           C == B \cup D
<1>1. /\ s.pending_calls = P /\ s.projected_denials = R
      /\ s.announced_rewrites = W /\ s.answered = A /\ s.rows = L
      /\ t.pending_calls = P2 /\ t.projected_denials = R2
      /\ t.announced_rewrites = W2 /\ t.answered = A2 /\ t.rows = L \o N
  BY DEF StreamOf
<1>2. L \in Seq(C) /\ N \in Seq(C) OBVIOUS
<1> HIDE DEF C
<1>3. t = StreamOf(P2, R2, W2, A2, L \o N) OBVIOUS
<1> HIDE DEF s, t
<1>4. Longer(s, t, N) /\ t.rows \in Seq(C) BY <1>1, <1>2, RowsAdded
<1>5. \A kind, d : d # c => Added(Len(s.rows), N, kind, d) = {} BY DEF Added
<1>6. ASSUME NEW kind, NEW d, d # c PROVE Marks(t, kind, d) = Marks(s, kind, d)
  <2>1. Marks(t, kind, d) = Marks(s, kind, d) \cup Added(Len(s.rows), N, kind, d)
    BY <1>4 DEF Longer
  <2>2. Added(Len(s.rows), N, kind, d) = {} BY <1>5, <1>6
  <2> QED BY <2>1, <2>2
<1>7. Others(s, t, c) BY <1>1, <1>4, <1>6 DEF Others, Same, Longer, Apart
<1>8. L \o N \in Seq(C) BY <1>1, <1>4
<1>9. IsStream(t) BY <1>3, <1>8, Zenon DEF IsStream
<1> QED BY <1>4, <1>7, <1>9 DEF s, t

(* What the emissions make of a stream. *)

LEMMA RowsShown ==
  ASSUME NEW P, NEW R, NEW W, NEW A, NEW L, NEW N
  PROVE  shown(StreamOf(P, R, W, A, L), N) = StreamOf(P, R, W, A, L \o N)
<1> DEFINE s == StreamOf(P, R, W, A, L)
<1>1. s.rows = L BY DEF StreamOf
<1>2. \A M : [s EXCEPT !.rows = M] = StreamOf(P, R, W, A, M) BY DEF StreamOf
<1>3. shown(s, N) = [s EXCEPT !.rows = s.rows \o N] BY DEF shown
<1> HIDE DEF s
<1>4. shown(s, N) = StreamOf(P, R, W, A, L \o N) BY <1>1, <1>2, <1>3, Zenon
<1> QED BY <1>4 DEF s

(* A row that is not about a call changes nothing for any call.             *)
LEMMA Unseen ==
  ASSUME NEW P, NEW R, NEW W, NEW A, NEW L, NEW B, L \in Seq(B), NEW w,
         w.kind \notin {"call", "unit", "result"}
  PROVE  LET s == StreamOf(P, R, W, A, L)
             t == StreamOf(P, R, W, A, L \o <<w>>)
         IN  IsStream(t) /\ \A d : Same(s, t, d)
<1> DEFINE s == StreamOf(P, R, W, A, L)
           t == StreamOf(P, R, W, A, L \o <<w>>)
<1>1. <<w>> \in Seq({w}) /\ DOMAIN <<w>> = {1} /\ <<w>>[1] = w
  OBVIOUS
<1>2. IsStream(t) /\ Others(s, t, w.call) /\ Longer(s, t, <<w>>)
  <2>1. \A j \in DOMAIN <<w>> : <<w>>[j].call = w.call BY <1>1
  <2>2. /\ Apart(P, P, w.call) /\ Apart(R, R, w.call)
        /\ Apart(W, W, w.call) /\ Apart(A, A, w.call)
    BY DEF Apart
  <2> QED BY <1>1, <2>1, <2>2, Grown
<1>3. /\ s.pending_calls = t.pending_calls
      /\ s.projected_denials = t.projected_denials
      /\ s.announced_rewrites = t.announced_rewrites /\ s.answered = t.answered
  BY DEF StreamOf
<1> HIDE DEF s, t
<1>4. ASSUME NEW d, NEW kind \in {"call", "unit", "result"}
      PROVE  Marks(t, kind, d) = Marks(s, kind, d)
  <2>1. Marks(t, kind, d) = Marks(s, kind, d) \cup Added(Len(s.rows), <<w>>, kind, d)
    BY <1>2 DEF Longer
  <2>2. Added(Len(s.rows), <<w>>, kind, d) = {} BY <1>1 DEF Added
  <2> QED BY <2>1, <2>2
<1>5. \A d : Same(s, t, d) BY <1>2, <1>3, <1>4 DEF Same, Longer
<1> QED BY <1>2, <1>5 DEF s, t

----------------------------------------------------------------------------
(* The stages a call goes through. *)

LEMMA Adds ==
  ASSUME NEW s, NEW t, NEW N, NEW c, Longer(s, t, N)
  PROVE  /\ Marks(t, "call", c) =
              Marks(s, "call", c) \cup Added(Len(s.rows), N, "call", c)
         /\ Marks(t, "unit", c) =
              Marks(s, "unit", c) \cup Added(Len(s.rows), N, "unit", c)
         /\ Marks(t, "result", c) =
              Marks(s, "result", c) \cup Added(Len(s.rows), N, "result", c)
         /\ HasCard(s, c) /\ Added(Len(s.rows), N, "call", c) = {} => HasCard(t, c)
         /\ \A u : HasUnit(s, c, u) /\ Added(Len(s.rows), N, "unit", c) = {}
                     => HasUnit(t, c, u)
<1>1. \A kind : Marks(t, kind, c) =
                  Marks(s, kind, c) \cup Added(Len(s.rows), N, kind, c)
  BY DEF Longer
<1>2. \A i \in DOMAIN s.rows : i \in DOMAIN t.rows /\ t.rows[i] = s.rows[i]
  BY DEF Longer
<1>3. ASSUME HasCard(s, c), Added(Len(s.rows), N, "call", c) = {}
      PROVE  HasCard(t, c)
  <2>1. PICK i \in DOMAIN s.rows : Marks(s, "call", c) = {i} BY <1>3 DEF HasCard
  <2>2. Marks(t, "call", c) = {i} BY <1>1, <1>3, <2>1
  <2> QED BY <1>2, <2>2 DEF HasCard
<1>4. ASSUME NEW u, HasUnit(s, c, u), Added(Len(s.rows), N, "unit", c) = {}
      PROVE  HasUnit(t, c, u)
  <2>1. PICK i \in DOMAIN s.rows : Marks(s, "unit", c) = {i} /\ s.rows[i].unit = u
    BY <1>4 DEF HasUnit
  <2>2. Marks(t, "unit", c) = {i} BY <1>1, <1>4, <2>1
  <2> QED BY <1>2, <2>1, <2>2 DEF HasUnit
<1> QED BY <1>1, <1>3, <1>4

(* A row of an answer comes last. *)
LEMMA Answers ==
  ASSUME NEW s, NEW t, NEW B, NEW N \in Seq(B), N # <<>>, NEW c, NEW r, NEW us,
         Longer(s, t, N), HasCard(s, c), Marks(s, "result", c) = {},
         Added(Len(s.rows), N, "call", c) = {},
         Added(Len(s.rows), N, "result", c) = {Len(s.rows) + Len(N)},
         N[Len(N)].result = r,
         \/ us = {}
         \/ /\ Added(Len(s.rows), N, "unit", c) = {}
            /\ \E u \in us : HasUnit(s, c, u)
  PROVE  Shut(t, c, r, us)
<1> DEFINE n == Len(s.rows)
           j == n + Len(N)
<1>1. \A kind : Marks(t, kind, c) = Marks(s, kind, c) \cup Added(n, N, kind, c)
  BY DEF Longer
<1>2. n \in Nat /\ DOMAIN s.rows = 1..n /\ Len(N) \in Nat \ {0}
  BY DEF Longer
<1>3. j \in DOMAIN t.rows /\ t.rows[j].result = r
  BY <1>2 DEF Longer
<1>4. PICK i \in DOMAIN s.rows : Marks(s, "call", c) = {i} BY DEF HasCard
<1>5. i \in DOMAIN t.rows /\ Marks(t, "call", c) = {i}
  BY <1>1, <1>4 DEF Longer
<1>6. Marks(t, "result", c) = {j} /\ i < j BY <1>1, <1>2, <1>4
<1>7. ASSUME us # {}
      PROVE  \E k \in DOMAIN t.rows :
               Marks(t, "unit", c) = {k} /\ t.rows[k].unit \in us /\ k < j
  <2>1. PICK k \in DOMAIN s.rows : Marks(s, "unit", c) = {k} /\ s.rows[k].unit \in us
    BY <1>7 DEF HasUnit
  <2>2. Marks(t, "unit", c) = {k} BY <1>1, <1>7, <2>1
  <2>3. k \in DOMAIN t.rows /\ t.rows[k] = s.rows[k] BY DEF Longer
  <2>4. k < j BY <1>2
  <2> QED BY <2>1, <2>2, <2>3, <2>4
<1> HIDE DEF j
<1> QED BY <1>3, <1>5, <1>6, <1>7 DEF Shut

(* The call is announced by an event. *)
LEMMA CallIsShown ==
  ASSUME NEW s, NEW c, IsStream(s), Blank(s, c)
  PROVE  LET t == project(s, emission("event", "tool_call", c, FALSE, NoResult))
         IN  IsStream(t) /\ Others(s, t, c) /\ Called(t, c)
<1> DEFINE e == emission("event", "tool_call", c, FALSE, NoResult)
           t == project(s, e)
           w == row("call", c, "none", NoResult)
           n == Len(s.rows)
<1>1. PICK P, R, W, A, L, B : s = StreamOf(P, R, W, A, L) /\ L \in Seq(B)
  BY DEF IsStream
<1> DEFINE z == StreamOf(P, R, W, A, L)
<1>2. project(z, e) = StreamOf(P \cup {c}, R, W, A, L \o <<w>>)
  <2>1. e.to = "event" /\ e.type = "tool_call" /\ e.call = c BY DEF emission
  <2>2. [z EXCEPT !.pending_calls = @ \cup {c}] = StreamOf(P \cup {c}, R, W, A, L)
    BY DEF StreamOf
  <2>3. shown(StreamOf(P \cup {c}, R, W, A, L), <<w>>) =
          StreamOf(P \cup {c}, R, W, A, L \o <<w>>)
    BY RowsShown
  <2> QED BY <2>1, <2>2, <2>3 DEF project, on_event
<1>3. w.kind = "call" /\ w.call = c BY DEF row
<1>4. <<w>> \in Seq({w}) /\ DOMAIN <<w>> = {1} /\ <<w>>[1] = w /\ Len(<<w>>) = 1
  OBVIOUS
<1> HIDE DEF e, w
<1>5. t = StreamOf(P \cup {c}, R, W, A, L \o <<w>>) BY <1>1, <1>2, Zenon
<1> HIDE DEF t
<1>6. IsStream(t) /\ Others(s, t, c) /\ Longer(s, t, <<w>>)
  <2>1. \A j \in DOMAIN <<w>> : <<w>>[j].call = c BY <1>3, <1>4
  <2> DEFINE P2 == P \cup {c}
  <2>2. Apart(P2, P, c) /\ Apart(R, R, c) /\ Apart(W, W, c) /\ Apart(A, A, c)
    BY DEF Apart
  <2>3. t = StreamOf(P2, R, W, A, L \o <<w>>) BY <1>5
  <2> HIDE DEF P2
  <2> QED BY <1>1, <1>4, <2>1, <2>2, <2>3, Grown
<1>7. /\ Added(n, <<w>>, "call", c) = {n + 1} /\ Added(n, <<w>>, "unit", c) = {}
      /\ Added(n, <<w>>, "result", c) = {}
  BY <1>3, <1>4 DEF Added
<1>8. HasCard(t, c) /\ Marks(t, "unit", c) = {} /\ Marks(t, "result", c) = {}
  <2>1. n + 1 \in DOMAIN t.rows BY <1>4, <1>6 DEF Longer
  <2>2. /\ Marks(t, "call", c) = Marks(s, "call", c) \cup Added(n, <<w>>, "call", c)
        /\ Marks(t, "unit", c) = Marks(s, "unit", c) \cup Added(n, <<w>>, "unit", c)
        /\ Marks(t, "result", c) = Marks(s, "result", c)
                                   \cup Added(n, <<w>>, "result", c)
    BY <1>6 DEF Longer
  <2> QED BY <1>7, <2>1, <2>2 DEF Blank, HasCard
<1>9. /\ t.pending_calls = s.pending_calls \cup {c}
      /\ t.projected_denials = s.projected_denials
      /\ t.announced_rewrites = s.announced_rewrites /\ t.answered = s.answered
  BY <1>1, <1>5 DEF StreamOf
<1>10. IsStream(t) /\ Others(s, t, c) /\ Called(t, c)
  BY <1>6, <1>8, <1>9 DEF Called, Blank
<1> QED BY <1>10 DEF t, e

(* A hook that tells of nothing. *)
LEMMA HookIsShown ==
  ASSUME NEW s, NEW c, IsStream(s),
         NEW type \in {"pre_tool_use", "on_resume", "context_injected", "on_suspend"},
         type = "pre_tool_use" => c \in s.pending_calls
  PROVE  LET t == project(s, hook(type, c))
         IN  IsStream(t) /\ \A d : Same(s, t, d)
<1> DEFINE e == hook(type, c)
           w == row("hook", c, type, NoResult)
<1>1. PICK P, R, W, A, L, B : s = StreamOf(P, R, W, A, L) /\ L \in Seq(B)
  BY DEF IsStream
<1> DEFINE z == StreamOf(P, R, W, A, L)
<1>2. project(z, e) = StreamOf(P, R, W, A, L \o <<w>>)
  <2>1. type = "pre_tool_use" => c \in P BY <1>1 DEF StreamOf
  <2>2. e.to = "hook" /\ e.type = type /\ e.call = c BY DEF hook, emission
  <2>3. z.pending_calls = P /\ z.deferred_results = {} BY DEF StreamOf
  <2>4. announce(z, e) = z BY <2>1, <2>2, <2>3 DEF announce
  <2>5. denial(z, e) = z BY <2>2 DEF denial
  <2>6. released(z, e) = z
    <3>1. {v \in z.deferred_results : v.call = e.call} = {} BY <2>3
    <3>2. [z EXCEPT !.deferred_results = @ \ {}] = z BY DEF StreamOf
    <3> QED BY <3>1, <3>2 DEF released
  <2>7. shown(z, <<w>>) = StreamOf(P, R, W, A, L \o <<w>>) BY RowsShown
  <2> QED BY <2>2, <2>4, <2>5, <2>6, <2>7 DEF project, publish, boundary
<1>3. w.kind \notin {"call", "unit", "result"} BY DEF row
<1> HIDE DEF e, w
<1>4. project(s, e) = StreamOf(P, R, W, A, L \o <<w>>) BY <1>1, <1>2, Zenon
<1> QED BY <1>1, <1>3, <1>4, Unseen DEF e

(* A verdict is told at its hook. *)
LEMMA DenialIsShown ==
  ASSUME NEW s, NEW c, NEW r, IsStream(s), Called(s, c)
  PROVE  LET t == project(s, emission("hook", "permission_denied", c, FALSE, r))
         IN  IsStream(t) /\ Others(s, t, c) /\ Denied(t, c, r.redacted_by)
<1> DEFINE e == emission("hook", "permission_denied", c, FALSE, r)
           w == row("hook", c, "permission_denied", NoResult)
           x == unitRow(e)
           n == Len(s.rows)
<1>1. PICK P, R, W, A, L, B : s = StreamOf(P, R, W, A, L) /\ L \in Seq(B)
  BY DEF IsStream
<1> DEFINE z == StreamOf(P, R, W, A, L)
           v == StreamOf(P, R \cup {c}, W, A, L \o <<x>>)
<1>2. c \notin R /\ c \in P BY <1>1 DEF Called, StreamOf
<1>3. project(z, e) = StreamOf(P, R \cup {c}, W, A, (L \o <<x>>) \o <<w>>)
  <2>1. e.to = "hook" /\ e.type = "permission_denied" /\ e.call = c /\ e.result = r
    BY DEF emission
  <2>2. announce(z, e) = z BY <1>2, <2>1 DEF announce, StreamOf
  <2>3. denial(z, e) = v
    <3>1. [z EXCEPT !.projected_denials = @ \cup {c}]
            = StreamOf(P, R \cup {c}, W, A, L)
      BY DEF StreamOf
    <3>2. c \notin z.projected_denials BY <1>2 DEF StreamOf
    <3>3. shown(StreamOf(P, R \cup {c}, W, A, L), <<x>>) = v BY RowsShown
    <3> QED BY <3>1, <3>2, <3>3, <2>1 DEF denial
  <2>4. released(v, e) = v BY <2>1 DEF released
  <2>5. shown(v, <<w>>) = StreamOf(P, R \cup {c}, W, A, (L \o <<x>>) \o <<w>>)
    BY RowsShown
  <2> QED BY <2>1, <2>2, <2>3, <2>4, <2>5 DEF project, publish, boundary
<1>4. /\ w.kind \notin {"call", "unit", "result"}
      /\ x.kind = "unit" /\ x.call = c /\ x.unit = r.redacted_by
  BY DEF row, unitRow, emission
<1> DEFINE t == project(s, e)
<1> HIDE DEF e, w, x
<1>5. t = StreamOf(P, R \cup {c}, W, A, (L \o <<x>>) \o <<w>>)
  BY <1>1, <1>3, Zenon
<1>6. v = StreamOf(P, R \cup {c}, W, A, L \o <<x>>) OBVIOUS
<1> HIDE DEF v, t
<1>7. <<x>> \in Seq({x}) /\ DOMAIN <<x>> = {1} /\ <<x>>[1] = x /\ Len(<<x>>) = 1
  OBVIOUS
<1>8. IsStream(v) /\ Others(s, v, c) /\ Longer(s, v, <<x>>)
  <2>1. \A j \in DOMAIN <<x>> : <<x>>[j].call = c BY <1>4, <1>7
  <2> DEFINE R2 == R \cup {c}
  <2>2. Apart(P, P, c) /\ Apart(R2, R, c) /\ Apart(W, W, c) /\ Apart(A, A, c)
    BY DEF Apart
  <2>3. v = StreamOf(P, R2, W, A, L \o <<x>>) BY <1>6
  <2> HIDE DEF R2
  <2> QED BY <1>1, <1>7, <2>1, <2>2, <2>3, Grown
<1>9. /\ Added(n, <<x>>, "call", c) = {} /\ Added(n, <<x>>, "unit", c) = {n + 1}
      /\ Added(n, <<x>>, "result", c) = {}
  BY <1>4, <1>7 DEF Added
<1>10. HasCard(v, c) /\ HasUnit(v, c, r.redacted_by) /\ Marks(v, "result", c) = {}
  <2>1. n + 1 \in DOMAIN v.rows /\ v.rows[n + 1] = x
    BY <1>7, <1>8 DEF Longer
  <2>2. /\ Marks(v, "call", c) = Marks(s, "call", c) \cup Added(n, <<x>>, "call", c)
         /\ Marks(v, "unit", c) = Marks(s, "unit", c) \cup Added(n, <<x>>, "unit", c)
         /\ Marks(v, "result", c) = Marks(s, "result", c)
                                    \cup Added(n, <<x>>, "result", c)
    BY <1>8 DEF Longer
  <2>3. Marks(v, "unit", c) = {n + 1} /\ Marks(v, "result", c) = {}
    BY <1>9, <2>2 DEF Called
  <2>4. HasUnit(v, c, r.redacted_by) BY <1>4, <2>1, <2>3 DEF HasUnit
  <2>5. HasCard(v, c) BY <1>8, <1>9, Adds DEF Called
  <2> QED BY <2>3, <2>4, <2>5
<1>11. c \in v.pending_calls /\ c \in v.projected_denials
  BY <1>2, <1>6 DEF StreamOf
<1>12. IsStream(t) /\ \A d : Same(v, t, d)
  <2>1. PICK D : L \o <<x>> \in Seq(D)
    <3>1. PICK p, q, f, a, l, D :
            v = StreamOf(p, q, f, a, l) /\ l \in Seq(D)
      BY <1>8 DEF IsStream
    <3>2. l = L \o <<x>> BY <1>6, <3>1 DEF StreamOf
    <3> QED BY <3>1, <3>2, Zenon
  <2> QED BY <1>4, <1>5, <1>6, <2>1, Unseen
<1>13. Denied(t, c, r.redacted_by)
  BY <1>10, <1>11, <1>12 DEF Denied, Same, HasCard, HasUnit
<1>14. Others(s, t, c) BY <1>8, <1>12, SameIsTransitive DEF Others
<1> QED BY <1>12, <1>13, <1>14 DEF t, e

(* What a unit has rewritten is told at the hook. *)
LEMMA RewriteIsShown ==
  ASSUME NEW s, NEW c, NEW r, IsStream(s), Called(s, c)
  PROVE  LET t == project(s, emission("hook", "post_tool_use", c, TRUE, r))
         IN  /\ IsStream(t) /\ Others(s, t, c)
             /\ IF r.redacted_by = "none" THEN Called(t, c)
                ELSE Rewrote(t, c, r.redacted_by)
<1> DEFINE e == emission("hook", "post_tool_use", c, TRUE, r)
           w == row("hook", c, "post_tool_use", NoResult)
           x == unitRow(e)
           n == Len(s.rows)
<1>1. PICK P, R, W, A, L, B : s = StreamOf(P, R, W, A, L) /\ L \in Seq(B)
  BY DEF IsStream
<1> DEFINE z == StreamOf(P, R, W, A, L)
           M == L \o <<w>>
           v == StreamOf(P, R, W, A, M)
<1>2. c \in P BY <1>1 DEF Called, StreamOf
<1>3. project(z, e) = IF r.redacted_by = "none" THEN v
                      ELSE StreamOf(P, R, W \cup {c}, A, M \o <<x>>)
  <2>1. e.to = "hook" /\ e.type = "post_tool_use" /\ e.call = c /\ e.result = r
    BY DEF emission
  <2>2. z.pending_calls = P /\ v.replayed_calls = {} BY DEF StreamOf
  <2>3. announce(z, e) = z BY <1>2, <2>1, <2>2 DEF announce
  <2>4. denial(z, e) = z BY <2>1 DEF denial
  <2>5. released(z, e) = z BY <2>1 DEF released
  <2>6. shown(z, <<w>>) = v BY RowsShown
  <2>7. project(z, e) = boundary(v, e)
    BY <2>1, <2>3, <2>4, <2>5, <2>6 DEF project, publish
  <2>8. [v EXCEPT !.deferred_results = @ \cup {}, !.replayed_calls = @ \ {c},
                  !.pending_calls = @] = v
    <3> HIDE DEF M
    <3>1. [v EXCEPT !.deferred_results = v.deferred_results \cup {},
                    !.replayed_calls = v.replayed_calls \ {c},
                    !.pending_calls = v.pending_calls] =
            [[[v EXCEPT !.deferred_results = v.deferred_results \cup {}] EXCEPT
                !.replayed_calls = v.replayed_calls \ {c}] EXCEPT
                !.pending_calls = v.pending_calls]
      BY Zenon
    <3>2. /\ v.deferred_results \cup {} = v.deferred_results
          /\ v.replayed_calls \ {c} = v.replayed_calls
      BY DEF StreamOf
    <3>3. /\ [v EXCEPT !.deferred_results = v.deferred_results] = v
          /\ [v EXCEPT !.replayed_calls = v.replayed_calls] = v
          /\ [v EXCEPT !.pending_calls = v.pending_calls] = v
      BY DEF StreamOf
    <3> HIDE DEF v
    <3> QED BY <3>1, <3>2, <3>3, Zenon
  <2>9. boundary(v, e) =
          IF r.redacted_by = "none" THEN v
          ELSE shown([v EXCEPT !.announced_rewrites = @ \cup {c}], <<x>>)
    <3> DEFINE held == IF e.call \in v.replayed_calls
                       THEN {row("result", e.call, "none", e.result)} ELSE {}
               t == [v EXCEPT !.deferred_results = @ \cup held,
                              !.replayed_calls = @ \ {e.call},
                              !.pending_calls = IF held = {} THEN @ ELSE @ \ {e.call}]
    <3>1. held = {} BY <2>2
    <3> HIDE DEF v, e
    <3>2. boundary(v, e) =
            IF r.redacted_by = "none" THEN t
            ELSE shown([t EXCEPT !.announced_rewrites = @ \cup {c}], <<x>>)
      BY <2>1 DEF boundary
    <3> HIDE DEF held, x
    <3>3. t = [v EXCEPT !.deferred_results = @ \cup {}, !.replayed_calls = @ \ {c},
                        !.pending_calls = @]
      BY <2>1, <3>1
    <3> HIDE DEF t
    <3> QED BY <2>8, <3>2, <3>3, Zenon
  <2>10. [v EXCEPT !.announced_rewrites = @ \cup {c}]
            = StreamOf(P, R, W \cup {c}, A, M)
    <3> HIDE DEF M
    <3> QED BY DEF StreamOf
  <2>11. shown(StreamOf(P, R, W \cup {c}, A, M), <<x>>) =
           StreamOf(P, R, W \cup {c}, A, M \o <<x>>)
    BY RowsShown
  <2> QED BY <2>7, <2>9, <2>10, <2>11
<1>4. /\ w.kind \notin {"call", "unit", "result"}
      /\ x.kind = "unit" /\ x.call = c /\ x.unit = r.redacted_by
  BY DEF row, unitRow, emission
<1> DEFINE t == project(s, e)
<1> HIDE DEF e, w, x
<1>5. t = IF r.redacted_by = "none" THEN v
          ELSE StreamOf(P, R, W \cup {c}, A, M \o <<x>>)
  BY <1>1, <1>3, Zenon
<1>6. v = StreamOf(P, R, W, A, M) OBVIOUS
<1>7. IsStream(v) /\ \A d : Same(s, v, d) BY <1>1, <1>4, Unseen
<1> HIDE DEF v, t, M
<1>8. Called(v, c) /\ Others(s, v, c) BY <1>7, SameStages DEF Others
<1>9. CASE r.redacted_by = "none"
  <2>1. t = v BY <1>5, <1>9
  <2> QED BY <1>7, <1>8, <1>9, <2>1 DEF t, e
<1>10. CASE r.redacted_by # "none"
  <2>1. t = StreamOf(P, R, W \cup {c}, A, M \o <<x>>) BY <1>5, <1>10
  <2>2. <<x>> \in Seq({x}) /\ DOMAIN <<x>> = {1} /\ <<x>>[1] = x /\ Len(<<x>>) = 1
    OBVIOUS
  <2>3. PICK D : M \in Seq(D)
    <3>1. PICK p, q, f, a, l, D : v = StreamOf(p, q, f, a, l) /\ l \in Seq(D)
      BY <1>7 DEF IsStream
    <3>2. l = M BY <1>6, <3>1 DEF StreamOf
    <3> QED BY <3>1, <3>2, Zenon
  <2>4. IsStream(t) /\ Others(v, t, c) /\ Longer(v, t, <<x>>)
    <3>1. \A j \in DOMAIN <<x>> : <<x>>[j].call = c BY <1>4, <2>2
    <3> DEFINE W2 == W \cup {c}
    <3>2. Apart(P, P, c) /\ Apart(R, R, c) /\ Apart(W2, W, c) /\ Apart(A, A, c)
      BY DEF Apart
    <3>3. t = StreamOf(P, R, W2, A, M \o <<x>>) BY <2>1
    <3> HIDE DEF W2
    <3> QED BY <1>6, <2>2, <2>3, <3>1, <3>2, <3>3, Grown
  <2> DEFINE k == Len(v.rows)
  <2>5. /\ Added(k, <<x>>, "call", c) = {} /\ Added(k, <<x>>, "unit", c) = {k + 1}
        /\ Added(k, <<x>>, "result", c) = {}
    BY <1>4, <2>2 DEF Added
  <2>6. HasCard(t, c) /\ HasUnit(t, c, r.redacted_by) /\ Marks(t, "result", c) = {}
    <3>1. k + 1 \in DOMAIN t.rows /\ t.rows[k + 1] = x
      BY <2>2, <2>4 DEF Longer
    <3>2. /\ Marks(t, "call", c) = Marks(v, "call", c) \cup Added(k, <<x>>, "call", c)
           /\ Marks(t, "unit", c) = Marks(v, "unit", c)
                                    \cup Added(k, <<x>>, "unit", c)
           /\ Marks(t, "result", c) = Marks(v, "result", c)
                                      \cup Added(k, <<x>>, "result", c)
      BY <2>4 DEF Longer
    <3>3. Marks(t, "unit", c) = {k + 1} /\ Marks(t, "result", c) = {}
      BY <1>8, <2>5, <3>2 DEF Called
    <3>4. HasUnit(t, c, r.redacted_by) BY <1>4, <3>1, <3>3 DEF HasUnit
    <3>5. HasCard(t, c) BY <1>8, <2>4, <2>5, Adds DEF Called
    <3> QED BY <3>3, <3>4, <3>5
  <2>7. c \in t.pending_calls /\ c \in t.announced_rewrites
    BY <1>2, <2>1 DEF StreamOf
  <2>8. Rewrote(t, c, r.redacted_by) BY <2>6, <2>7 DEF Rewrote
  <2>9. Others(s, t, c) BY <1>8, <2>4, OthersIsTransitive
  <2> QED BY <1>10, <2>4, <2>8, <2>9 DEF t, e
<1> QED BY <1>9, <1>10

(* A person is asked. *)
LEMMA RequestIsShown ==
  ASSUME NEW s, NEW c, NEW r, IsStream(s), Called(s, c),
         r.text = "asked", r.redacted_by = "approval"
  PROVE  LET t == project(s, emission("event", "tool_result", c, FALSE, r))
         IN  IsStream(t) /\ Others(s, t, c) /\ Asked(t, c)
<1> DEFINE e == emission("event", "tool_result", c, FALSE, r)
           x == unitRow(e)
           n == Len(s.rows)
<1>1. PICK P, R, W, A, L, B : s = StreamOf(P, R, W, A, L) /\ L \in Seq(B)
  BY DEF IsStream
<1> DEFINE z == StreamOf(P, R, W, A, L)
           v == StreamOf(P \ {c}, R, W, A \cup {c}, L)
<1>2. [z EXCEPT !.pending_calls = @ \ {c}, !.answered = @ \cup {c}] = v
  <2>1. [z EXCEPT !.pending_calls = z.pending_calls \ {c},
                  !.answered = z.answered \cup {c}] =
          [[z EXCEPT !.pending_calls = z.pending_calls \ {c}] EXCEPT
             !.answered = z.answered \cup {c}]
    BY Zenon
  <2>2. [z EXCEPT !.pending_calls = z.pending_calls \ {c}] =
          StreamOf(P \ {c}, R, W, A, L)
    BY DEF StreamOf
  <2>3. [StreamOf(P \ {c}, R, W, A, L) EXCEPT !.answered = z.answered \cup {c}] = v
    BY DEF StreamOf
  <2> QED BY <2>1, <2>2, <2>3
<1>3. project(z, e) = StreamOf(P \ {c}, R, W, A \cup {c}, L \o <<x>>)
  <2>1. /\ e.to = "event" /\ e.type = "tool_result" /\ e.call = c /\ e.result = r
        /\ ~e.executed
    BY DEF emission
  <2>2. shown(v, <<x>>) = StreamOf(P \ {c}, R, W, A \cup {c}, L \o <<x>>)
    BY RowsShown
  <2> QED BY <1>2, <2>1, <2>2 DEF project, on_event
<1>4. x.kind = "unit" /\ x.call = c /\ x.unit = "approval"
  BY DEF row, unitRow, emission
<1> DEFINE t == project(s, e)
<1> HIDE DEF e, x
<1>5. t = StreamOf(P \ {c}, R, W, A \cup {c}, L \o <<x>>) BY <1>1, <1>3, Zenon
<1> HIDE DEF t
<1>6. <<x>> \in Seq({x}) /\ DOMAIN <<x>> = {1} /\ <<x>>[1] = x /\ Len(<<x>>) = 1
  OBVIOUS
<1>7. IsStream(t) /\ Others(s, t, c) /\ Longer(s, t, <<x>>)
  <2>1. \A j \in DOMAIN <<x>> : <<x>>[j].call = c BY <1>4, <1>6
  <2> DEFINE P2 == P \ {c}
             A2 == A \cup {c}
  <2>2. Apart(P2, P, c) /\ Apart(R, R, c) /\ Apart(W, W, c) /\ Apart(A2, A, c)
    BY DEF Apart
  <2>3. t = StreamOf(P2, R, W, A2, L \o <<x>>) BY <1>5
  <2> HIDE DEF P2, A2
  <2> QED BY <1>1, <1>6, <2>1, <2>2, <2>3, Grown
<1>8. /\ Added(n, <<x>>, "call", c) = {} /\ Added(n, <<x>>, "unit", c) = {n + 1}
      /\ Added(n, <<x>>, "result", c) = {}
  BY <1>4, <1>6 DEF Added
<1>9. Asked(t, c)
  <2>1. n + 1 \in DOMAIN t.rows /\ t.rows[n + 1] = x BY <1>6, <1>7 DEF Longer
  <2>2. /\ Marks(t, "unit", c) = Marks(s, "unit", c) \cup Added(n, <<x>>, "unit", c)
        /\ Marks(t, "result", c) = Marks(s, "result", c)
                                   \cup Added(n, <<x>>, "result", c)
    BY <1>7 DEF Longer
  <2>3. Marks(t, "unit", c) = {n + 1} /\ Marks(t, "result", c) = {}
    BY <1>8, <2>2 DEF Called
  <2>4. HasUnit(t, c, "approval") BY <1>4, <2>1, <2>3 DEF HasUnit
  <2>5. HasCard(t, c) BY <1>7, <1>8, Adds DEF Called
  <2> QED BY <2>3, <2>4, <2>5 DEF Asked
<1> QED BY <1>7, <1>9 DEF t, e

(* A refusal arrives, the verdict shown at its hook or not. *)
LEMMA RefusalIsShown ==
  ASSUME NEW s, NEW c, NEW r, NEW us, IsStream(s), r.text # "asked",
         HasCard(s, c), Marks(s, "result", c) = {},
         \/ us = {}
         \/ c \in s.projected_denials /\ \E u \in us : HasUnit(s, c, u)
  PROVE  LET t == project(s, emission("event", "tool_result", c, FALSE, r))
         IN  IsStream(t) /\ Others(s, t, c) /\ Shut(t, c, r, us)
<1> DEFINE e == emission("event", "tool_result", c, FALSE, r)
           w == unitRow(e)
           y == row("blocked", c, "none", NoResult)
           x == row("result", c, "none", r)
           n == Len(s.rows)
<1>1. PICK P, R, W, A, L, B : s = StreamOf(P, R, W, A, L) /\ L \in Seq(B)
  BY DEF IsStream
<1> DEFINE z == StreamOf(P, R, W, A, L)
           v == StreamOf(P \ {c}, R, W, A \cup {c}, L)
<1>2. [z EXCEPT !.pending_calls = @ \ {c}, !.answered = @ \cup {c}] = v
  <2>1. [z EXCEPT !.pending_calls = z.pending_calls \ {c},
                  !.answered = z.answered \cup {c}] =
          [[z EXCEPT !.pending_calls = z.pending_calls \ {c}] EXCEPT
             !.answered = z.answered \cup {c}]
    BY Zenon
  <2>2. [z EXCEPT !.pending_calls = z.pending_calls \ {c}] =
          StreamOf(P \ {c}, R, W, A, L)
    BY DEF StreamOf
  <2>3. [StreamOf(P \ {c}, R, W, A, L) EXCEPT !.answered = z.answered \cup {c}] = v
    BY DEF StreamOf
  <2> QED BY <2>1, <2>2, <2>3
<1> DEFINE N == (IF c \in R THEN <<>> ELSE <<w>>) \o <<y, x>>
<1>3. project(z, e) = StreamOf(P \ {c}, R \ {c}, W, A \cup {c}, L \o N)
  <2>1. /\ e.to = "event" /\ e.type = "tool_result" /\ e.call = c /\ e.result = r
        /\ ~e.executed
    BY DEF emission
  <2>2. [v EXCEPT !.projected_denials = @ \ {c}] =
          StreamOf(P \ {c}, R \ {c}, W, A \cup {c}, L)
    BY DEF StreamOf
  <2>3. refusal(z, e) = N
    <3>1. z.projected_denials = R BY DEF StreamOf
    <3> QED BY <2>1, <3>1 DEF refusal
  <2>4. shown(StreamOf(P \ {c}, R \ {c}, W, A \cup {c}, L), N) =
          StreamOf(P \ {c}, R \ {c}, W, A \cup {c}, L \o N)
    BY RowsShown
  <2>5. project(z, e) = shown([v EXCEPT !.projected_denials = @ \ {c}], refusal(z, e))
    BY <1>2, <2>1 DEF project, on_event
  <2> QED BY <2>2, <2>3, <2>4, <2>5, Zenon
<1>4. /\ w.kind = "unit" /\ w.call = c
      /\ y.kind = "blocked" /\ y.call = c
      /\ x.kind = "result" /\ x.call = c /\ x.result = r
  BY DEF row, unitRow, emission
<1> DEFINE t == project(s, e)
<1> HIDE DEF e, w, x, y
<1>5. N = IF c \in R THEN <<y, x>> ELSE <<w>> \o <<y, x>>
  BY <<>> \o <<y, x>> = <<y, x>>, Zenon
<1> HIDE DEF N
<1>6. t = StreamOf(P \ {c}, R \ {c}, W, A \cup {c}, L \o N) BY <1>1, <1>3, Zenon
<1> HIDE DEF t
<1>7. s.projected_denials = R BY <1>1 DEF StreamOf
<1>8. /\ N \in Seq({w, x, y}) /\ N # <<>> /\ N[Len(N)] = x
      /\ \A j \in DOMAIN N : N[j].call = c
      /\ Added(n, N, "call", c) = {} /\ Added(n, N, "result", c) = {n + Len(N)}
      /\ c \in R => Added(n, N, "unit", c) = {}
  <2>1. CASE c \in R
    <3>1. N = <<y, x>> BY <1>5, <2>1
    <3>2. DOMAIN N = {1, 2} /\ N[1] = y /\ N[2] = x /\ Len(N) = 2 BY <3>1
    <3>3. N \in Seq({w, x, y}) /\ N # <<>> BY <3>1
    <3> QED BY <1>4, <3>2, <3>3 DEF Added
  <2>2. CASE c \notin R
    <3>1. N = <<w>> \o <<y, x>> BY <1>5, <2>2
    <3>2. /\ DOMAIN N = {1, 2, 3} /\ N[1] = w /\ N[2] = y /\ N[3] = x
          /\ Len(N) = 3
      BY <3>1
    <3>3. N \in Seq({w, x, y}) /\ N # <<>> BY <3>1
    <3> QED BY <1>4, <2>2, <3>2, <3>3 DEF Added
  <2> QED BY <2>1, <2>2
<1>9. IsStream(t) /\ Others(s, t, c) /\ Longer(s, t, N)
  <2> DEFINE P2 == P \ {c}
             A2 == A \cup {c}
             R2 == R \ {c}
  <2>1. Apart(P2, P, c) /\ Apart(R2, R, c) /\ Apart(W, W, c) /\ Apart(A2, A, c)
    BY DEF Apart
  <2>2. t = StreamOf(P2, R2, W, A2, L \o N) BY <1>6
  <2> HIDE DEF P2, A2, R2
  <2> QED BY <1>1, <1>8, <2>1, <2>2, Grown
<1>10. Shut(t, c, r, us) BY <1>4, <1>7, <1>8, <1>9, Answers
<1> QED BY <1>9, <1>10 DEF t, e

(* A result arrives, what its units did shown at their hook or not. *)
LEMMA ResultIsShown ==
  ASSUME NEW s, NEW c, NEW r, NEW us, IsStream(s),
         HasCard(s, c), Marks(s, "result", c) = {},
         \/ us = {}
         \/ c \in s.announced_rewrites /\ \E u \in us : HasUnit(s, c, u)
  PROVE  LET t == project(s, emission("event", "tool_result", c, TRUE, r))
         IN  IsStream(t) /\ Others(s, t, c) /\ Shut(t, c, r, us)
<1> DEFINE e == emission("event", "tool_result", c, TRUE, r)
           w == unitRow(e)
           x == row("result", c, "none", r)
           n == Len(s.rows)
<1>1. PICK P, R, W, A, L, B : s = StreamOf(P, R, W, A, L) /\ L \in Seq(B)
  BY DEF IsStream
<1> DEFINE z == StreamOf(P, R, W, A, L)
           v == StreamOf(P \ {c}, R, W, A \cup {c}, L)
<1>2. [z EXCEPT !.pending_calls = @ \ {c}, !.answered = @ \cup {c}] = v
  <2>1. [z EXCEPT !.pending_calls = z.pending_calls \ {c},
                  !.answered = z.answered \cup {c}] =
          [[z EXCEPT !.pending_calls = z.pending_calls \ {c}] EXCEPT
             !.answered = z.answered \cup {c}]
    BY Zenon
  <2>2. [z EXCEPT !.pending_calls = z.pending_calls \ {c}] =
          StreamOf(P \ {c}, R, W, A, L)
    BY DEF StreamOf
  <2>3. [StreamOf(P \ {c}, R, W, A, L) EXCEPT !.answered = z.answered \cup {c}] = v
    BY DEF StreamOf
  <2> QED BY <2>1, <2>2, <2>3
<1> DEFINE untold == r.redacted_by = "none" \/ r.text = "refused" \/ c \in W
           N == (IF untold THEN <<>> ELSE <<w>>) \o <<x>>
<1>3. project(z, e) = StreamOf(P \ {c}, R, W \ {c}, A \cup {c}, L \o N)
  <2>1. /\ e.to = "event" /\ e.type = "tool_result" /\ e.call = c /\ e.result = r
        /\ e.executed
    BY DEF emission
  <2>2. [v EXCEPT !.announced_rewrites = @ \ {c}] =
          StreamOf(P \ {c}, R, W \ {c}, A \cup {c}, L)
    BY DEF StreamOf
  <2>3. z.announced_rewrites = W BY DEF StreamOf
  <2>4. shown(StreamOf(P \ {c}, R, W \ {c}, A \cup {c}, L), N) =
          StreamOf(P \ {c}, R, W \ {c}, A \cup {c}, L \o N)
    BY RowsShown
  <2>5. project(z, e) = shown([v EXCEPT !.announced_rewrites = @ \ {c}], N)
    BY <1>2, <2>1, <2>3 DEF project, on_event
  <2> QED BY <2>2, <2>4, <2>5, Zenon
<1>4. /\ w.kind = "unit" /\ w.call = c
      /\ x.kind = "result" /\ x.call = c /\ x.result = r
  BY DEF row, unitRow, emission
<1> DEFINE t == project(s, e)
<1> HIDE DEF e, w, x
<1>5. N = IF untold THEN <<x>> ELSE <<w>> \o <<x>>
  BY <<>> \o <<x>> = <<x>>, Zenon
<1> HIDE DEF N
<1>6. t = StreamOf(P \ {c}, R, W \ {c}, A \cup {c}, L \o N) BY <1>1, <1>3, Zenon
<1> HIDE DEF t
<1>7. s.announced_rewrites = W BY <1>1 DEF StreamOf
<1>8. /\ N \in Seq({w, x}) /\ N # <<>> /\ N[Len(N)] = x
      /\ \A j \in DOMAIN N : N[j].call = c
      /\ Added(n, N, "call", c) = {} /\ Added(n, N, "result", c) = {n + Len(N)}
      /\ c \in W => Added(n, N, "unit", c) = {}
  <2>1. CASE untold
    <3>1. N = <<x>> BY <1>5, <2>1
    <3>2. DOMAIN N = {1} /\ N[1] = x /\ Len(N) = 1 BY <3>1
    <3>3. N \in Seq({w, x}) /\ N # <<>> BY <3>1
    <3> QED BY <1>4, <3>2, <3>3 DEF Added
  <2>2. CASE ~untold
    <3>1. N = <<w>> \o <<x>> BY <1>5, <2>2
    <3>2. DOMAIN N = {1, 2} /\ N[1] = w /\ N[2] = x /\ Len(N) = 2 BY <3>1
    <3>3. N \in Seq({w, x}) /\ N # <<>> BY <3>1
    <3> QED BY <1>4, <2>2, <3>2, <3>3 DEF Added
  <2> QED BY <2>1, <2>2
<1>9. IsStream(t) /\ Others(s, t, c) /\ Longer(s, t, N)
  <2> DEFINE P2 == P \ {c}
             A2 == A \cup {c}
             W2 == W \ {c}
  <2>1. Apart(P2, P, c) /\ Apart(W2, W, c) /\ Apart(R, R, c) /\ Apart(A2, A, c)
    BY DEF Apart
  <2>2. t = StreamOf(P2, R, W2, A2, L \o N) BY <1>6
  <2> HIDE DEF P2, A2, W2
  <2> QED BY <1>1, <1>8, <2>1, <2>2, Grown
<1>10. Shut(t, c, r, us) BY <1>4, <1>7, <1>8, <1>9, Answers
<1> QED BY <1>9, <1>10 DEF t, e

----------------------------------------------------------------------------
(* A list of emissions is projected one after the other. *)

Projection(g, n, s, es) ==
  g = [S \in SUBSET (1..n) |->
         IF S = {} THEN s ELSE project(g[S \ {Max(S)}], es[Max(S)])]

LEMMA ProjectionExists ==
  ASSUME NEW n \in Nat, NEW s, NEW es
  PROVE  \E g : Projection(g, n, s, es)
<1> DEFINE P(k) == \E g : Projection(g, k, s, es)
<1>1. P(0)
  <2> DEFINE g == [S \in SUBSET (1..0) |-> s]
  <2>1. SUBSET (1..0) = {{}} OBVIOUS
  <2>2. g = [S \in SUBSET (1..0) |->
               IF S = {} THEN s ELSE project(g[S \ {Max(S)}], es[Max(S)])]
    BY <2>1
  <2> QED BY <2>2, Zenon DEF Projection
<1>2. ASSUME NEW k \in 1..n, P(k - 1) PROVE P(k)
  <2>1. PICK g : Projection(g, k - 1, s, es) BY <1>2
  <2> DEFINE f == [S \in SUBSET (1..k) |->
                     IF k \in S THEN project(g[S \ {k}], es[k]) ELSE g[S]]
  <2>2. \A S \in SUBSET (1..k) : /\ S \ {k} \in SUBSET (1..(k - 1))
                                 /\ k \notin S => S \in SUBSET (1..(k - 1))
    OBVIOUS
  <2>3. ASSUME NEW S \in SUBSET (1..k)
        PROVE  f[S] = IF S = {} THEN s ELSE project(f[S \ {Max(S)}], es[Max(S)])
    <3>1. CASE k \in S
      <4>1. Max(S) = k BY <3>1, LargestIs
      <4>2. f[S \ {k}] = g[S \ {k}] BY <2>2
      <4> QED BY <3>1, <4>1, <4>2
    <3>2. CASE k \notin S
      <4>1. S \in SUBSET (1..(k - 1)) BY <2>2, <3>2
      <4>2. g[S] = IF S = {} THEN s ELSE project(g[S \ {Max(S)}], es[Max(S)])
        BY <2>1, <4>1 DEF Projection
      <4>3. f[S] = g[S] BY <3>2
      <4>4. f[S \ {Max(S)}] = g[S \ {Max(S)}] BY <3>2
      <4> QED BY <4>2, <4>3, <4>4
    <3> QED BY <3>1, <3>2
  <2>4. f = [S \in SUBSET (1..k) |->
               IF S = {} THEN s ELSE project(f[S \ {Max(S)}], es[Max(S)])]
    <3> DEFINE h == [S \in SUBSET (1..k) |->
                       IF S = {} THEN s ELSE project(f[S \ {Max(S)}], es[Max(S)])]
    <3>1. \A S \in SUBSET (1..k) : f[S] = h[S] BY <2>3
    <3>2. f = [S \in SUBSET (1..k) |-> f[S]] OBVIOUS
    <3>3. h = [S \in SUBSET (1..k) |-> h[S]] OBVIOUS
    <3> HIDE DEF f, h
    <3>4. f = h BY <3>1, <3>2, <3>3
    <3> QED BY <3>4, Zenon DEF h
  <2> QED BY <2>4, Zenon DEF Projection
<1> HIDE DEF P
<1>3. {k \in 0..n : P(k)} = 0..n
  <2>1. 0 \in {k \in 0..n : P(k)} BY <1>1
  <2>2. \A i \in 1..n : i - 1 \in {k \in 0..n : P(k)} => i \in {k \in 0..n : P(k)}
    BY <1>2
  <2> QED BY <2>1, <2>2, Inducts
<1>4. P(n) BY <1>3
<1> QED BY <1>4 DEF P

Runs(g, s, es) ==
  /\ g[0] = s
  /\ \A i \in 1..Len(es) : g[i] = project(g[i - 1], es[i])
  /\ g[Len(es)] = projected(s, es)

LEMMA ProjectionRuns ==
  ASSUME NEW s, NEW E, NEW es \in Seq(E)
  PROVE  \E g : Runs(g, s, es)
<1> DEFINE n == Len(es)
           J(g) == g = [S \in SUBSET (1..n) |->
                          IF S = {} THEN s ELSE project(g[S \ {Max(S)}], es[Max(S)])]
           it == CHOOSE g : J(g)
           f == [i \in 0..n |-> it[1..i]]
<1>1. n \in Nat /\ DOMAIN es = 1..n OBVIOUS
<1>2. \E g : J(g)
  <2>1. PICK g : Projection(g, n, s, es)
    <3> HIDE DEF n
    <3> QED BY <1>1, ProjectionExists
  <2> QED BY <2>1, Zenon DEF Projection
<1>3. J(it) BY <1>2, Zenon
<1>4. projected(s, es) = it[1..n]
  BY <1>1, Zenon DEF projected, FoldLeft, MapThenFoldSet
<1> HIDE DEF it
<1>5. f[0] = s
  <2>1. 1..0 = {} OBVIOUS
  <2>2. it[{}] = s BY <1>3
  <2> QED BY <1>1, <2>1, <2>2
<1>6. ASSUME NEW i \in 1..n PROVE f[i] = project(f[i - 1], es[i])
  <2>1. Max(1..i) = i BY LargestIs
  <2>2. (1..i) \ {i} = 1..(i - 1) /\ 1..i # {} /\ (1..i) \in SUBSET (1..n)
    <3> HIDE DEF n
    <3> QED BY <1>1
  <2>3. it[1..i] = project(it[(1..i) \ {Max(1..i)}], es[Max(1..i)]) BY <1>3, <2>2
  <2>4. f[i] = it[1..i] /\ f[i - 1] = it[1..(i - 1)] BY <1>1
  <2> QED BY <2>1, <2>2, <2>3, <2>4
<1>7. f[n] = projected(s, es) BY <1>1, <1>4
<1> HIDE DEF f
<1> QED BY <1>5, <1>6, <1>7 DEF Runs

----------------------------------------------------------------------------
(* What the actions of a call emit. *)
CallEvent(c) == emission("event", "tool_call", c, FALSE, NoResult)
ResultEvent(c, executed, r) == emission("event", "tool_result", c, executed, r)
DenialHook(c, r) == emission("hook", "permission_denied", c, FALSE, r)
ResultHook(c, r) == emission("hook", "post_tool_use", c, TRUE, r)

Shows(s, t, c) == IsStream(t) /\ Others(s, t, c)

LEMMA ShowsIsTransitive ==
  ASSUME NEW s, NEW t, NEW v, NEW c, Shows(s, t, c), Shows(t, v, c)
  PROVE  Shows(s, v, c)
BY OthersIsTransitive DEF Shows

LEMMA ShowsNothing == ASSUME NEW s, NEW c, IsStream(s) PROVE Shows(s, s, c)
<1>1. PICK P, R, W, A, L, B : s = StreamOf(P, R, W, A, L) /\ L \in Seq(B)
  BY DEF IsStream
<1> QED BY DEF Shows, Others, Same

LEMMA HookKeeps ==
  ASSUME NEW s, NEW c, IsStream(s),
         NEW type \in {"pre_tool_use", "on_resume", "context_injected", "on_suspend"},
         type = "pre_tool_use" => c \in s.pending_calls,
         NEW t, t = project(s, hook(type, c))
  PROVE  /\ Shows(s, t, c)
         /\ Called(s, c) => Called(t, c)
         /\ Asked(s, c) => Asked(t, c)
         /\ \A r, us : Shut(s, c, r, us) => Shut(t, c, r, us)
<1>1. IsStream(t) /\ \A d : Same(s, t, d) BY HookIsShown
<1>2. Same(s, t, c) BY <1>1
<1> QED BY <1>1, <1>2, SameStages DEF Shows, Others

(* The announcement and the hooks of a gate. *)
Opening(es, c, m) ==
  /\ m \in {2, 3} /\ m <= Len(es)
  /\ es[1] = CallEvent(c) /\ es[m] = hook("pre_tool_use", c)
  /\ m = 3 => es[2] = hook("on_resume", c)

LEMMA GateIsOpened ==
  ASSUME NEW s, NEW c, IsStream(s), Blank(s, c), NEW E, NEW es \in Seq(E),
         NEW g, Runs(g, s, es), NEW m, Opening(es, c, m)
  PROVE  Shows(s, g[m], c) /\ Called(g[m], c)
<1>1. Len(es) \in Nat /\ m \in Nat BY DEF Opening
<1>2. Shows(s, g[1], c) /\ Called(g[1], c)
  <2>1. g[0] = s /\ g[1] = project(g[0], es[1]) /\ es[1] = CallEvent(c)
    BY <1>1 DEF Runs, Opening
  <2> QED BY <2>1, CallIsShown DEF CallEvent, Shows
<1>3. CASE m = 2
  <2>1. g[2] = project(g[1], hook("pre_tool_use", c))
    BY <1>1, <1>3 DEF Runs, Opening
  <2>2. IsStream(g[1]) /\ c \in g[1].pending_calls BY <1>2 DEF Shows, Called
  <2>3. Shows(g[1], g[2], c) /\ Called(g[2], c) BY <1>2, <2>1, <2>2, HookKeeps
  <2> QED BY <1>2, <1>3, <2>3, ShowsIsTransitive
<1>4. CASE m = 3
  <2>1. /\ g[2] = project(g[1], hook("on_resume", c))
        /\ g[3] = project(g[2], hook("pre_tool_use", c))
    BY <1>1, <1>4 DEF Runs, Opening
  <2>2. IsStream(g[1]) BY <1>2 DEF Shows
  <2>3. Shows(g[1], g[2], c) /\ Called(g[2], c) BY <1>2, <2>1, <2>2, HookKeeps
  <2>4. IsStream(g[2]) /\ c \in g[2].pending_calls BY <2>3 DEF Shows, Called
  <2>5. Shows(g[2], g[3], c) /\ Called(g[3], c) BY <2>1, <2>3, <2>4, HookKeeps
  <2> QED BY <1>2, <1>4, <2>3, <2>5, ShowsIsTransitive
<1> QED BY <1>3, <1>4 DEF Opening

(* A gate that lets the call pass; that asks a person; that refuses.        *)
Asks(es, c, m, r) ==
  /\ Len(es) = m + 1 /\ es[m + 1] = ResultEvent(c, FALSE, r)
  /\ r.text = "asked" /\ r.redacted_by = "approval"
Refuses(es, c, m, r) ==
  /\ Len(es) = m + 3 /\ es[m + 1] = DenialHook(c, r)
  /\ es[m + 2] = ResultEvent(c, FALSE, r)
  /\ es[m + 3] = hook("context_injected", c)
  /\ r.text # "asked"
Refused(t, c, r) == Shut(t, c, r, {r.redacted_by})

LEMMA GateIsShown ==
  ASSUME NEW s, NEW c, IsStream(s), Blank(s, c), NEW E, NEW es \in Seq(E),
         NEW r, NEW m, Opening(es, c, m), NEW t, t = projected(s, es)
  PROVE  /\ Len(es) = m => Shows(s, t, c) /\ Called(t, c)
         /\ Asks(es, c, m, r) => Shows(s, t, c) /\ Asked(t, c)
         /\ Refuses(es, c, m, r) => Shows(s, t, c) /\ Refused(t, c, r)
<1>1. PICK g : Runs(g, s, es) BY ProjectionRuns
<1>2. t = g[Len(es)] BY <1>1 DEF Runs
<1>3. Shows(s, g[m], c) /\ Called(g[m], c) /\ IsStream(g[m])
  BY <1>1, GateIsOpened DEF Shows
<1>4. m \in Nat /\ m >= 2 BY DEF Opening
<1>5. ASSUME Asks(es, c, m, r) PROVE Shows(s, t, c) /\ Asked(t, c)
  <2>1. /\ Len(es) = m + 1 /\ es[m + 1] = ResultEvent(c, FALSE, r)
        /\ r.text = "asked" /\ r.redacted_by = "approval"
    BY <1>5 DEF Asks
  <2>2. g[m + 1] = project(g[m], ResultEvent(c, FALSE, r))
    <3>1. m + 1 \in 1..Len(es) /\ (m + 1) - 1 = m BY <1>4, <2>1
    <3>2. g[m + 1] = project(g[(m + 1) - 1], es[m + 1]) BY <1>1, <3>1 DEF Runs
    <3> QED BY <2>1, <3>1, <3>2
  <2>3. Shows(g[m], g[m + 1], c) /\ Asked(g[m + 1], c)
    BY <1>3, <2>1, <2>2, RequestIsShown DEF Shows, ResultEvent
  <2> QED BY <1>2, <1>3, <2>1, <2>3, ShowsIsTransitive
<1>6. ASSUME Refuses(es, c, m, r) PROVE Shows(s, t, c) /\ Refused(t, c, r)
  <2>1. /\ Len(es) = m + 3 /\ es[m + 1] = DenialHook(c, r)
        /\ es[m + 2] = ResultEvent(c, FALSE, r)
        /\ es[m + 3] = hook("context_injected", c) /\ r.text # "asked"
    BY <1>6 DEF Refuses
  <2>2. /\ g[m + 1] = project(g[m], DenialHook(c, r))
        /\ g[m + 2] = project(g[m + 1], ResultEvent(c, FALSE, r))
        /\ g[m + 3] = project(g[m + 2], hook("context_injected", c))
    <3>1. /\ m + 1 \in 1..Len(es) /\ (m + 1) - 1 = m
          /\ m + 2 \in 1..Len(es) /\ (m + 2) - 1 = m + 1
          /\ m + 3 \in 1..Len(es) /\ (m + 3) - 1 = m + 2
      BY <1>4, <2>1
    <3>2. /\ g[m + 1] = project(g[(m + 1) - 1], es[m + 1])
          /\ g[m + 2] = project(g[(m + 2) - 1], es[m + 2])
          /\ g[m + 3] = project(g[(m + 3) - 1], es[m + 3])
      BY <1>1, <3>1 DEF Runs
    <3> QED BY <2>1, <3>1, <3>2
  <2>3. Shows(g[m], g[m + 1], c) /\ Denied(g[m + 1], c, r.redacted_by)
    BY <1>3, <2>2, DenialIsShown DEF Shows, DenialHook
  <2>4. Shows(g[m + 1], g[m + 2], c) /\ Shut(g[m + 2], c, r, {r.redacted_by})
    <3> DEFINE v == g[m + 1]
               us == {r.redacted_by}
    <3>1. IsStream(v) BY <2>3 DEF Shows
    <3>2. /\ HasCard(v, c) /\ Marks(v, "result", c) = {}
          /\ c \in v.projected_denials /\ \E u \in us : HasUnit(v, c, u)
      BY <2>3 DEF Denied
    <3>3. g[m + 2] = project(v, emission("event", "tool_result", c, FALSE, r))
      BY <2>2 DEF ResultEvent
    <3> HIDE DEF v, us
    <3>4. IsStream(g[m + 2]) /\ Others(v, g[m + 2], c) /\ Shut(g[m + 2], c, r, us)
      BY <2>1, <3>1, <3>2, <3>3, RefusalIsShown
    <3> QED BY <3>4 DEF Shows, v, us
  <2>5. Shows(g[m + 2], g[m + 3], c) /\ Shut(g[m + 3], c, r, {r.redacted_by})
    <3>1. IsStream(g[m + 2]) BY <2>4 DEF Shows
    <3> QED BY <2>2, <2>4, <3>1, HookKeeps
  <2>6. Shows(s, g[m + 3], c) BY <1>3, <2>3, <2>4, <2>5, ShowsIsTransitive
  <2> QED BY <1>2, <2>1, <2>5, <2>6 DEF Refused
<1>7. Len(es) = m => Shows(s, t, c) /\ Called(t, c) BY <1>2, <1>3
<1> QED BY <1>5, <1>6, <1>7

(* An answer: the announcement if need be, the hook of a result, the event, *)
(* and its way into the context.                                            *)
Replies(es, c, m, r) ==
  /\ Len(es) = m + 3
  /\ m = 1 => es[1] = CallEvent(c)
  /\ es[m + 1] = ResultHook(c, r) /\ es[m + 2] = ResultEvent(c, TRUE, r)
  /\ es[m + 3] = hook("context_injected", c)
Rewriter(r) == IF r.redacted_by = "none" THEN {} ELSE {r.redacted_by}
Answered(t, c, r) == Shut(t, c, r, Rewriter(r))

LEMMA AnswerIsShown ==
  ASSUME NEW s, NEW c, IsStream(s), NEW E, NEW es \in Seq(E), NEW r,
         NEW m \in {0, 1}, Replies(es, c, m, r),
         m = 0 => Called(s, c), m = 1 => Blank(s, c),
         NEW t, t = projected(s, es)
  PROVE  Shows(s, t, c) /\ Answered(t, c, r)
<1>1. /\ Len(es) = m + 3
      /\ m = 1 => es[1] = CallEvent(c)
      /\ es[m + 1] = ResultHook(c, r) /\ es[m + 2] = ResultEvent(c, TRUE, r)
      /\ es[m + 3] = hook("context_injected", c)
  BY DEF Replies
<1> DEFINE us == IF r.redacted_by = "none" THEN {} ELSE {r.redacted_by}
<1>2. PICK g : Runs(g, s, es) BY ProjectionRuns
<1>3. t = g[m + 3] /\ g[0] = s BY <1>1, <1>2 DEF Runs
<1>4. /\ m = 1 => g[1] = project(g[0], CallEvent(c))
      /\ g[m + 1] = project(g[m], ResultHook(c, r))
      /\ g[m + 2] = project(g[m + 1], ResultEvent(c, TRUE, r))
      /\ g[m + 3] = project(g[m + 2], hook("context_injected", c))
  <2>1. /\ m + 1 \in 1..Len(es) /\ (m + 1) - 1 = m
        /\ m + 2 \in 1..Len(es) /\ (m + 2) - 1 = m + 1
        /\ m + 3 \in 1..Len(es) /\ (m + 3) - 1 = m + 2
        /\ 1 \in 1..Len(es)
    BY <1>1
  <2>2. /\ g[m + 1] = project(g[(m + 1) - 1], es[m + 1])
        /\ g[m + 2] = project(g[(m + 2) - 1], es[m + 2])
        /\ g[m + 3] = project(g[(m + 3) - 1], es[m + 3])
        /\ g[1] = project(g[1 - 1], es[1])
    BY <1>2, <2>1 DEF Runs
  <2>3. 1 - 1 = 0 OBVIOUS
  <2> QED BY <1>1, <2>1, <2>2, <2>3
<1>5. Shows(s, g[m], c) /\ Called(g[m], c)
  <2>1. CASE m = 0 BY <1>3, <2>1, ShowsNothing
  <2>2. CASE m = 1
    <3>1. g[1] = project(s, CallEvent(c)) BY <1>3, <1>4, <2>2
    <3>2. Blank(s, c) BY <2>2
    <3>3. Shows(s, g[1], c) /\ Called(g[1], c)
      BY <3>1, <3>2, CallIsShown DEF CallEvent, Shows
    <3> QED BY <2>2, <3>3
  <2> QED BY <2>1, <2>2
<1>6. /\ Shows(g[m], g[m + 1], c)
      /\ IF r.redacted_by = "none" THEN Called(g[m + 1], c)
         ELSE Rewrote(g[m + 1], c, r.redacted_by)
  BY <1>4, <1>5, RewriteIsShown DEF Shows, ResultHook
<1>7. Shows(g[m + 1], g[m + 2], c) /\ Shut(g[m + 2], c, r, us)
  <2>1. IsStream(g[m + 1]) BY <1>6 DEF Shows
  <2>2. HasCard(g[m + 1], c) /\ Marks(g[m + 1], "result", c) = {}
    BY <1>6 DEF Called, Rewrote
  <2>3. \/ us = {}
        \/ c \in g[m + 1].announced_rewrites /\ \E u \in us : HasUnit(g[m + 1], c, u)
    BY <1>6 DEF Rewrote
  <2> HIDE DEF us
  <2> QED BY <1>4, <2>1, <2>2, <2>3, ResultIsShown DEF Shows, ResultEvent
<1>8. Shows(g[m + 2], g[m + 3], c) /\ Shut(g[m + 3], c, r, us)
  <2>1. IsStream(g[m + 2]) BY <1>7 DEF Shows
  <2> QED BY <1>4, <1>7, <2>1, HookKeeps
<1>9. Shows(s, g[m + 3], c) BY <1>5, <1>6, <1>7, <1>8, ShowsIsTransitive
<1> QED BY <1>3, <1>8, <1>9 DEF Answered, Rewriter

(* The answer of a call that had no hook. *)
Reports(es, c, executed, r) ==
  /\ Len(es) = 3 /\ es[1] = CallEvent(c)
  /\ es[2] = ResultEvent(c, executed, r) /\ es[3] = hook("context_injected", c)
Plain(t, c, r) == Shut(t, c, r, {})

LEMMA MissingIsShown ==
  ASSUME NEW s, NEW c, IsStream(s), Blank(s, c), NEW E, NEW es \in Seq(E),
         NEW r, NEW executed \in BOOLEAN, r.text # "asked",
         Reports(es, c, executed, r), NEW t, t = projected(s, es)
  PROVE  Shows(s, t, c) /\ Plain(t, c, r)
<1>1. /\ Len(es) = 3 /\ es[1] = CallEvent(c)
      /\ es[2] = ResultEvent(c, executed, r) /\ es[3] = hook("context_injected", c)
  BY DEF Reports
<1>2. PICK g : Runs(g, s, es) BY ProjectionRuns
<1>3. t = g[3] /\ g[0] = s BY <1>1, <1>2 DEF Runs
<1>4. /\ g[1] = project(g[0], CallEvent(c))
      /\ g[2] = project(g[1], ResultEvent(c, executed, r))
      /\ g[3] = project(g[2], hook("context_injected", c))
  BY <1>1, <1>2 DEF Runs
<1>5. Shows(s, g[1], c) /\ Called(g[1], c)
  BY <1>3, <1>4, CallIsShown DEF CallEvent, Shows
<1>6. Shows(g[1], g[2], c) /\ Shut(g[2], c, r, {})
  <2>1. /\ IsStream(g[1]) /\ HasCard(g[1], c) /\ Marks(g[1], "result", c) = {}
    BY <1>5 DEF Called, Shows
  <2>2. CASE executed = TRUE
    <3>1. g[2] = project(g[1], ResultEvent(c, TRUE, r)) BY <1>4, <2>2
    <3> QED BY <2>1, <3>1, ResultIsShown DEF Shows, ResultEvent
  <2>3. CASE executed = FALSE
    <3>1. g[2] = project(g[1], ResultEvent(c, FALSE, r)) BY <1>4, <2>3
    <3> QED BY <2>1, <3>1, RefusalIsShown DEF Shows, ResultEvent
  <2> QED BY <2>2, <2>3
<1>7. Shows(g[2], g[3], c) /\ Shut(g[3], c, r, {})
  <2>1. IsStream(g[2]) BY <1>6 DEF Shows
  <2> QED BY <1>4, <1>6, <2>1, HookKeeps
<1>8. Shows(s, g[3], c) BY <1>5, <1>6, <1>7, ShowsIsTransitive
<1> QED BY <1>3, <1>7, <1>8 DEF Plain

(* The hooks of a suspension change nothing for any call. *)
LEMMA SuspensionIsShown ==
  ASSUME NEW s, IsStream(s), NEW C, NEW q \in Seq(C), NEW E, NEW es \in Seq(E),
         Len(es) = Len(q),
         \A i \in 1..Len(q) : es[i] = hook("on_suspend", q[i])
  PROVE  LET t == projected(s, es)
         IN  IsStream(t) /\ \A d : Same(s, t, d)
<1> DEFINE t == projected(s, es)
           n == Len(es)
<1>1. PICK g : Runs(g, s, es) BY ProjectionRuns
<1>2. t = g[n] /\ g[0] = s BY <1>1 DEF Runs
<1> HIDE DEF t
<1> DEFINE A == {i \in 0..n : IsStream(g[i]) /\ \A d : Same(s, g[i], d)}
<1>3. n \in Nat OBVIOUS
<1>4. 0 \in A
  <2>1. \A d : Same(s, s, d) BY ShowsNothing DEF Same
  <2> QED BY <1>2, <1>3, <2>1
<1>5. ASSUME NEW i \in 1..n, i - 1 \in A PROVE i \in A
  <2>1. g[i] = project(g[i - 1], hook("on_suspend", q[i])) BY <1>1 DEF Runs
  <2>2. IsStream(g[i - 1]) /\ \A d : Same(s, g[i - 1], d) BY <1>5
  <2>3. IsStream(g[i]) /\ \A d : Same(g[i - 1], g[i], d)
    BY <2>1, <2>2, HookIsShown
  <2>4. \A d : Same(s, g[i], d) BY <2>2, <2>3, SameIsTransitive
  <2> QED BY <1>3, <2>3, <2>4
<1>6. A \in SUBSET (0..n) OBVIOUS
<1> HIDE DEF A, n
<1>7. A = 0..n BY <1>3, <1>4, <1>5, <1>6, Inducts
<1>8. n \in A BY <1>3, <1>7
<1> QED BY <1>2, <1>8 DEF A, t

----------------------------------------------------------------------------
(* The result that is journaled names a unit that changed it. *)
LEMMA RewriterIsNamed ==
  ASSUME NEW u \in Seq(STRING), NEW r \in Result, Changing(u, r) # {}
  PROVE  /\ Journal(u, r).redacted_by \in Changing(u, r)
         /\ Journal(u, r).redacted_by # "none"
<1> DEFINE n == Len(u)
<1>1. PICK g \in [0..n -> Result] :
        /\ g[0] = r
        /\ \A i \in 1..n : g[i] = Rewrite(u[i], g[i - 1])
        /\ Journal(u, r) = g[n]
  BY JournalRuns
<1>2. n \in Nat /\ DOMAIN u = 1..n /\ \A i \in 1..n : u[i] \in STRING
  OBVIOUS
<1>3. ASSUME NEW i \in 0..n PROVE Journal(SubSeq(u, 1, i), r) = g[i]
  <2> DEFINE v == SubSeq(u, 1, i)
  <2>1. v \in Seq(STRING) /\ Len(v) = i /\ \A k \in 1..i : v[k] = u[k]
    BY <1>2
  <2> HIDE DEF v
  <2>2. PICK h \in [0..i -> Result] :
          /\ h[0] = r
          /\ \A k \in 1..i : h[k] = Rewrite(v[k], h[k - 1])
          /\ Journal(v, r) = h[i]
    BY <2>1, JournalRuns
  <2> DEFINE A == {k \in 0..i : h[k] = g[k]}
  <2>3. 0 \in A BY <1>1, <2>2
  <2>4. ASSUME NEW k \in 1..i, k - 1 \in A PROVE k \in A
    <3>1. k \in 1..n /\ h[k - 1] = g[k - 1] BY <1>2, <2>4
    <3>2. h[k] = Rewrite(u[k], h[k - 1]) BY <2>1, <2>2
    <3>3. g[k] = Rewrite(u[k], g[k - 1]) BY <1>1, <3>1
    <3>4. h[k] = g[k] BY <3>1, <3>2, <3>3
    <3> QED BY <3>4
  <2>5. A \in SUBSET (0..i) OBVIOUS
  <2> HIDE DEF A
  <2>6. A = 0..i BY <2>3, <2>4, <2>5, Inducts
  <2>7. i \in A BY <2>6
  <2> QED BY <2>2, <2>7 DEF A, v
<1>4. Changing(u, r) = {u[i] : i \in {j \in 1..n : g[j] # g[j - 1]}}
  <2>1. ASSUME NEW j \in 1..n
        PROVE  Rewrite(u[j], Journal(SubSeq(u, 1, j - 1), r))
                 # Journal(SubSeq(u, 1, j - 1), r) <=> g[j] # g[j - 1]
    <3>1. j - 1 \in 0..n BY <1>2
    <3>2. Journal(SubSeq(u, 1, j - 1), r) = g[j - 1] BY <1>3, <3>1
    <3> QED BY <1>1, <3>2
  <2> QED BY <1>2, <2>1 DEF Changing
<1>5. ASSUME NEW i \in 1..n, g[i] # g[i - 1]
      PROVE  g[i].redacted_by = u[i] /\ u[i] # "none"
  <2>1. g[i] = Rewrite(u[i], g[i - 1]) /\ g[i - 1] \in Result BY <1>1, <1>2
  <2>2. \A x \in Result : \A unit : Rewrite(unit, x) # x =>
          Rewrite(unit, x).redacted_by = unit /\ unit # "none"
    BY DEF Rewrite, pii_mask, context_firewall, injection_guard, result_drop,
           rewritten, Result
  <2> QED BY <1>5, <2>1, <2>2
<1> DEFINE B == {i \in 0..n : \/ \A j \in 1..i : g[j] = g[j - 1]
                              \/ \E j \in 1..i : /\ g[j] # g[j - 1]
                                                 /\ g[i].redacted_by = u[j]}
<1>6. 0 \in B BY <1>2
<1>7. ASSUME NEW i \in 1..n, i - 1 \in B PROVE i \in B
  <2>1. CASE g[i] # g[i - 1] BY <1>2, <1>5, <2>1
  <2>2. CASE g[i] = g[i - 1]
    <3>1. CASE \A j \in 1..(i - 1) : g[j] = g[j - 1]
      <4>1. \A j \in 1..i : j = i \/ j \in 1..(i - 1) BY <1>2
      <4> QED BY <1>2, <2>2, <3>1, <4>1
    <3>2. CASE \E j \in 1..(i - 1) : g[j] # g[j - 1] /\ g[i - 1].redacted_by = u[j]
      <4>1. \A j \in 1..(i - 1) : j \in 1..i BY <1>2
      <4> QED BY <1>2, <2>2, <3>2, <4>1
    <3> QED BY <1>7, <3>1, <3>2
  <2> QED BY <2>1, <2>2
<1>8. B \in SUBSET (0..n) OBVIOUS
<1> HIDE DEF B
<1>9. B = 0..n BY <1>2, <1>6, <1>7, <1>8, Inducts
<1>10. n \in B BY <1>2, <1>9
<1>11. \E j \in 1..n : g[j] # g[j - 1] BY <1>4
<1>12. PICK j \in 1..n : g[j] # g[j - 1] /\ g[n].redacted_by = u[j]
  BY <1>10, <1>11 DEF B
<1> QED BY <1>1, <1>4, <1>5, <1>12

----------------------------------------------------------------------------
(* The invariant: what a stream has shown of a call agrees with where the   *)
(* call stands, with what its ObservedControls remember, and with the       *)
(* record of its body.                                                      *)

Acts(o, c) == {x[2] : x \in {y \in o.acted : y[1] = c}}

(* The replay mark of an answer. *)
IsTrue(a, c, r) ==
  /\ r.replayed => c \notin a.ran
  /\ a.kind # "resume" /\ r.text # "refused" => (c \in a.ran <=> ~r.replayed)

Told(s, o, a, c) ==
  /\ c \notin o.announced => /\ c \notin o.answered /\ Blank(s, c)
                             /\ a.at[c] \in {"todo", "ran", "answered"}
  /\ c \in o.announced /\ c \notin o.answered =>
       Called(s, c) /\ a.at[c] \in {"let", "ran"}
  /\ c \in o.answered =>
       \/ a.at[c] = "asked" /\ Asked(s, c) /\ "approval" \in Acts(o, c)
       \/ /\ a.at[c] = "answered"
          /\ \E r : Shut(s, c, r, Acts(o, c)) /\ IsTrue(a, c, r)
  /\ c \notin o.answered => Acts(o, c) = {}

(* A body that runs leaves a record and is announced; a call with a record  *)
(* is noted as a replay at its gate, or has none.                           *)
Kept(o, a, e, c) ==
  /\ c \in a.ran => /\ c \in o.announced /\ c \notin o.replayed
                    /\ a.at[c] \in {"ran", "answered"}
                    /\ e.ledger[c] # NoResult
  /\ c \in o.replayed => e.ledger[c] # NoResult
  /\ e.answer[c] \in Result \cup Refusal

Fresh(o, a, e, c) ==
  a.kind # "resume" =>
    /\ a.at[c] = "todo" => e.answer[c] = NoResult
    /\ a.at[c] = "let" /\ c \notin o.replayed => e.ledger[c] = NoResult
    /\ a.at[c] = "ran" /\ c \notin a.ran =>
         c \in o.replayed \/ c \notin o.announced
    /\ a.at[c] = "answered" => c \in o.answered

PendingIn(h) ==
  IF h # <<>> /\ h[Len(h)].kind = "response" THEN Range(h[Len(h)].calls) ELSE {}

Controls == {"results", "announced", "answered", "replayed", "acted"}

Streamed(C, s, o, a, e, h) ==
  /\ IsStream(s) /\ DOMAIN o = Controls
  /\ \A x \in o.acted : x[1] \in C /\ x = <<x[1], x[2]>>
  /\ a.mode = "idle" => a.kind = "run" /\ \A c \in C : a.at[c] = "todo"
  /\ a.kind # "resume" /\ a.mode \in {"idle", "opening", "running"} =>
       e.asked = {} /\ \A c \in C : e.said[c] = "none"
  /\ a.mode \in {"finishing", "done"} =>
       \A c \in PendingIn(h) : c \in C /\ a.at[c] = "answered"
  /\ a.mode = "done" => PendingIn(h) \subseteq o.answered
  /\ \A c \in C : Told(s, o, a, c) /\ Kept(o, a, e, c) /\ Fresh(o, a, e, c)

Streams ==
  /\ made \in Batches
  /\ DOMAIN stream = Branch /\ DOMAIN observed = Branch /\ DOMAIN history = Branch
  /\ \A b \in Branch : Streamed(Calls, stream[b], observed[b], attempt[b],
                                engine[b], history[b])

LEMMA PendingIs == ASSUME NEW b PROVE Pending(b) = PendingIn(history[b])
BY DEF Pending, PendingIn

(* For another call of the same version nothing changes. *)
Alike(o, a, e, o2, a2, e2, c) ==
  /\ c \in o2.announced <=> c \in o.announced
  /\ c \in o2.answered <=> c \in o.answered
  /\ c \in o2.replayed <=> c \in o.replayed
  /\ Acts(o2, c) = Acts(o, c)
  /\ a2.kind = a.kind /\ a2.at[c] = a.at[c]
  /\ c \in a2.ran <=> c \in a.ran
  /\ e2.ledger[c] = e.ledger[c] /\ e2.answer[c] = e.answer[c]

LEMMA OtherCall ==
  ASSUME NEW s, NEW o, NEW a, NEW e, NEW t, NEW o2, NEW a2, NEW e2, NEW c,
         Told(s, o, a, c), Kept(o, a, e, c), Fresh(o, a, e, c),
         Same(s, t, c), Alike(o, a, e, o2, a2, e2, c)
  PROVE  Told(t, o2, a2, c) /\ Kept(o2, a2, e2, c) /\ Fresh(o2, a2, e2, c)
<1>1. Kept(o2, a2, e2, c) BY DEF Kept, Alike
<1>2. Fresh(o2, a2, e2, c) BY DEF Fresh, Alike
<1>3. Told(t, o2, a2, c)
  <2>1. c \notin o2.announced => /\ c \notin o2.answered /\ Blank(t, c)
                                 /\ a2.at[c] \in {"todo", "ran", "answered"}
    BY SameStages DEF Told, Alike
  <2>2. c \in o2.announced /\ c \notin o2.answered =>
          Called(t, c) /\ a2.at[c] \in {"let", "ran"}
    BY SameStages DEF Told, Alike
  <2>3. c \notin o2.answered => Acts(o2, c) = {} BY DEF Told, Alike
  <2>4. ASSUME c \in o2.answered
        PROVE  \/ a2.at[c] = "asked" /\ Asked(t, c) /\ "approval" \in Acts(o2, c)
               \/ /\ a2.at[c] = "answered"
                  /\ \E r : Shut(t, c, r, Acts(o2, c)) /\ IsTrue(a2, c, r)
    <3>1. CASE a.at[c] = "asked" /\ Asked(s, c) /\ "approval" \in Acts(o, c)
      BY <3>1, SameStages DEF Alike
    <3>2. CASE /\ a.at[c] = "answered"
               /\ \E r : Shut(s, c, r, Acts(o, c)) /\ IsTrue(a, c, r)
      <4>1. PICK r : Shut(s, c, r, Acts(o, c)) /\ IsTrue(a, c, r) BY <3>2
      <4>2. Shut(t, c, r, Acts(o2, c)) BY <4>1, SameStages DEF Alike
      <4>3. IsTrue(a2, c, r) BY <4>1 DEF Alike, IsTrue
      <4>4. a2.at[c] = "answered" BY <3>2 DEF Alike
      <4> QED BY <4>2, <4>3, <4>4
    <3> QED BY <2>4, <3>1, <3>2 DEF Told, Alike
  <2> QED BY <2>1, <2>2, <2>3, <2>4 DEF Told
<1> QED BY <1>1, <1>2, <1>3

(* A step of one version leaves the others as they are. *)
OnlyIn(b) ==
  /\ made' = made
  /\ DOMAIN stream' = Branch /\ DOMAIN observed' = Branch /\ DOMAIN history' = Branch
  /\ \A d \in Branch \ {b} :
       /\ stream'[d] = stream[d] /\ observed'[d] = observed[d]
       /\ attempt'[d] = attempt[d] /\ engine'[d] = engine[d]
       /\ history'[d] = history[d]

StreamedNext(b) ==
  Streamed(Calls, stream'[b], observed'[b], attempt'[b], engine'[b], history'[b])

LEMMA OneVersion ==
  ASSUME Streams, NEW b \in Branch, OnlyIn(b), StreamedNext(b)
  PROVE  Streams'
<1>1. Calls' = Calls BY DEF OnlyIn, Calls
<1>2. ASSUME NEW d \in Branch
      PROVE  Streamed(Calls, stream'[d], observed'[d], attempt'[d], engine'[d],
                      history'[d])
  BY DEF Streams, OnlyIn, StreamedNext
<1> QED BY <1>1, <1>2 DEF Streams, OnlyIn, Branch

----------------------------------------------------------------------------
(* A step of one call. *)
LEMMA OneCall ==
  ASSUME NEW C, NEW s, NEW o, NEW a, NEW e, NEW h, Streamed(C, s, o, a, e, h),
         NEW c \in C, NEW t, NEW o2, NEW a2, NEW e2,
         Shows(s, t, c), DOMAIN o2 = Controls,
         \A x \in o2.acted : x \in o.acted \/ (x[1] = c /\ x = <<x[1], x[2]>>),
         \A d \in C : d # c => Alike(o, a, e, o2, a2, e2, d),
         Told(t, o2, a2, c), Kept(o2, a2, e2, c), Fresh(o2, a2, e2, c),
         a2.kind = a.kind, e2.asked = e.asked, e2.said = e.said,
         \/ a.mode = "running" /\ a2.mode = "running"
         \/ a.mode = "finishing" /\ a2 = a
  PROVE  Streamed(C, t, o2, a2, e2, h)
<1>1. \A d \in C : Told(t, o2, a2, d) /\ Kept(o2, a2, e2, d) /\ Fresh(o2, a2, e2, d)
  <2> SUFFICES ASSUME NEW d \in C, d # c
               PROVE  /\ Told(t, o2, a2, d) /\ Kept(o2, a2, e2, d)
                      /\ Fresh(o2, a2, e2, d)
    OBVIOUS
  <2>1. Told(s, o, a, d) /\ Kept(o, a, e, d) /\ Fresh(o, a, e, d) BY DEF Streamed
  <2>2. Same(s, t, d) BY DEF Shows, Others
  <2>3. Alike(o, a, e, o2, a2, e2, d) OBVIOUS
  <2> QED BY <2>1, <2>2, <2>3, OtherCall
<1>2. IsStream(t) BY DEF Shows
<1>3. \A x \in o2.acted : x[1] \in C /\ x = <<x[1], x[2]>> BY DEF Streamed
<1>4. a2.kind # "resume" /\ a2.mode \in {"idle", "opening", "running"} =>
        e2.asked = {} /\ \A d \in C : e2.said[d] = "none"
  BY DEF Streamed
<1>5. a2.mode \in {"finishing", "done"} =>
        \A d \in PendingIn(h) : d \in C /\ a2.at[d] = "answered"
  BY DEF Streamed
<1>6. a2.mode # "idle" /\ a2.mode # "done" OBVIOUS
<1> QED BY <1>1, <1>2, <1>3, <1>4, <1>5, <1>6 DEF Streamed

(* Streams begin empty. *)
LEMMA EmptyIsBlank == IsStream(EmptyStream) /\ \A c : Blank(EmptyStream, c)
<1>1. EmptyStream = StreamOf({}, {}, {}, {}, <<>>) BY DEF EmptyStream, StreamOf
<1>2. <<>> \in Seq({}) OBVIOUS
<1>3. IsStream(EmptyStream) BY <1>1, <1>2, Zenon DEF IsStream
<1>4. \A c : Blank(EmptyStream, c)
  <2>1. DOMAIN EmptyStream.rows = {} BY DEF EmptyStream
  <2>2. \A kind, c : Marks(EmptyStream, kind, c) = {} BY <2>1 DEF Marks
  <2> QED BY <2>2 DEF Blank, EmptyStream
<1> QED BY <1>3, <1>4

LEMMA Beginning ==
  ASSUME NEW kind, NEW a, NEW e, NEW h, a.kind = kind, a.ran = {},
         \A c \in Calls : a.at[c] = "todo" /\ e.answer[c] \in Result \cup Refusal,
         a.mode \in {"idle", "opening"}, a.mode = "idle" => kind = "run",
         kind # "resume" => /\ \A c \in Calls : e.answer[c] = NoResult
                            /\ e.asked = {} /\ \A c \in Calls : e.said[c] = "none"
  PROVE  Streamed(Calls, EmptyStream, NewControls, a, e, h)
<1> DEFINE o == NewControls
<1>1. /\ DOMAIN o = Controls /\ o.announced = {} /\ o.answered = {}
      /\ o.replayed = {} /\ o.acted = {}
  BY DEF NewControls, Controls
<1> HIDE DEF o
<1>2. \A c : Acts(o, c) = {} BY <1>1 DEF Acts
<1>3. \A c \in Calls : Told(EmptyStream, o, a, c) BY <1>1, <1>2, EmptyIsBlank DEF Told
<1>4. \A c \in Calls : Kept(o, a, e, c) BY <1>1 DEF Kept
<1>5. \A c \in Calls : Fresh(o, a, e, c) BY <1>1 DEF Fresh
<1>6. Streamed(Calls, EmptyStream, o, a, e, h)
  BY <1>1, <1>3, <1>4, <1>5, EmptyIsBlank DEF Streamed
<1> QED BY <1>6 DEF o

LEMMA InitStreams == Init => Streams
<1> SUFFICES ASSUME Init, NEW b \in Branch
             PROVE  Streamed(Calls, stream[b], observed[b], attempt[b], engine[b],
                             history[b])
  BY DEF Init, Streams
<1>1. stream[b] = EmptyStream /\ observed[b] = NewControls BY DEF Init
<1>2. /\ attempt[b].kind = "run" /\ attempt[b].ran = {}
      /\ attempt[b].mode = "idle" /\ \A c \in Calls : attempt[b].at[c] = "todo"
  BY DEF Init, NewAttempt
<1>3. /\ \A c \in Calls : engine[b].answer[c] = NoResult
      /\ engine[b].asked = {} /\ \A c \in Calls : engine[b].said[c] = "none"
  BY DEF Init, noResults, noWord
<1>4. NoResult \in Result BY RawIsOriginal
<1> QED BY <1>1, <1>2, <1>3, <1>4, Beginning

LEMMA BeginStreams ==
  ASSUME Shape, Streams, NEW b \in Branch, NEW kind, begin(b, kind), made' = made,
         DOMAIN history' = Branch,
         \A d \in Branch \ {b} : engine'[d] = engine[d] /\ history'[d] = history[d],
         \A c \in Calls : engine'[b].answer[c] = engine[b].answer[c],
         kind # "resume" =>
           /\ attempt[b].mode = "idle"
           /\ engine'[b].asked = engine[b].asked /\ engine'[b].said = engine[b].said
  PROVE  Streams'
<1>1. b \in DOMAIN attempt /\ b \in DOMAIN stream /\ b \in DOMAIN observed
  BY DEF Shape, Streams
<1>2. /\ attempt'[b] = NewAttempt(kind) /\ stream'[b] = EmptyStream
      /\ observed'[b] = NewControls
  BY <1>1 DEF begin
<1>3. OnlyIn(b) BY DEF OnlyIn, begin, Shape, Streams
<1>4. Streamed(Calls, stream[b], observed[b], attempt[b], engine[b], history[b])
  BY DEF Streams
<1>5. \A c \in Calls : engine'[b].answer[c] \in Result \cup Refusal
  BY <1>4 DEF Streamed, Kept
<1>6. kind # "resume" =>
        /\ \A c \in Calls : engine'[b].answer[c] = NoResult
        /\ engine'[b].asked = {} /\ \A c \in Calls : engine'[b].said[c] = "none"
  <2> SUFFICES ASSUME kind # "resume"
               PROVE  /\ \A c \in Calls : engine'[b].answer[c] = NoResult
                      /\ engine'[b].asked = {}
                      /\ \A c \in Calls : engine'[b].said[c] = "none"
    OBVIOUS
  <2>1. attempt[b].kind = "run" /\ \A c \in Calls : attempt[b].at[c] = "todo"
    BY <1>4 DEF Streamed
  <2>2. \A c \in Calls : engine[b].answer[c] = NoResult
    BY <1>4, <2>1 DEF Streamed, Fresh
  <2>3. engine[b].asked = {} /\ \A c \in Calls : engine[b].said[c] = "none"
    BY <1>4, <2>1 DEF Streamed
  <2> QED BY <2>2, <2>3
<1>7. /\ NewAttempt(kind).kind = kind /\ NewAttempt(kind).ran = {}
      /\ NewAttempt(kind).mode = "opening"
      /\ \A c \in Calls : NewAttempt(kind).at[c] = "todo"
  BY DEF NewAttempt
<1>8. StreamedNext(b) BY <1>2, <1>5, <1>6, <1>7, Beginning DEF StreamedNext
<1> QED BY <1>3, <1>8, OneVersion

LEMMA RequestStreams == ASSUME Shape, Lines, Streams, Request PROVE Streams'
<1>1. \A b \in Branch : b \in Unused => attempt[b].mode = "idle" BY DEF Lines
<1>2. ASSUME NEW u \in Selections, Run(u) PROVE Streams'
  <2>1. 1 \in Branch /\ 1 \in Unused BY <1>2 DEF Run, Next_, Unused
  <2>2. attempt[1].mode = "idle" BY <1>1, <2>1
  <2>3. begin(1, "run") /\ made' = made /\ engine' = engine /\ history' = history
    BY <1>2 DEF Run
  <2>4. DOMAIN history' = Branch BY <2>3 DEF Streams
  <2> QED BY <2>1, <2>2, <2>3, <2>4, BeginStreams
<1>3. ASSUME NEW b \in Branch, NEW u \in Selections, NEW p \in points,
             NEW rejournal \in BOOLEAN, Fork(b, p, u, rejournal)
      PROVE  Streams'
  <2>1. attempt[b].mode = "idle" BY <1>1, <1>3 DEF Fork, Next_
  <2>2. begin(b, "fork") /\ made' = made BY <1>3 DEF Fork
  <2>3. DOMAIN history' = Branch /\ \A d \in Branch \ {b} : history'[d] = history[d]
    BY <1>3 DEF Fork, Streams
  <2>4. /\ \A d \in Branch \ {b} : engine'[d] = engine[d]
        /\ engine'[b].answer = engine[b].answer
        /\ engine'[b].asked = engine[b].asked /\ engine'[b].said = engine[b].said
    BY <1>3 DEF Fork, Shape, EngineType
  <2> QED BY <2>1, <2>2, <2>3, <2>4, BeginStreams
<1>4. ASSUME NEW b \in Branch, NEW c \in Calls, NEW says, NEW call,
             NEW u \in Selections, Resume(b, c, says, call, u)
      PROVE  Streams'
  <2>1. begin(b, "resume") /\ made' = made /\ history' = history BY <1>4 DEF Resume
  <2>2. DOMAIN history' = Branch BY <2>1 DEF Streams
  <2>3. /\ \A d \in Branch \ {b} : engine'[d] = engine[d]
        /\ engine'[b].answer = engine[b].answer
    BY <1>4 DEF Resume, Shape, EngineType
  <2> QED BY <2>1, <2>2, <2>3, BeginStreams
<1> QED BY <1>2, <1>3, <1>4 DEF Request

----------------------------------------------------------------------------
(* The steps of an attempt that no call takes. *)

LEMMA OfBranch ==
  ASSUME Shape, Streams, NEW b \in Branch
  PROVE  /\ Streamed(Calls, stream[b], observed[b], attempt[b], engine[b], history[b])
         /\ attempt[b] \in AttemptType /\ engine[b] \in EngineType
         /\ b \in DOMAIN stream /\ b \in DOMAIN observed /\ b \in DOMAIN attempt
         /\ b \in DOMAIN engine
BY DEF Shape, Streams

LEMMA SelfSame == ASSUME NEW s PROVE \A c : Same(s, s, c)
BY ShowsNothing DEF Same

(* Steps that show nothing. *)
LEMMA OpenStreams == ASSUME Shape, Streams, NEW b \in Branch, Open(b) PROVE Streams'
<1>1. Streamed(Calls, stream[b], observed[b], attempt[b], engine[b], history[b])
  BY OfBranch
<1>2. /\ attempt'[b] = [attempt[b] EXCEPT !.mode = "running"]
      /\ \A d \in Branch \ {b} : attempt'[d] = attempt[d] /\ history'[d] = history[d]
      /\ DOMAIN history' = Branch
  BY DEF Open, Shape, Streams
<1>3. OnlyIn(b) BY <1>2 DEF OnlyIn, Open, Streams
<1>4. /\ attempt'[b].mode = "running" /\ attempt'[b].kind = attempt[b].kind
      /\ attempt'[b].at = attempt[b].at /\ attempt'[b].ran = attempt[b].ran
      /\ attempt[b].mode = "opening"
  BY <1>2, OfBranch DEF AttemptType, Open
<1>5. stream' = stream /\ observed' = observed /\ engine' = engine BY DEF Open
<1>6. ASSUME NEW c \in Calls
      PROVE  /\ Told(stream[b], observed[b], attempt'[b], c)
             /\ Kept(observed[b], attempt'[b], engine[b], c)
             /\ Fresh(observed[b], attempt'[b], engine[b], c)
  BY <1>1, <1>4 DEF Streamed, Told, Kept, Fresh, IsTrue
<1>7. Streamed(Calls, stream[b], observed[b], attempt'[b], engine[b], history'[b])
  BY <1>1, <1>4, <1>6 DEF Streamed
<1>8. StreamedNext(b) BY <1>5, <1>7 DEF StreamedNext
<1> QED BY <1>3, <1>8, OneVersion

(* An attempt parks or finishes. *)
LEMMA ModeStreams ==
  ASSUME Shape, Streams, NEW b \in Branch, NEW mode \in {"parked", "finishing"},
         attempt[b].mode = "running",
         attempt' = [attempt EXCEPT ![b].mode = mode],
         made' = made, history' = history, observed' = observed,
         DOMAIN stream' = Branch, \A d \in Branch \ {b} : stream'[d] = stream[d],
         IsStream(stream'[b]), \A c : Same(stream[b], stream'[b], c),
         \A d \in Branch \ {b} : engine'[d] = engine[d],
         engine'[b].ledger = engine[b].ledger, engine'[b].answer = engine[b].answer,
         mode = "finishing" =>
           Pending(b) \subseteq {c \in Calls : attempt[b].at[c] = "answered"}
  PROVE  Streams'
<1>1. Streamed(Calls, stream[b], observed[b], attempt[b], engine[b], history[b])
  BY OfBranch
<1>2. /\ attempt'[b].mode = mode /\ attempt'[b].kind = attempt[b].kind
      /\ attempt'[b].at = attempt[b].at /\ attempt'[b].ran = attempt[b].ran
      /\ \A d \in Branch \ {b} : attempt'[d] = attempt[d]
  BY OfBranch DEF AttemptType, Shape
<1>3. OnlyIn(b) BY <1>2 DEF OnlyIn, Streams
<1>4. ASSUME NEW c \in Calls
      PROVE  /\ Told(stream'[b], observed[b], attempt'[b], c)
             /\ Kept(observed[b], attempt'[b], engine'[b], c)
             /\ Fresh(observed[b], attempt'[b], engine'[b], c)
  <2>1. Alike(observed[b], attempt[b], engine[b], observed[b], attempt'[b],
              engine'[b], c)
    BY <1>2 DEF Alike
  <2>2. /\ Told(stream[b], observed[b], attempt[b], c)
        /\ Kept(observed[b], attempt[b], engine[b], c)
        /\ Fresh(observed[b], attempt[b], engine[b], c)
    BY <1>1 DEF Streamed
  <2>3. Same(stream[b], stream'[b], c) OBVIOUS
  <2> QED BY <2>1, <2>2, <2>3, OtherCall
<1>5. mode = "finishing" =>
        \A c \in PendingIn(history[b]) : c \in Calls /\ attempt[b].at[c] = "answered"
  BY PendingIs
<1>6. Streamed(Calls, stream'[b], observed[b], attempt'[b], engine'[b], history[b])
  BY <1>1, <1>2, <1>4, <1>5 DEF Streamed
<1>7. StreamedNext(b) BY <1>6 DEF StreamedNext
<1> QED BY <1>3, <1>7, OneVersion

LEMMA ParkStreams ==
  ASSUME Shape, Streams, NEW b \in Branch, StayParked(b) PROVE Streams'
<1>1. IsStream(stream[b]) BY OfBranch DEF Streamed
<1>2. /\ attempt[b].mode = "running"
      /\ attempt' = [attempt EXCEPT ![b].mode = "parked"]
      /\ made' = made /\ history' = history /\ observed' = observed
      /\ stream' = stream /\ engine' = engine
  BY DEF StayParked
<1>3. DOMAIN stream' = Branch BY <1>2 DEF Streams
<1> QED BY <1>1, <1>2, <1>3, SelfSame, ModeStreams

LEMMA FinishStreams ==
  ASSUME Shape, Streams, NEW b \in Branch, Finish(b) PROVE Streams'
<1>1. IsStream(stream[b]) BY OfBranch DEF Streamed
<1>2. /\ attempt[b].mode = "running"
      /\ attempt' = [attempt EXCEPT ![b].mode = "finishing"]
      /\ made' = made /\ history' = history /\ observed' = observed
      /\ stream' = stream /\ engine' = engine
  BY DEF Finish, Ready
<1>3. DOMAIN stream' = Branch BY <1>2 DEF Streams
<1>4. Pending(b) \subseteq {c \in Calls : attempt[b].at[c] = "answered"}
  BY DEF Finish, asking, settled
<1> QED BY <1>1, <1>2, <1>3, <1>4, SelfSame, ModeStreams

LEMMA SuspendStreams ==
  ASSUME Shape, Streams, NEW b \in Branch, Suspend(b) PROVE Streams'
<1> DEFINE n == Cardinality(asking(b))
           q == InOrder(asking(b))
           es == [i \in 1..n |-> hook("on_suspend", q[i])]
<1>1. IsStream(stream[b]) /\ b \in DOMAIN stream BY OfBranch DEF Streamed
<1>2. stream' = [stream EXCEPT ![b] = projected(@, es)] BY DEF Suspend, emit
<1>3. n \in Nat
  <2>1. Calls = 1..Len(made) /\ Len(made) \in Nat
    <3>1. PICK D : made \in Seq(D) BY BatchesAreCalls, Zenon DEF Streams
    <3> QED BY <3>1 DEF Calls
  <2>2. IsFiniteSet(asking(b))
    <3>1. IsFiniteSet(Calls) BY <2>1, FS_Interval
    <3>2. asking(b) \in SUBSET Calls BY DEF asking
    <3> QED BY <3>1, <3>2, FS_Subset
  <2> QED BY <2>2, FS_CardinalityType
<1> HIDE DEF n, q
<1>4. es \in Seq({hook("on_suspend", q[i]) : i \in 1..n}) /\ Len(es) = n
  BY <1>3
<1>5. /\ IsStream(projected(stream[b], es))
      /\ \A d : Same(stream[b], projected(stream[b], es), d)
  <2> DEFINE p == [i \in 1..n |-> q[i]]
  <2>1. p \in Seq({q[i] : i \in 1..n}) /\ Len(p) = n BY <1>3
  <2>2. \A i \in 1..Len(p) : es[i] = hook("on_suspend", p[i]) BY <2>1
  <2> HIDE DEF p, es
  <2> QED BY <1>1, <1>4, <2>1, <2>2, SuspensionIsShown
<1> HIDE DEF es
<1>6. /\ stream'[b] = projected(stream[b], es) /\ DOMAIN stream' = Branch
      /\ \A d \in Branch \ {b} : stream'[d] = stream[d]
  BY <1>1, <1>2 DEF Streams
<1>7. /\ attempt[b].mode = "running"
      /\ attempt' = [attempt EXCEPT ![b].mode = "parked"]
      /\ made' = made /\ history' = history /\ observed' = observed
  BY DEF Suspend, Ready
<1>8. /\ \A d \in Branch \ {b} : engine'[d] = engine[d]
      /\ engine'[b].ledger = engine[b].ledger /\ engine'[b].answer = engine[b].answer
  BY OfBranch DEF Suspend, Shape, EngineType
<1> QED BY <1>5, <1>6, <1>7, <1>8, ModeStreams

LEMMA OutcomeStreams ==
  ASSUME Shape, Streams, NEW b \in Branch, Outcome(b) PROVE Streams'
<1>1. Streamed(Calls, stream[b], observed[b], attempt[b], engine[b], history[b])
  BY OfBranch
<1>2. PICK P, R, W, A, L, B : stream[b] = StreamOf(P, R, W, A, L) /\ L \in Seq(B)
  BY <1>1 DEF Streamed, IsStream
<1>3. flushed(stream[b]) = stream[b]
  <2> DEFINE s == StreamOf(P, R, W, A, L)
             held == {w \in s.deferred_results : w.call \notin s.answered}
             calls == {w.call : w \in held}
             N == [i \in 1..Cardinality(calls) |->
                     CHOOSE w \in held : w.call = InOrder(calls)[i]]
  <2>1. flushed(s) = shown([s EXCEPT !.deferred_results = {}], N)
    BY Zenon DEF flushed
  <2>2. s.deferred_results = {} /\ [s EXCEPT !.deferred_results = {}] = s
    BY DEF StreamOf
  <2>3. N = <<>>
    <3>1. calls = {} BY <2>2
    <3>2. Cardinality(calls) = 0 BY <3>1, FS_EmptySet
    <3>3. DOMAIN N = 1..Cardinality(calls) /\ N = [i \in DOMAIN N |-> N[i]]
      <4> HIDE DEF calls, held
      <4> QED OBVIOUS
    <3> HIDE DEF N, calls
    <3>4. DOMAIN N = {} BY <3>2, <3>3
    <3> QED BY <3>3, <3>4
  <2> HIDE DEF N
  <2>4. shown(s, N) = StreamOf(P, R, W, A, L \o N) BY RowsShown
  <2>5. L \o N = L BY <1>2, <2>3
  <2>6. flushed(s) = s BY <2>1, <2>2, <2>3, <2>4, <2>5
  <2> QED BY <1>2, <2>6
<1>4. /\ stream'[b] = stream[b] /\ DOMAIN stream' = Branch
      /\ \A d \in Branch \ {b} : stream'[d] = stream[d]
  BY <1>3, OfBranch DEF Outcome, Streams
<1>5. /\ attempt'[b].mode = "done" /\ attempt'[b].kind = attempt[b].kind
      /\ attempt'[b].at = attempt[b].at /\ attempt'[b].ran = attempt[b].ran
      /\ \A d \in Branch \ {b} : attempt'[d] = attempt[d]
      /\ attempt[b].mode = "finishing"
  BY OfBranch DEF AttemptType, Shape, Outcome
<1>6. OnlyIn(b) BY <1>4, <1>5 DEF OnlyIn, Streams, Outcome
<1>7. ASSUME NEW c \in Calls
      PROVE  /\ Told(stream[b], observed[b], attempt'[b], c)
             /\ Kept(observed[b], attempt'[b], engine[b], c)
             /\ Fresh(observed[b], attempt'[b], engine[b], c)
  BY <1>1, <1>5 DEF Streamed, Told, Kept, Fresh, IsTrue
<1>8. PendingIn(history[b]) \subseteq observed[b].answered
  BY PendingIs DEF Outcome, missing
<1>9. Streamed(Calls, stream[b], observed[b], attempt'[b], engine[b], history[b])
  BY <1>1, <1>5, <1>7, <1>8 DEF Streamed
<1>10. StreamedNext(b) BY <1>4, <1>9 DEF StreamedNext, Outcome
<1> QED BY <1>6, <1>10, OneVersion

LEMMA Joined ==
  ASSUME NEW D, NEW p \in Seq(D), NEW q \in Seq(D)
  PROVE  /\ p \o q \in Seq(D) /\ Len(p \o q) = Len(p) + Len(q)
         /\ \A i \in 1..Len(p) : (p \o q)[i] = p[i]
         /\ \A i \in 1..Len(q) : (p \o q)[Len(p) + i] = q[i]
OBVIOUS

LEMMA Tuples ==
  ASSUME NEW D, NEW x \in D, NEW y \in D, NEW z \in D
  PROVE  /\ <<>> \in Seq(D) /\ Len(<<>>) = 0
         /\ <<x>> \in Seq(D) /\ Len(<<x>>) = 1 /\ <<x>>[1] = x
         /\ <<x, y>> \in Seq(D) /\ Len(<<x, y>>) = 2
         /\ <<x, y>>[1] = x /\ <<x, y>>[2] = y
         /\ <<x, y, z>> \in Seq(D) /\ Len(<<x, y, z>>) = 3
         /\ <<x, y, z>>[1] = x /\ <<x, y, z>>[2] = y /\ <<x, y, z>>[3] = z
OBVIOUS

----------------------------------------------------------------------------
(* The steps of a call. *)

(* What a gate emits. *)
LEMMA GateEmits ==
  ASSUME NEW s, NEW c, IsStream(s), Blank(s, c), NEW r, NEW hooks,
         \/ hooks = <<hook("pre_tool_use", c)>>
         \/ hooks = <<hook("on_resume", c), hook("pre_tool_use", c)>>,
         NEW es, NEW t, t = projected(s, es),
         es = <<CallEvent(c)>> \o hooks
                \o (IF r = NoResult THEN <<>> ELSE _decision(c, r))
  PROVE  /\ r = NoResult => Shows(s, t, c) /\ Called(t, c)
         /\ r # NoResult /\ r.text = "asked" /\ r.redacted_by = "approval" =>
              Shows(s, t, c) /\ Asked(t, c)
         /\ r # NoResult /\ r.text # "asked" => Shows(s, t, c) /\ Refused(t, c, r)
<1> DEFINE pre == hook("pre_tool_use", c)
           on == hook("on_resume", c)
           call == CallEvent(c)
           answer == ResultEvent(c, FALSE, r)
           denied == DenialHook(c, r)
           known == hook("context_injected", c)
           E == {pre, on, call, answer, denied, known}
           p == <<call>> \o hooks
           d == IF r = NoResult THEN <<>> ELSE _decision(c, r)
<1>1. /\ r = NoResult => d = <<>>
      /\ r # NoResult /\ r.text = "asked" => d = <<answer>>
      /\ r # NoResult /\ r.text # "asked" => d = <<denied, answer, known>>
  BY DEF _decision, ResultEvent, DenialHook
<1>2. hooks = <<pre>> \/ hooks = <<on, pre>> OBVIOUS
<1>3. es = p \o d OBVIOUS
<1> HIDE DEF pre, on, call, answer, denied, known
<1>4. /\ pre \in E /\ on \in E /\ call \in E
      /\ answer \in E /\ denied \in E /\ known \in E
  OBVIOUS
<1> HIDE DEF E
<1>5. PICK m \in {2, 3} : /\ p \in Seq(E) /\ Len(p) = m
                          /\ p[1] = call /\ p[m] = pre /\ (m = 3 => p[2] = on)
  <2> DEFINE first == <<call>>
  <2>1. first \in Seq(E) /\ Len(first) = 1 /\ first[1] = call BY <1>4, Tuples
  <2>2. hooks \in Seq(E)
    <3>1. <<pre>> \in Seq(E) /\ <<on, pre>> \in Seq(E) BY <1>4, Tuples
    <3> QED BY <1>2, <3>1
  <2>3. p = first \o hooks OBVIOUS
  <2> HIDE DEF first, p
  <2>4. /\ p \in Seq(E) /\ Len(p) = 1 + Len(hooks) /\ p[1] = call
        /\ \A i \in 1..Len(hooks) : p[1 + i] = hooks[i]
    BY <2>1, <2>2, <2>3, Joined
  <2>5. CASE hooks = <<pre>>
    <3>1. Len(hooks) = 1 /\ hooks[1] = pre BY <2>5
    <3>2. Len(p) = 2 /\ p[1 + 1] = pre BY <2>4, <3>1
    <3> QED BY <2>4, <3>2
  <2>6. CASE hooks = <<on, pre>>
    <3>1. Len(hooks) = 2 /\ hooks[1] = on /\ hooks[2] = pre BY <2>6
    <3>2. Len(p) = 3 /\ p[1 + 1] = on /\ p[1 + 2] = pre BY <2>4, <3>1
    <3>3. p[2] = on /\ p[3] = pre BY <3>2
    <3> QED BY <2>4, <3>2, <3>3
  <2> QED BY <1>2, <2>5, <2>6
<1> HIDE DEF p, d
<1>6. /\ d \in Seq(E)
      /\ r = NoResult => Len(d) = 0
      /\ r # NoResult /\ r.text = "asked" => Len(d) = 1 /\ d[1] = answer
      /\ r # NoResult /\ r.text # "asked" =>
           Len(d) = 3 /\ d[1] = denied /\ d[2] = answer /\ d[3] = known
  <2>1. CASE r = NoResult
    <3>1. d = <<>> BY <1>1, <2>1
    <3> QED BY <2>1, <3>1
  <2>2. CASE r # NoResult /\ r.text = "asked"
    <3>1. d = <<answer>> BY <1>1, <2>2
    <3>2. d \in Seq(E) /\ Len(d) = 1 /\ d[1] = answer BY <1>4, <3>1, Tuples
    <3> QED BY <2>2, <3>2
  <2>3. CASE r # NoResult /\ r.text # "asked"
    <3>1. d = <<denied, answer, known>> BY <1>1, <2>3
    <3>2. /\ d \in Seq(E) /\ Len(d) = 3
          /\ d[1] = denied /\ d[2] = answer /\ d[3] = known
      BY <1>4, <3>1, Tuples
    <3> QED BY <2>3, <3>2
  <2> QED BY <2>1, <2>2, <2>3
<1>7. /\ es \in Seq(E) /\ Len(es) = m + Len(d)
      /\ \A i \in 1..m : es[i] = p[i]
      /\ \A i \in 1..Len(d) : es[m + i] = d[i]
  <2>1. d \in Seq(E) BY <1>6
  <2>2. /\ p \o d \in Seq(E) /\ Len(p \o d) = Len(p) + Len(d)
        /\ \A i \in 1..Len(p) : (p \o d)[i] = p[i]
        /\ \A i \in 1..Len(d) : (p \o d)[Len(p) + i] = d[i]
    BY <1>5, <2>1, Joined
  <2> QED BY <1>3, <1>5, <2>2
<1>8. Len(d) \in Nat BY <1>6
<1>9. Opening(es, c, m)
  <2>1. 1 \in 1..m /\ m \in 1..m /\ (m = 3 => 2 \in 1..m) BY <1>5
  <2>2. es[1] = p[1] /\ es[m] = p[m] /\ (m = 3 => es[2] = p[2]) BY <1>7, <2>1
  <2>3. es[1] = call /\ es[m] = pre /\ (m = 3 => es[2] = on) BY <1>5, <2>2
  <2>4. m <= Len(es)
    <3>1. Len(es) = m + Len(d) BY <1>7
    <3>2. \A k \in Nat, l \in {2, 3} : l <= l + k OBVIOUS
    <3> QED BY <1>8, <3>1, <3>2, Zenon
  <2> QED BY <2>3, <2>4 DEF Opening, call, pre, on
<1>10. /\ Len(es) = m => Shows(s, t, c) /\ Called(t, c)
       /\ Asks(es, c, m, r) => Shows(s, t, c) /\ Asked(t, c)
       /\ Refuses(es, c, m, r) => Shows(s, t, c) /\ Refused(t, c, r)
  BY <1>7, <1>9, GateIsShown
<1>11. CASE r = NoResult
  <2>1. Len(es) = m BY <1>5, <1>6, <1>7, <1>11
  <2> QED BY <1>10, <1>11, <2>1
<1>12. CASE r # NoResult /\ r.text = "asked"
  <2>1. Len(d) = 1 /\ d[1] = answer BY <1>6, <1>12
  <2>2. Len(es) = m + 1 BY <1>7, <2>1
  <2>3. es[m + 1] = answer
    <3>1. 1 \in 1..Len(d) BY <2>1
    <3>2. es[m + 1] = d[1] BY <1>7, <3>1
    <3> QED BY <2>1, <3>2
  <2>4. r.redacted_by = "approval" => Asks(es, c, m, r)
    BY <1>12, <2>2, <2>3 DEF Asks, answer
  <2> QED BY <1>10, <1>12, <2>4
<1>13. CASE r # NoResult /\ r.text # "asked"
  <2>1. Len(d) = 3 /\ d[1] = denied /\ d[2] = answer /\ d[3] = known
    BY <1>6, <1>13
  <2>2. Len(es) = m + 3 BY <1>7, <2>1
  <2>3. es[m + 1] = denied /\ es[m + 2] = answer /\ es[m + 3] = known
    <3>1. 1 \in 1..Len(d) /\ 2 \in 1..Len(d) /\ 3 \in 1..Len(d) BY <2>1
    <3>2. es[m + 1] = d[1] /\ es[m + 2] = d[2] /\ es[m + 3] = d[3] BY <1>7, <3>1
    <3> QED BY <2>1, <3>2
  <2>4. Refuses(es, c, m, r)
    BY <1>13, <2>2, <2>3 DEF Refuses, answer, denied, known
  <2> QED BY <1>10, <1>13, <2>4
<1> QED BY <1>11, <1>12, <1>13

(* A decision is one of three. *)
LEMMA DecisionIs ==
  ASSUME NEW r \in {NoResult} \cup Refusal \cup Asking
  PROVE  \/ r = NoResult /\ r.text # "refused"
         \/ /\ r # NoResult /\ r.text = "refused" /\ r.text # "asked"
            /\ r.replayed = FALSE
         \/ /\ r # NoResult /\ r.text = "asked" /\ r.text # "refused"
            /\ r.redacted_by = "approval"
<1>1. CASE r = NoResult BY <1>1 DEF NoResult, result
<1>2. CASE r \in Refusal
  <2>1. r.text = "refused" /\ r.replayed = FALSE BY <1>2 DEF Refusal, result
  <2>2. NoResult.text = "none" BY DEF NoResult, result
  <2> QED BY <2>1, <2>2
<1>3. CASE r \in Asking
  <2>1. r.text = "asked" /\ r.redacted_by = "approval" BY <1>3 DEF Asking, result
  <2>2. NoResult.text = "none" BY DEF NoResult, result
  <2> QED BY <2>1, <2>2
<1> QED BY <1>1, <1>2, <1>3

Gains(o, o2, c, U) == o2.acted = o.acted \cup {<<c, u>> : u \in U}

LEMMA ActsGrow ==
  ASSUME NEW o, NEW o2, NEW c, NEW U, Gains(o, o2, c, U)
  PROVE  /\ Acts(o2, c) = Acts(o, c) \cup U
         /\ \A d : d # c => Acts(o2, d) = Acts(o, d)
         /\ \A x \in o2.acted : x \in o.acted \/ (x[1] = c /\ x = <<x[1], x[2]>>)
<1>1. o2.acted = o.acted \cup {<<c, u>> : u \in U} BY DEF Gains
<1>2. \A x \in o2.acted : x \in o.acted \/ \E u \in U : x = <<c, u>>
  BY <1>1
<1>3. \A u : <<c, u>>[1] = c /\ <<c, u>>[2] = u OBVIOUS
<1>4. /\ \A u \in U : <<c, u>> \in o2.acted
      /\ \A x \in o.acted : x \in o2.acted
  BY <1>1
<1>5. \A v, d, u : u \in Acts(v, d) <=> \E x \in v.acted : x[1] = d /\ x[2] = u
  BY DEF Acts
<1>6. Acts(o2, c) = Acts(o, c) \cup U
  <2>1. ASSUME NEW u \in Acts(o2, c) PROVE u \in Acts(o, c) \cup U
    <3>1. PICK x \in o2.acted : x[1] = c /\ x[2] = u BY <1>5
    <3>2. CASE x \in o.acted BY <1>5, <3>1, <3>2
    <3>3. CASE \E w \in U : x = <<c, w>> BY <3>1, <3>3
    <3> QED BY <1>2, <3>2, <3>3
  <2>2. ASSUME NEW u \in Acts(o, c) PROVE u \in Acts(o2, c)
    BY <1>4, <1>5
  <2>3. ASSUME NEW u \in U PROVE u \in Acts(o2, c)
    BY <1>3, <1>4, <1>5
  <2> QED BY <2>1, <2>2, <2>3
<1>7. ASSUME NEW d, d # c PROVE Acts(o2, d) = Acts(o, d)
  <2>1. ASSUME NEW u \in Acts(o2, d) PROVE u \in Acts(o, d)
    <3>1. PICK x \in o2.acted : x[1] = d /\ x[2] = u BY <1>5
    <3>2. x \in o.acted BY <1>2, <1>3, <1>7, <3>1
    <3> QED BY <1>5, <3>1, <3>2
  <2>2. ASSUME NEW u \in Acts(o, d) PROVE u \in Acts(o2, d)
    BY <1>4, <1>5
  <2> QED BY <2>1, <2>2
<1>8. \A x \in o2.acted : x \in o.acted \/ (x[1] = c /\ x = <<x[1], x[2]>>)
  BY <1>2, <1>3
<1> QED BY <1>6, <1>7, <1>8

LEMMA OneCallStreams ==
  ASSUME Shape, Streams, NEW b \in Branch, NEW c \in Calls,
         made' = made, history' = history,
         DOMAIN stream' = Branch, DOMAIN observed' = Branch,
         \A d \in Branch \ {b} :
           /\ stream'[d] = stream[d] /\ observed'[d] = observed[d]
           /\ attempt'[d] = attempt[d] /\ engine'[d] = engine[d],
         Shows(stream[b], stream'[b], c), DOMAIN observed'[b] = Controls,
         \A x \in observed'[b].acted :
           x \in observed[b].acted \/ (x[1] = c /\ x = <<x[1], x[2]>>),
         \A d \in Calls : d # c =>
           Alike(observed[b], attempt[b], engine[b],
                 observed'[b], attempt'[b], engine'[b], d),
         Told(stream'[b], observed'[b], attempt'[b], c),
         Kept(observed'[b], attempt'[b], engine'[b], c),
         Fresh(observed'[b], attempt'[b], engine'[b], c),
         attempt'[b].kind = attempt[b].kind,
         engine'[b].asked = engine[b].asked, engine'[b].said = engine[b].said,
         \/ attempt[b].mode = "running" /\ attempt'[b].mode = "running"
         \/ attempt[b].mode = "finishing" /\ attempt'[b] = attempt[b]
  PROVE  Streams'
<1>1. Streamed(Calls, stream[b], observed[b], attempt[b], engine[b], history[b])
  BY OfBranch
<1>2. Streamed(Calls, stream'[b], observed'[b], attempt'[b], engine'[b], history[b])
  BY <1>1, OneCall
<1>3. StreamedNext(b) BY <1>2 DEF StreamedNext
<1>4. OnlyIn(b) BY DEF OnlyIn, Streams
<1> QED BY <1>3, <1>4, OneVersion

(* A call whose turn has come has shown nothing. *)
LEMMA TodoIsBlank ==
  ASSUME NEW s, NEW o, NEW a, NEW c, Told(s, o, a, c), a.at[c] = "todo"
  PROVE  /\ c \notin o.announced /\ c \notin o.answered /\ Blank(s, c)
         /\ Acts(o, c) = {}
BY DEF Told

LEMMA GateStreams ==
  ASSUME Shape, Streams, NEW b \in Branch, NEW c \in Calls, NEW hooks, NEW reads,
         NEW r \in {NoResult} \cup Refusal \cup Asking,
         gate(b, c, hooks, reads, r),
         attempt[b].mode = "running", attempt[b].at[c] = "todo",
         \/ hooks = <<hook("pre_tool_use", c)>>
         \/ hooks = <<hook("on_resume", c), hook("pre_tool_use", c)>>,
         reads = TRUE \/ attempt[b].kind = "resume"
  PROVE  Streams'
<1>1. /\ Streamed(Calls, stream[b], observed[b], attempt[b], engine[b], history[b])
      /\ attempt[b] \in AttemptType /\ engine[b] \in EngineType
      /\ b \in DOMAIN stream /\ b \in DOMAIN observed
  BY OfBranch
<1>2. /\ Told(stream[b], observed[b], attempt[b], c)
      /\ Kept(observed[b], attempt[b], engine[b], c)
      /\ IsStream(stream[b]) /\ DOMAIN observed[b] = Controls
  BY <1>1 DEF Streamed
<1>3. /\ c \notin observed[b].announced /\ c \notin observed[b].answered
      /\ Blank(stream[b], c) /\ Acts(observed[b], c) = {}
  BY <1>2, TodoIsBlank
<1>4. Shows(stream[b], stream'[b], c)
      /\ (r = NoResult => Called(stream'[b], c))
      /\ (r # NoResult /\ r.text = "asked" => Asked(stream'[b], c))
      /\ (r # NoResult /\ r.text # "asked" => Refused(stream'[b], c, r))
  <2> DEFINE es == <<CallEvent(c)>> \o hooks
                     \o (IF r = NoResult THEN <<>> ELSE _decision(c, r))
  <2>1. stream'[b] = projected(stream[b], es)
    <3>1. _announce(b, c) = <<CallEvent(c)>> BY <1>3 DEF _announce, CallEvent
    <3>2. stream' = [stream EXCEPT ![b] = projected(@, es)]
      BY <3>1, Zenon DEF gate, emit
    <3> HIDE DEF es
    <3> QED BY <1>1, <3>2
  <2>2. /\ r = NoResult => Shows(stream[b], stream'[b], c) /\ Called(stream'[b], c)
        /\ r # NoResult /\ r.text = "asked" /\ r.redacted_by = "approval" =>
             Shows(stream[b], stream'[b], c) /\ Asked(stream'[b], c)
        /\ r # NoResult /\ r.text # "asked" =>
             Shows(stream[b], stream'[b], c) /\ Refused(stream'[b], c, r)
    BY <1>2, <1>3, <2>1, GateEmits
  <2> QED BY <2>2, DecisionIs
<1>5. /\ DOMAIN observed'[b] = Controls
      /\ observed'[b].announced = observed[b].announced \cup {c}
      /\ observed'[b].answered = IF r = NoResult THEN observed[b].answered
                                 ELSE observed[b].answered \cup {c}
      /\ observed'[b].replayed = IF Recorded(b, c) /\ reads
                                 THEN observed[b].replayed \cup {c}
                                 ELSE observed[b].replayed
      /\ observed'[b].acted = IF r = NoResult THEN observed[b].acted
                              ELSE observed[b].acted \cup {<<c, r.redacted_by>>}
  BY <1>1, <1>2 DEF gate, Controls
<1>6. /\ attempt'[b].kind = attempt[b].kind /\ attempt'[b].mode = attempt[b].mode
      /\ attempt'[b].ran = attempt[b].ran
      /\ attempt'[b].at[c] = CASE r = NoResult        -> "let"
                               [] r.text = "refused" -> "answered"
                               [] OTHER              -> "asked"
      /\ \A d \in Calls \ {c} : attempt'[b].at[d] = attempt[b].at[d]
  BY <1>1 DEF gate, Shape, AttemptType
<1>7. /\ r = NoResult => attempt'[b].at[c] = "let"
      /\ r # NoResult /\ r.text = "refused" => attempt'[b].at[c] = "answered"
      /\ r # NoResult /\ r.text = "asked" => attempt'[b].at[c] = "asked"
  BY <1>6, DecisionIs
<1>8. /\ engine'[b].asked = engine[b].asked /\ engine'[b].said = engine[b].said
      /\ engine'[b].ledger = engine[b].ledger
      /\ engine'[b].answer[c] = IF r.text = "refused" THEN r ELSE engine[b].answer[c]
      /\ \A d \in Calls \ {c} : engine'[b].answer[d] = engine[b].answer[d]
  BY <1>1 DEF gate, Shape, EngineType
<1>9. /\ Acts(observed'[b], c) = IF r = NoResult THEN {} ELSE {r.redacted_by}
      /\ \A d : d # c => Acts(observed'[b], d) = Acts(observed[b], d)
      /\ \A x \in observed'[b].acted :
           x \in observed[b].acted \/ (x[1] = c /\ x = <<x[1], x[2]>>)
  <2> DEFINE U == IF r = NoResult THEN {} ELSE {r.redacted_by}
  <2>1. observed'[b].acted = observed[b].acted \cup {<<c, u>> : u \in U} BY <1>5
  <2>2. Gains(observed[b], observed'[b], c, U) BY <2>1 DEF Gains
  <2> HIDE DEF U
  <2>3. /\ Acts(observed'[b], c) = Acts(observed[b], c) \cup U
        /\ \A d : d # c => Acts(observed'[b], d) = Acts(observed[b], d)
        /\ \A x \in observed'[b].acted :
             x \in observed[b].acted \/ (x[1] = c /\ x = <<x[1], x[2]>>)
    BY <2>2, ActsGrow
  <2>4. Acts(observed'[b], c) = U BY <1>3, <2>3
  <2> QED BY <2>3, <2>4 DEF U
<1>10. \A d \in Calls : d # c =>
         Alike(observed[b], attempt[b], engine[b],
               observed'[b], attempt'[b], engine'[b], d)
  BY <1>5, <1>6, <1>8, <1>9 DEF Alike
<1>11. Told(stream'[b], observed'[b], attempt'[b], c)
  <2>1. CASE r = NoResult
    <3>1. /\ c \in observed'[b].announced /\ c \notin observed'[b].answered
          /\ Called(stream'[b], c) /\ attempt'[b].at[c] = "let"
          /\ Acts(observed'[b], c) = {}
      BY <1>3, <1>4, <1>5, <1>9, <1>7, <2>1
    <3> QED BY <3>1 DEF Told
  <2>2. CASE /\ r # NoResult /\ r.text = "refused" /\ r.text # "asked"
             /\ r.replayed = FALSE
    <3>1. /\ c \in observed'[b].announced /\ c \in observed'[b].answered
          /\ Refused(stream'[b], c, r) /\ attempt'[b].at[c] = "answered"
          /\ Acts(observed'[b], c) = {r.redacted_by}
      BY <1>4, <1>5, <1>9, <1>7, <2>2
    <3>2. Shut(stream'[b], c, r, Acts(observed'[b], c)) BY <3>1 DEF Refused
    <3>3. IsTrue(attempt'[b], c, r) BY <2>2 DEF IsTrue
    <3> QED BY <3>1, <3>2, <3>3 DEF Told
  <2>3. CASE /\ r # NoResult /\ r.text = "asked" /\ r.text # "refused"
             /\ r.redacted_by = "approval"
    <3>1. /\ c \in observed'[b].announced /\ c \in observed'[b].answered
          /\ Asked(stream'[b], c) /\ attempt'[b].at[c] = "asked"
          /\ "approval" \in Acts(observed'[b], c)
      BY <1>4, <1>5, <1>9, <1>7, <2>3
    <3> QED BY <3>1 DEF Told
  <2> QED BY <2>1, <2>2, <2>3, DecisionIs
<1>12. Kept(observed'[b], attempt'[b], engine'[b], c)
  <2>1. c \notin attempt[b].ran BY <1>2 DEF Kept
  <2>2. c \in observed'[b].replayed => engine'[b].ledger[c] # NoResult
    BY <1>2, <1>5, <1>8 DEF Kept, Recorded
  <2>3. engine'[b].answer[c] \in Result \cup Refusal
    <3>1. r.text = "refused" => r \in Refusal
      BY DEF NoResult, Asking, result
    <3> QED BY <1>2, <1>8, <3>1 DEF Kept
  <2> QED BY <1>6, <2>1, <2>2, <2>3 DEF Kept
<1>13. Fresh(observed'[b], attempt'[b], engine'[b], c)
  <2> SUFFICES ASSUME attempt'[b].kind # "resume"
               PROVE  Fresh(observed'[b], attempt'[b], engine'[b], c)
    BY DEF Fresh
  <2>1. reads = TRUE BY <1>6
  <2>2. c \notin observed'[b].replayed => engine'[b].ledger[c] = NoResult
    BY <1>5, <1>8, <2>1 DEF Recorded
  <2>3. /\ attempt'[b].at[c] \in {"let", "asked", "answered"}
        /\ attempt'[b].at[c] = "answered" => c \in observed'[b].answered
    BY <1>5, <1>7, DecisionIs
  <2> QED BY <2>2, <2>3 DEF Fresh
<1>14. /\ made' = made /\ history' = history
       /\ DOMAIN stream' = Branch /\ DOMAIN observed' = Branch
       /\ \A d \in Branch \ {b} :
            /\ stream'[d] = stream[d] /\ observed'[d] = observed[d]
            /\ attempt'[d] = attempt[d] /\ engine'[d] = engine[d]
  BY DEF gate, emit, Streams, Shape
<1> QED BY <1>4, <1>5, <1>6, <1>8, <1>9, <1>10, <1>11, <1>12, <1>13, <1>14,
           OneCallStreams

LEMMA PreToolUseStreams ==
  ASSUME Shape, Streams, NEW b \in Branch, NEW c \in Calls, PreToolUse(b, c)
  PROVE  Streams'
<1> DEFINE call == engine[b].called[c]
<1>1. PICK r \in Decisions(b, c, Permissions(gatesOf(b), made, call)) :
        gate(b, c, <<hook("pre_tool_use", c)>>, TRUE, r)
  BY DEF PreToolUse
<1>2. r \in {NoResult} \cup Refusal \cup Asking BY Verdict, DecisionShape
<1>3. attempt[b].mode = "running" /\ attempt[b].at[c] = "todo"
  BY DEF PreToolUse, Turn, Ready
<1> QED BY <1>1, <1>2, <1>3, GateStreams

LEMMA OnResumeStreams ==
  ASSUME Shape, Streams, NEW b \in Branch, NEW c \in Calls, OnResume(b, c)
  PROVE  Streams'
<1> DEFINE call == engine[b].called[c]
<1>1. PICK r \in Decisions(b, c, revalidate(gatesOf(b), made, call)) :
        gate(b, c, <<hook("on_resume", c), hook("pre_tool_use", c)>>, FALSE, r)
  BY DEF OnResume
<1>2. r \in {NoResult} \cup Refusal \cup Asking BY Verdict, DecisionShape
<1>3. /\ attempt[b].mode = "running" /\ attempt[b].at[c] = "todo"
      /\ c \in engine[b].asked
  BY DEF OnResume, Turn, Ready
<1>4. attempt[b].kind = "resume" BY <1>3, OfBranch DEF Streamed
<1> QED BY <1>1, <1>2, <1>3, <1>4, GateStreams

----------------------------------------------------------------------------
(* A step of a call that neither shows nor remembers anything. *)
LEMMA PlaceStreams ==
  ASSUME Shape, Streams, NEW b \in Branch, NEW c \in Calls,
         attempt[b].mode = "running",
         attempt'[b].kind = attempt[b].kind, attempt'[b].mode = attempt[b].mode,
         \A d \in Calls \ {c} :
           /\ attempt'[b].at[d] = attempt[b].at[d]
           /\ d \in attempt'[b].ran <=> d \in attempt[b].ran
           /\ engine'[b].ledger[d] = engine[b].ledger[d]
           /\ engine'[b].answer[d] = engine[b].answer[d],
         \A d \in Branch \ {b} : attempt'[d] = attempt[d] /\ engine'[d] = engine[d],
         made' = made, history' = history, stream' = stream, observed' = observed,
         engine'[b].asked = engine[b].asked, engine'[b].said = engine[b].said,
         Told(stream[b], observed[b], attempt'[b], c),
         Kept(observed[b], attempt'[b], engine'[b], c),
         Fresh(observed[b], attempt'[b], engine'[b], c)
  PROVE  Streams'
<1>1. Streamed(Calls, stream[b], observed[b], attempt[b], engine[b], history[b])
  BY OfBranch
<1>2. Shows(stream[b], stream'[b], c) BY <1>1, ShowsNothing DEF Streamed
<1>3. \A d \in Calls : d # c =>
        Alike(observed[b], attempt[b], engine[b],
              observed'[b], attempt'[b], engine'[b], d)
  <2> SUFFICES ASSUME NEW d \in Calls \ {c}
               PROVE  Alike(observed[b], attempt[b], engine[b],
                            observed'[b], attempt'[b], engine'[b], d)
    OBVIOUS
  <2>1. observed'[b] = observed[b] OBVIOUS
  <2>2. /\ attempt'[b].at[d] = attempt[b].at[d]
        /\ d \in attempt'[b].ran <=> d \in attempt[b].ran
        /\ engine'[b].ledger[d] = engine[b].ledger[d]
        /\ engine'[b].answer[d] = engine[b].answer[d]
    OBVIOUS
  <2> QED BY <2>1, <2>2 DEF Alike
<1>4. DOMAIN observed'[b] = Controls BY <1>1 DEF Streamed
<1>5. DOMAIN stream' = Branch /\ DOMAIN observed' = Branch BY DEF Streams
<1> QED BY <1>2, <1>3, <1>4, <1>5, OneCallStreams

LEMMA ExecuteStreams ==
  ASSUME Shape, Streams, NEW b \in Branch, NEW c \in Calls, Execute(b, c)
  PROVE  Streams'
<1>1. /\ Streamed(Calls, stream[b], observed[b], attempt[b], engine[b], history[b])
      /\ attempt[b] \in AttemptType /\ engine[b] \in EngineType
  BY OfBranch
<1>2. /\ Told(stream[b], observed[b], attempt[b], c)
      /\ Kept(observed[b], attempt[b], engine[b], c)
      /\ Fresh(observed[b], attempt[b], engine[b], c)
  BY <1>1 DEF Streamed
<1>3. attempt[b].mode = "running" /\ attempt[b].at[c] = "let"
  BY DEF Execute, Turn, Ready
<1>4. /\ c \in observed[b].announced /\ c \notin observed[b].answered
      /\ Called(stream[b], c) /\ Acts(observed[b], c) = {}
      /\ c \notin attempt[b].ran
  BY <1>2, <1>3 DEF Told, Kept
<1>5. /\ made' = made /\ history' = history /\ stream' = stream
      /\ observed' = observed
  BY DEF Execute
<1>6. /\ attempt'[b].at[c] = "ran" /\ attempt'[b].kind = attempt[b].kind
      /\ attempt'[b].mode = attempt[b].mode
      /\ attempt'[b].ran = IF Recorded(b, c) THEN attempt[b].ran
                           ELSE attempt[b].ran \cup {c}
      /\ \A d \in Calls \ {c} : attempt'[b].at[d] = attempt[b].at[d]
      /\ \A d \in Branch \ {b} : attempt'[d] = attempt[d]
  <2>1. CASE Recorded(b, c)
    <3>1. attempt' = [attempt EXCEPT ![b].at[c] = "ran"] BY <2>1 DEF Execute
    <3> QED BY <1>1, <2>1, <3>1 DEF Shape, AttemptType
  <2>2. CASE ~Recorded(b, c)
    <3>1. attempt' = [attempt EXCEPT ![b].at[c] = "ran", ![b].ran = @ \cup {c}]
      BY <2>2 DEF Execute
    <3> QED BY <1>1, <2>2, <3>1 DEF Shape, AttemptType
  <2> QED BY <2>1, <2>2
<1>7. /\ engine'[b].asked = engine[b].asked /\ engine'[b].said = engine[b].said
      /\ engine'[b].answer = engine[b].answer
      /\ engine'[b].ledger[c] # NoResult
      /\ \A d \in Calls \ {c} : engine'[b].ledger[d] = engine[b].ledger[d]
      /\ \A d \in Branch \ {b} : engine'[d] = engine[d]
  <2>1. CASE Recorded(b, c)
    <3>1. engine' = engine BY <2>1 DEF Execute
    <3> QED BY <2>1, <3>1 DEF Recorded
  <2>2. CASE ~Recorded(b, c)
    <3> DEFINE o == raw(engine[b].called[c])
    <3>1. engine' = [engine EXCEPT ![b].ledger[c] = o] BY <2>2 DEF Execute
    <3>2. o # NoResult BY RawIsOriginal
    <3> HIDE DEF o
    <3> HIDE DEF raw, NoResult
    <3> QED BY <1>1, <3>1, <3>2 DEF Shape, EngineType
  <2> QED BY <2>1, <2>2
<1>8. Told(stream[b], observed[b], attempt'[b], c) BY <1>4, <1>6 DEF Told
<1>9. Kept(observed[b], attempt'[b], engine'[b], c)
  <2>1. c \in attempt'[b].ran => c \notin observed[b].replayed
    BY <1>2, <1>4, <1>6 DEF Kept, Recorded
  <2> QED BY <1>2, <1>4, <1>6, <1>7, <2>1 DEF Kept
<1>10. Fresh(observed[b], attempt'[b], engine'[b], c)
  <2>1. attempt[b].kind # "resume" /\ c \notin attempt'[b].ran =>
          c \in observed[b].replayed
    BY <1>2, <1>3, <1>6 DEF Fresh, Recorded
  <2> QED BY <1>6, <2>1 DEF Fresh
<1>11. \A d \in Calls \ {c} : d \in attempt'[b].ran <=> d \in attempt[b].ran
  BY <1>6
<1> QED BY <1>3, <1>5, <1>6, <1>7, <1>8, <1>9, <1>10, <1>11, PlaceStreams

LEMMA ReplayStreams ==
  ASSUME Shape, Streams, NEW b \in Branch, NEW c \in Calls, Replay(b, c)
  PROVE  Streams'
<1>1. /\ Streamed(Calls, stream[b], observed[b], attempt[b], engine[b], history[b])
      /\ attempt[b] \in AttemptType
  BY OfBranch
<1>2. /\ Told(stream[b], observed[b], attempt[b], c)
      /\ Kept(observed[b], attempt[b], engine[b], c)
  BY <1>1 DEF Streamed
<1>3. attempt[b].mode = "running" /\ attempt[b].at[c] = "todo"
  BY DEF Replay, Turn, Ready
<1>4. /\ c \notin observed[b].announced /\ c \notin observed[b].answered
      /\ Blank(stream[b], c) /\ Acts(observed[b], c) = {}
      /\ c \notin attempt[b].ran
  BY <1>2, <1>3, TodoIsBlank DEF Kept
<1>5. /\ made' = made /\ history' = history /\ stream' = stream
      /\ observed' = observed /\ engine' = engine
  BY DEF Replay
<1>6. /\ attempt'[b].at[c] = "ran" /\ attempt'[b].kind = attempt[b].kind
      /\ attempt'[b].mode = attempt[b].mode
      /\ attempt'[b].ran = attempt[b].ran
      /\ \A d \in Calls \ {c} : attempt'[b].at[d] = attempt[b].at[d]
      /\ \A d \in Branch \ {b} : attempt'[d] = attempt[d]
  BY <1>1 DEF Replay, Shape, AttemptType
<1>7. Told(stream[b], observed[b], attempt'[b], c) BY <1>4, <1>6 DEF Told
<1>8. Kept(observed[b], attempt'[b], engine'[b], c)
  BY <1>2, <1>4, <1>5, <1>6 DEF Kept
<1>9. Fresh(observed[b], attempt'[b], engine'[b], c) BY <1>4, <1>6 DEF Fresh
<1> QED BY <1>3, <1>5, <1>6, <1>7, <1>8, <1>9, PlaceStreams

LEMMA BypassStreams ==
  ASSUME Shape, Streams, NEW b \in Branch, NEW c \in Calls, Bypass(b, c)
  PROVE  Streams'
<1>1. /\ Streamed(Calls, stream[b], observed[b], attempt[b], engine[b], history[b])
      /\ attempt[b] \in AttemptType /\ engine[b] \in EngineType
  BY OfBranch
<1>2. /\ Told(stream[b], observed[b], attempt[b], c)
      /\ Kept(observed[b], attempt[b], engine[b], c)
      /\ Fresh(observed[b], attempt[b], engine[b], c)
  BY <1>1 DEF Streamed
<1>3. attempt[b].mode = "running" /\ attempt[b].at[c] = "todo"
  BY DEF Bypass, Turn, Ready
<1>4. /\ c \notin observed[b].announced /\ c \notin observed[b].answered
      /\ Blank(stream[b], c) /\ Acts(observed[b], c) = {}
      /\ c \notin attempt[b].ran
  BY <1>2, <1>3, TodoIsBlank DEF Kept
<1>5. attempt[b].kind = "resume"
  <2>1. CASE engine[b].answer[c] # NoResult BY <1>2, <1>3, <2>1 DEF Fresh
  <2>2. CASE engine[b].said[c] = "deny" BY <1>1, <1>3, <2>2 DEF Streamed
  <2> QED BY <2>1, <2>2 DEF Bypass
<1>6. /\ made' = made /\ history' = history /\ stream' = stream
      /\ observed' = observed
  BY DEF Bypass
<1>7. /\ attempt'[b].at[c] = "answered" /\ attempt'[b].kind = attempt[b].kind
      /\ attempt'[b].mode = attempt[b].mode
      /\ attempt'[b].ran = attempt[b].ran
      /\ \A d \in Calls \ {c} : attempt'[b].at[d] = attempt[b].at[d]
      /\ \A d \in Branch \ {b} : attempt'[d] = attempt[d]
  BY <1>1 DEF Bypass, Shape, AttemptType
<1>8. /\ engine'[b].asked = engine[b].asked /\ engine'[b].said = engine[b].said
      /\ engine'[b].ledger = engine[b].ledger
      /\ engine'[b].answer[c] \in Result \cup Refusal
      /\ \A d \in Calls \ {c} : engine'[b].answer[d] = engine[b].answer[d]
      /\ \A d \in Branch \ {b} : engine'[d] = engine[d]
  <2> DEFINE r == IF engine[b].answer[c] = NoResult
                  THEN result("refused", FALSE, "control") ELSE engine[b].answer[c]
  <2>1. engine' = [engine EXCEPT ![b].answer[c] = r] BY <1>1 DEF Bypass
  <2>2. r \in Result \cup Refusal BY <1>2 DEF Kept, Refusal
  <2> HIDE DEF r
  <2> QED BY <1>1, <2>1, <2>2 DEF Shape, EngineType
<1>9. Told(stream[b], observed[b], attempt'[b], c) BY <1>4, <1>7 DEF Told
<1>10. Kept(observed[b], attempt'[b], engine'[b], c)
  BY <1>2, <1>4, <1>7, <1>8 DEF Kept
<1>11. Fresh(observed[b], attempt'[b], engine'[b], c) BY <1>5, <1>7 DEF Fresh
<1> QED BY <1>3, <1>6, <1>7, <1>8, <1>9, <1>10, <1>11, PlaceStreams

(* What an answer emits. *)
LEMMA AnswerEmits ==
  ASSUME NEW s, NEW c, IsStream(s), NEW r, NEW first,
         \/ first = <<>> /\ Called(s, c)
         \/ first = <<CallEvent(c)>> /\ Blank(s, c),
         NEW es, NEW t, t = projected(s, es),
         es = first \o <<ResultHook(c, r), ResultEvent(c, TRUE, r),
                         hook("context_injected", c)>>
  PROVE  Shows(s, t, c) /\ Answered(t, c, r)
<1> DEFINE call == CallEvent(c)
           back == ResultHook(c, r)
           answer == ResultEvent(c, TRUE, r)
           known == hook("context_injected", c)
           E == {call, back, answer, known}
           d == <<back, answer, known>>
<1>1. es = first \o d OBVIOUS
<1>2. first = <<>> \/ first = <<call>> OBVIOUS
<1> HIDE DEF call, back, answer, known
<1>3. call \in E /\ back \in E /\ answer \in E /\ known \in E OBVIOUS
<1> HIDE DEF E
<1>4. d \in Seq(E) /\ Len(d) = 3 /\ d[1] = back /\ d[2] = answer /\ d[3] = known
  BY <1>3, Tuples
<1> HIDE DEF d
<1>5. PICK m \in {0, 1} :
        /\ first \in Seq(E) /\ Len(first) = m
        /\ m = 0 => Called(s, c)
        /\ m = 1 => Blank(s, c) /\ first[1] = call
  <2>1. CASE first = <<>> /\ Called(s, c)
    <3>1. first \in Seq(E) /\ Len(first) = 0 BY <2>1
    <3> QED BY <2>1, <3>1
  <2>2. CASE first = <<call>> /\ Blank(s, c)
    <3>1. <<call>> \in Seq(E) /\ Len(<<call>>) = 1 /\ <<call>>[1] = call
      BY <1>3, Tuples
    <3> QED BY <2>2, <3>1
  <2> QED BY <2>1, <2>2 DEF call
<1>6. /\ es \in Seq(E) /\ Len(es) = m + 3
      /\ \A i \in 1..m : es[i] = first[i]
      /\ \A i \in 1..3 : es[m + i] = d[i]
  <2>1. /\ first \o d \in Seq(E) /\ Len(first \o d) = Len(first) + Len(d)
        /\ \A i \in 1..Len(first) : (first \o d)[i] = first[i]
        /\ \A i \in 1..Len(d) : (first \o d)[Len(first) + i] = d[i]
    <3>1. first \in Seq(E) /\ d \in Seq(E) BY <1>4, <1>5
    <3> QED BY ONLY <3>1, Joined
  <2> QED BY <1>1, <1>4, <1>5, <2>1
<1>7. Replies(es, c, m, r)
  <2>1. 1 \in 1..3 /\ 2 \in 1..3 /\ 3 \in 1..3 /\ (m = 1 => 1 \in 1..m) OBVIOUS
  <2>2. es[m + 1] = d[1] /\ es[m + 2] = d[2] /\ es[m + 3] = d[3] BY <1>6, <2>1
  <2>3. m = 1 => es[1] = call BY <1>5, <1>6, <2>1
  <2> QED BY <1>4, <1>6, <2>2, <2>3 DEF Replies, call, back, answer, known
<1> QED BY <1>5, <1>6, <1>7, AnswerIsShown

LEMMA MissingEmits ==
  ASSUME NEW s, NEW c, IsStream(s), Blank(s, c), NEW r,
         NEW executed \in BOOLEAN, r.text # "asked",
         NEW es, NEW t, t = projected(s, es),
         es = <<CallEvent(c)>> \o <<ResultEvent(c, executed, r),
                                    hook("context_injected", c)>>
  PROVE  Shows(s, t, c) /\ Plain(t, c, r)
<1> DEFINE call == CallEvent(c)
           answer == ResultEvent(c, executed, r)
           known == hook("context_injected", c)
           E == {call, answer, known}
           first == <<call>>
           d == <<answer, known>>
<1>1. es = first \o d OBVIOUS
<1> HIDE DEF call, answer, known
<1>2. call \in E /\ answer \in E /\ known \in E OBVIOUS
<1> HIDE DEF E
<1>3. /\ d \in Seq(E) /\ Len(d) = 2 /\ d[1] = answer /\ d[2] = known
      /\ first \in Seq(E) /\ Len(first) = 1 /\ first[1] = call
  BY <1>2, Tuples
<1> HIDE DEF d, first
<1>4. /\ es \in Seq(E) /\ Len(es) = 3
      /\ es[1] = call /\ es[1 + 1] = answer /\ es[1 + 2] = known
  <2>1. /\ first \o d \in Seq(E) /\ Len(first \o d) = Len(first) + Len(d)
        /\ \A i \in 1..Len(first) : (first \o d)[i] = first[i]
        /\ \A i \in 1..Len(d) : (first \o d)[Len(first) + i] = d[i]
    <3>1. first \in Seq(E) /\ d \in Seq(E) BY <1>3
    <3> QED BY ONLY <3>1, Joined
  <2>2. 1 \in 1..Len(first) /\ 1 \in 1..Len(d) /\ 2 \in 1..Len(d) BY <1>3
  <2> QED BY <1>1, <1>3, <2>1, <2>2
<1>5. es[2] = answer /\ es[3] = known BY <1>4
<1>6. Reports(es, c, executed, r)
  BY <1>4, <1>5 DEF Reports, call, answer, known
<1> QED BY <1>4, <1>6, MissingIsShown

(* Who is told: any unit of those that acted will do. *)
LEMMA ShutFor ==
  ASSUME NEW s, NEW c, NEW r, NEW us, Shut(s, c, r, us),
         NEW U, U # {} => us # {} /\ us \subseteq U
  PROVE  Shut(s, c, r, U)
<1>1. PICK i \in DOMAIN s.rows, j \in DOMAIN s.rows :
        /\ Marks(s, "call", c) = {i} /\ Marks(s, "result", c) = {j} /\ i < j
        /\ s.rows[j].result = r
        /\ us # {} => \E k \in DOMAIN s.rows :
                        /\ Marks(s, "unit", c) = {k} /\ s.rows[k].unit \in us
                        /\ k < j
  BY DEF Shut
<1>2. U # {} => \E k \in DOMAIN s.rows :
                  /\ Marks(s, "unit", c) = {k} /\ s.rows[k].unit \in U
                  /\ k < j
  BY <1>1
<1> QED BY <1>1, <1>2 DEF Shut

(* The units of an attempt that runs are strings, its records originals. *)
LEMMA AttemptUnits ==
  ASSUME IInv, Originals, NEW b \in Branch, NEW c \in Calls,
         attempt[b].mode # "idle"
  PROVE  session[b].units \in Seq(STRING) /\ engine[b].ledger[c] \in Result
<1>1. session[b].units \in Selections \cup {<<"unused">>}
  BY DEF IInv, Shape, SessionType
<1>2. session[b].units # <<"unused">> BY DEF IInv, Lines, Unused
<1>3. session[b].units \in Seq(STRING) BY <1>1, <1>2, SelectionsAreLists
<1>4. engine[b].ledger[c] \in Result BY RawIsOriginal DEF Originals, Original
<1> QED BY <1>3, <1>4

LEMMA PostToolUseStreams ==
  ASSUME IInv, Originals, Streams, NEW b \in Branch, NEW c \in Calls,
         PostToolUse(b, c)
  PROVE  Streams'
<1>1. Shape BY DEF IInv
<1>2. /\ Streamed(Calls, stream[b], observed[b], attempt[b], engine[b], history[b])
      /\ attempt[b] \in AttemptType /\ engine[b] \in EngineType
      /\ b \in DOMAIN stream /\ b \in DOMAIN observed
  BY <1>1, OfBranch
<1>3. /\ Told(stream[b], observed[b], attempt[b], c)
      /\ Kept(observed[b], attempt[b], engine[b], c)
      /\ Fresh(observed[b], attempt[b], engine[b], c)
      /\ IsStream(stream[b]) /\ DOMAIN observed[b] = Controls
  BY <1>2 DEF Streamed
<1>4. attempt[b].mode = "running" /\ attempt[b].at[c] = "ran"
  BY DEF PostToolUse, Turn, Ready
<1>5. /\ c \notin observed[b].answered /\ Acts(observed[b], c) = {}
      /\ c \in observed[b].announced => Called(stream[b], c)
      /\ c \notin observed[b].announced => Blank(stream[b], c)
  BY <1>3, <1>4 DEF Told
<1> DEFINE u == session[b].units
           record == engine[b].ledger[c]
           j == Journal(u, record)
           r == [j EXCEPT !.replayed = replays(b, c)]
           U == Changing(u, record)
<1>6. u \in Seq(STRING) /\ record \in Result BY <1>4, AttemptUnits
<1>7. j \in Result BY <1>6, JournalType
<1>8. /\ r \in Result /\ r.text # "asked"
      /\ r.replayed = replays(b, c) /\ r.redacted_by = j.redacted_by
  <2> HIDE DEF j
  <2>1. replays(b, c) \in BOOLEAN BY DEF replays
  <2> QED BY <1>7, <2>1 DEF Result
<1>9. U # {} => j.redacted_by \in U /\ j.redacted_by # "none"
  BY <1>6, RewriterIsNamed
<1> DEFINE es == _announce(b, c)
                   \o <<ResultHook(c, r), ResultEvent(c, TRUE, r),
                        hook("context_injected", c)>>
<1>10. /\ stream' = [stream EXCEPT ![b] = projected(@, es)]
       /\ observed'[b].announced = observed[b].announced \cup {c}
       /\ observed'[b].answered = observed[b].answered \cup {c}
       /\ observed'[b].replayed = observed[b].replayed
       /\ observed'[b].acted = observed[b].acted \cup {<<c, v>> : v \in U}
       /\ DOMAIN observed'[b] = Controls
       /\ attempt' = [attempt EXCEPT ![b].at[c] = "answered"]
       /\ engine' = [engine EXCEPT
            ![b].answer[c] = r, ![b].ledger[c] = recorded(@, r)]
       /\ made' = made /\ history' = history
       /\ DOMAIN observed' = Branch
       /\ \A d \in Branch \ {b} : observed'[d] = observed[d]
  <2>1. stream' = [stream EXCEPT ![b] = projected(@, es)]
    BY Zenon DEF PostToolUse, emit, ResultHook, ResultEvent
  <2> HIDE DEF es
  <2>2. /\ observed' = [observed EXCEPT
             ![b].results = [observed[b].results EXCEPT ![c] = r],
             ![b].announced = @ \cup {c},
             ![b].answered = @ \cup {c},
             ![b].acted = @ \cup {<<c, v>> : v \in U}]
        /\ attempt' = [attempt EXCEPT ![b].at[c] = "answered"]
        /\ engine' = [engine EXCEPT ![b].answer[c] = r,
                                    ![b].ledger[c] = recorded(@, r)]
        /\ made' = made /\ history' = history
    BY DEF PostToolUse
  <2> HIDE DEF r, U
  <2> QED BY <1>2, <1>3, <2>1, <2>2 DEF Controls, Streams
<1> HIDE DEF r, U, j
<1>11. Shows(stream[b], stream'[b], c) /\ Answered(stream'[b], c, r)
  <2>1. \/ _announce(b, c) = <<>> /\ Called(stream[b], c)
        \/ _announce(b, c) = <<CallEvent(c)>> /\ Blank(stream[b], c)
    BY <1>5 DEF _announce, CallEvent
  <2>2. es = _announce(b, c) \o <<ResultHook(c, r), ResultEvent(c, TRUE, r),
                                  hook("context_injected", c)>>
    OBVIOUS
  <2> HIDE DEF es
  <2>3. stream'[b] = projected(stream[b], es) BY <1>2, <1>10
  <2> QED BY <1>3, <2>1, <2>2, <2>3, AnswerEmits
<1>12. /\ Acts(observed'[b], c) = U
       /\ \A d : d # c => Acts(observed'[b], d) = Acts(observed[b], d)
       /\ \A x \in observed'[b].acted :
            x \in observed[b].acted \/ (x[1] = c /\ x = <<x[1], x[2]>>)
  <2>1. Gains(observed[b], observed'[b], c, U) BY <1>10 DEF Gains
  <2>2. /\ Acts(observed'[b], c) = Acts(observed[b], c) \cup U
        /\ \A d : d # c => Acts(observed'[b], d) = Acts(observed[b], d)
        /\ \A x \in observed'[b].acted :
             x \in observed[b].acted \/ (x[1] = c /\ x = <<x[1], x[2]>>)
    BY <2>1, ActsGrow
  <2> QED BY <1>5, <2>2
<1>13. /\ attempt'[b].at[c] = "answered" /\ attempt'[b].kind = attempt[b].kind
       /\ attempt'[b].mode = attempt[b].mode
       /\ attempt'[b].ran = attempt[b].ran
       /\ \A d \in Calls \ {c} : attempt'[b].at[d] = attempt[b].at[d]
       /\ \A d \in Branch \ {b} : attempt'[d] = attempt[d]
  BY <1>1, <1>2, <1>10 DEF Shape, AttemptType
<1>14. /\ engine'[b].asked = engine[b].asked /\ engine'[b].said = engine[b].said
       /\ engine'[b].ledger = engine[b].ledger
       /\ engine'[b].answer[c] = r
       /\ \A d \in Calls \ {c} : engine'[b].answer[d] = engine[b].answer[d]
       /\ \A d \in Branch \ {b} : engine'[d] = engine[d]
  BY <1>1, <1>2, <1>10 DEF Shape, EngineType, recorded
<1>15. \A d \in Calls : d # c =>
         Alike(observed[b], attempt[b], engine[b],
               observed'[b], attempt'[b], engine'[b], d)
  BY <1>10, <1>12, <1>13, <1>14 DEF Alike
<1>16. Told(stream'[b], observed'[b], attempt'[b], c)
  <2>1. U # {} => Rewriter(r) # {} /\ Rewriter(r) \subseteq U
    BY <1>8, <1>9 DEF Rewriter
  <2>2. Shut(stream'[b], c, r, Rewriter(r)) BY <1>11 DEF Answered
  <2>3. Shut(stream'[b], c, r, Acts(observed'[b], c))
    BY <1>12, <2>1, <2>2, ShutFor
  <2>4. IsTrue(attempt'[b], c, r)
    <3>1. r.replayed => c \notin attempt[b].ran
      BY <1>3, <1>8 DEF Kept, replays
    <3>2. attempt[b].kind # "resume" /\ c \notin attempt[b].ran => r.replayed
      BY <1>3, <1>4, <1>8 DEF Fresh, replays
    <3> QED BY <1>13, <3>1, <3>2 DEF IsTrue
  <2>5. c \in observed'[b].announced /\ c \in observed'[b].answered BY <1>10
  <2> QED BY <1>13, <2>3, <2>4, <2>5 DEF Told
<1>17. Kept(observed'[b], attempt'[b], engine'[b], c)
  BY <1>3, <1>8, <1>10, <1>13, <1>14 DEF Kept
<1>18. Fresh(observed'[b], attempt'[b], engine'[b], c)
  BY <1>10, <1>13 DEF Fresh
<1>19. /\ DOMAIN stream' = Branch
       /\ \A d \in Branch \ {b} : stream'[d] = stream[d]
  <2> HIDE DEF es
  <2> QED BY <1>10 DEF Streams
<1>20. /\ made' = made /\ history' = history
       /\ DOMAIN observed' = Branch /\ DOMAIN observed'[b] = Controls
       /\ \A d \in Branch \ {b} : observed'[d] = observed[d]
  BY <1>10
<1> QED BY <1>1, <1>4, <1>11, <1>12, <1>13, <1>14, <1>15, <1>16, <1>17, <1>18,
           <1>19, <1>20, OneCallStreams

LEMMA ProjectMissingStreams ==
  ASSUME Shape, Streams, NEW b \in Branch, NEW c \in Calls, ProjectMissing(b, c)
  PROVE  Streams'
<1>1. /\ Streamed(Calls, stream[b], observed[b], attempt[b], engine[b], history[b])
      /\ b \in DOMAIN stream /\ b \in DOMAIN observed
  BY OfBranch
<1>2. /\ Told(stream[b], observed[b], attempt[b], c)
      /\ Kept(observed[b], attempt[b], engine[b], c)
      /\ Fresh(observed[b], attempt[b], engine[b], c)
      /\ IsStream(stream[b]) /\ DOMAIN observed[b] = Controls
  BY <1>1 DEF Streamed
<1>3. attempt[b].mode = "finishing" BY DEF ProjectMissing
<1>4. attempt[b].at[c] = "answered" /\ c \notin observed[b].answered
  BY <1>1, <1>3, PendingIs DEF Streamed, ProjectMissing, missing
<1>5. /\ c \notin observed[b].announced /\ Blank(stream[b], c)
      /\ Acts(observed[b], c) = {} /\ c \notin attempt[b].ran
      /\ attempt[b].kind = "resume"
  BY <1>2, <1>4 DEF Told, Kept, Fresh
<1> DEFINE executed == Recorded(b, c)
           r == [engine[b].answer[c] EXCEPT !.replayed = executed]
           es == <<CallEvent(c)>> \o <<ResultEvent(c, executed, r),
                                       hook("context_injected", c)>>
<1>6. r.text # "asked"
  <2>1. engine[b].answer[c] \in Result \cup Refusal BY <1>2 DEF Kept
  <2>2. \A x \in Result \cup Refusal :
          x.text # "asked" /\ \A e : [x EXCEPT !.replayed = e].text = x.text
    BY DEF Result, Refusal, result
  <2> QED BY <2>1, <2>2
<1>7. /\ stream' = [stream EXCEPT ![b] = projected(@, es)]
      /\ observed' = [observed EXCEPT ![b].announced = @ \cup {c},
                                      ![b].answered = @ \cup {c}]
      /\ made' = made /\ history' = history /\ engine' = engine
      /\ attempt' = attempt
  <2>1. _announce(b, c) = <<CallEvent(c)>> BY <1>5 DEF _announce, CallEvent
  <2> QED BY <2>1, Zenon DEF ProjectMissing, emit, ResultEvent
<1>8. es = <<CallEvent(c)>> \o <<ResultEvent(c, executed, r),
                                 hook("context_injected", c)>>
  OBVIOUS
<1>9. executed \in BOOLEAN BY DEF Recorded
<1> HIDE DEF es, r, executed
<1>10. /\ observed'[b].announced = observed[b].announced \cup {c}
       /\ observed'[b].answered = observed[b].answered \cup {c}
       /\ observed'[b].replayed = observed[b].replayed
       /\ observed'[b].acted = observed[b].acted
       /\ DOMAIN observed'[b] = Controls /\ DOMAIN observed' = Branch
       /\ \A d \in Branch \ {b} : observed'[d] = observed[d]
  BY <1>1, <1>2, <1>7 DEF Controls, Streams
<1>11. /\ stream'[b] = projected(stream[b], es) /\ DOMAIN stream' = Branch
       /\ \A d \in Branch \ {b} : stream'[d] = stream[d]
  BY <1>1, <1>7 DEF Streams
<1>12. Shows(stream[b], stream'[b], c) /\ Plain(stream'[b], c, r)
  BY <1>2, <1>5, <1>6, <1>8, <1>9, <1>11, MissingEmits
<1>13. \A d : Acts(observed'[b], d) = Acts(observed[b], d) BY <1>10 DEF Acts
<1>14. \A d \in Calls : d # c =>
         Alike(observed[b], attempt[b], engine[b],
               observed'[b], attempt'[b], engine'[b], d)
  BY <1>7, <1>10, <1>13 DEF Alike
<1>15. Told(stream'[b], observed'[b], attempt'[b], c)
  <2>1. Shut(stream'[b], c, r, Acts(observed'[b], c))
    BY <1>5, <1>12, <1>13 DEF Plain
  <2>2. IsTrue(attempt'[b], c, r) BY <1>5, <1>7 DEF IsTrue
  <2>3. c \in observed'[b].announced /\ c \in observed'[b].answered BY <1>10
  <2> QED BY <1>4, <1>7, <2>1, <2>2, <2>3 DEF Told
<1>16. Kept(observed'[b], attempt'[b], engine'[b], c)
  BY <1>2, <1>5, <1>7, <1>10 DEF Kept
<1>17. Fresh(observed'[b], attempt'[b], engine'[b], c)
  BY <1>5, <1>7 DEF Fresh
<1> QED BY <1>3, <1>7, <1>10, <1>11, <1>12, <1>14, <1>15, <1>16, <1>17,
           OneCallStreams

----------------------------------------------------------------------------
(* All steps, and what follows. *)

LEMMA SameStreams == ASSUME Streams, UNCHANGED vars PROVE Streams'
<1>1. /\ made' = made /\ stream' = stream /\ observed' = observed
      /\ attempt' = attempt /\ engine' = engine /\ history' = history
  BY DEF vars
<1>2. Calls' = Calls BY <1>1 DEF Calls
<1> QED BY <1>1, <1>2 DEF Streams, Branch

LEMMA StreamsStep == IInv /\ Originals /\ Streams /\ [Next]_vars => Streams'
<1> SUFFICES ASSUME IInv, Originals, Streams, [Next]_vars PROVE Streams'
  OBVIOUS
<1>1. Shape /\ Lines BY DEF IInv
<1>2. CASE UNCHANGED vars BY <1>2, SameStreams
<1>3. CASE Request BY <1>1, <1>3, RequestStreams
<1>4. ASSUME NEW b \in Branch, NEW c \in Calls, Hook(b, c) PROVE Streams'
  BY <1>1, <1>4, PreToolUseStreams, OnResumeStreams, ExecuteStreams, ReplayStreams,
     PostToolUseStreams, BypassStreams, ProjectMissingStreams DEF Hook
<1>5. ASSUME NEW b \in Branch,
             Open(b) \/ Suspend(b) \/ StayParked(b) \/ Finish(b) \/ Outcome(b)
      PROVE  Streams'
  BY <1>1, <1>5, OpenStreams, SuspendStreams, ParkStreams, FinishStreams,
     OutcomeStreams
<1> QED BY <1>2, <1>3, <1>4, <1>5 DEF Next

(* In every version, what a stream has shown of a call agrees with where    *)
(* the call stands, with what its hooks remember and with the records.      *)
THEOREM StreamsAgree == Spec => []Streams
<1> QED BY InitStreams, StreamsStep, Always, AlwaysOriginal, PTL DEF Spec

LEMMA RowsAreMarks ==
  ASSUME NEW b, NEW kind, NEW c
  PROVE  rowsOf(b, kind, c) = Marks(stream[b], kind, c)
BY DEF rowsOf, Marks

LEMMA OneMark == ASSUME NEW i PROVE Cardinality({i}) = 1
BY FS_Singleton

(* Of a call that is told: where it stands when the attempt is over. *)
LEMMA AnswerIsKept ==
  ASSUME Streams, NEW b \in Branch, attempt[b].mode = "done",
         NEW c \in Pending(b)
  PROVE  /\ c \in Calls /\ c \in observed[b].answered
         /\ \E r : Shut(stream[b], c, r, Acts(observed[b], c))
<1>1. Streamed(Calls, stream[b], observed[b], attempt[b], engine[b], history[b])
  BY DEF Streams
<1>2. c \in PendingIn(history[b]) BY PendingIs
<1>3. c \in Calls /\ attempt[b].at[c] = "answered" /\ c \in observed[b].answered
  BY <1>1, <1>2 DEF Streamed
<1>4. Told(stream[b], observed[b], attempt[b], c) BY <1>1, <1>3 DEF Streamed
<1> QED BY <1>3, <1>4 DEF Told

(* When a version is done its last stream has shown each call it resumed    *)
(* once, and behind it one answer (OneAnswerIsShown).                       *)
THEOREM OneAnswerIsKept == Spec => []OneAnswerIsShown
<1>1. Streams => OneAnswerIsShown
  <2> SUFFICES ASSUME Streams, NEW b \in Branch, attempt[b].mode = "done",
                      NEW c \in Pending(b)
               PROVE  LET cards == rowsOf(b, "call", c)
                          answers == rowsOf(b, "result", c)
                      IN  /\ Cardinality(cards) = 1 /\ Cardinality(answers) = 1
                          /\ \A i \in cards, j \in answers : i < j
    BY DEF OneAnswerIsShown
  <2>1. PICK r : Shut(stream[b], c, r, Acts(observed[b], c)) BY AnswerIsKept
  <2>2. PICK i, j : /\ rowsOf(b, "call", c) = {i} /\ rowsOf(b, "result", c) = {j}
                    /\ i < j
    BY <2>1, RowsAreMarks DEF Shut
  <2> QED BY <2>2, OneMark
<1> QED BY <1>1, StreamsAgree, PTL

(* What a unit does to a call is told once in the stream it does it in, by  *)
(* a unit that did, and ahead of the answer it led to (ActsAreTold).        *)
THEOREM ActsAreKept == Spec => []ActsAreTold
<1>1. Streams => ActsAreTold
  <2> SUFFICES ASSUME Streams, NEW b \in Branch,
                      attempt[b].mode \in {"parked", "done"},
                      NEW c \in {a[1] : a \in observed[b].acted}
               PROVE  LET told == rowsOf(b, "unit", c)
                      IN  /\ Cardinality(told) = 1
                          /\ \A i \in told :
                               /\ <<c, stream[b].rows[i].unit>> \in observed[b].acted
                               /\ \A j \in rowsOf(b, "result", c) : i < j
    BY Zenon DEF ActsAreTold
  <2> DEFINE us == Acts(observed[b], c)
  <2>1. Streamed(Calls, stream[b], observed[b], attempt[b], engine[b], history[b])
    BY DEF Streams
  <2>2. \A x \in observed[b].acted : x[1] \in Calls /\ x = <<x[1], x[2]>>
    BY <2>1 DEF Streamed
  <2>3. c \in Calls /\ us # {} /\ \A u \in us : <<c, u>> \in observed[b].acted
    BY <2>2 DEF Acts
  <2>4. Told(stream[b], observed[b], attempt[b], c) BY <2>1, <2>3 DEF Streamed
  <2>5. c \in observed[b].answered BY <2>3, <2>4 DEF Told
  <2> HIDE DEF us
  <2>6. PICK k : /\ rowsOf(b, "unit", c) = {k} /\ stream[b].rows[k].unit \in us
                 /\ \A j \in rowsOf(b, "result", c) : k < j
    <3>1. CASE Asked(stream[b], c) /\ "approval" \in us
      <4>1. PICK k \in DOMAIN stream[b].rows :
              /\ Marks(stream[b], "unit", c) = {k}
              /\ stream[b].rows[k].unit = "approval"
        BY <3>1 DEF Asked, HasUnit
      <4>2. rowsOf(b, "result", c) = {} BY <3>1, RowsAreMarks DEF Asked
      <4> QED BY <3>1, <4>1, <4>2, RowsAreMarks
    <3>2. CASE \E r : Shut(stream[b], c, r, us)
      <4>1. PICK r : Shut(stream[b], c, r, us) BY <3>2
      <4>2. PICK j, k : /\ Marks(stream[b], "result", c) = {j}
                        /\ Marks(stream[b], "unit", c) = {k}
                        /\ stream[b].rows[k].unit \in us /\ k < j
        BY <2>3, <4>1 DEF Shut, us
      <4> QED BY <4>2, RowsAreMarks
    <3> QED BY <2>4, <2>5, <3>1, <3>2 DEF Told, us
  <2> QED BY <2>3, <2>6, OneMark
<1> QED BY <1>1, StreamsAgree, PTL

(* The replay mark of an answer is true (MarksAreTrue).                     *)
THEOREM MarksAreKept == Spec => []MarksAreTrue
<1>1. Streams => MarksAreTrue
  <2> SUFFICES ASSUME Streams, NEW b \in Branch, attempt[b].mode = "done",
                      NEW c \in Calls, NEW i \in rowsOf(b, "result", c)
               PROVE  IsTrue(attempt[b], c, stream[b].rows[i].result)
    BY DEF MarksAreTrue, IsTrue
  <2>1. Told(stream[b], observed[b], attempt[b], c) BY DEF Streams, Streamed
  <2>2. i \in Marks(stream[b], "result", c) BY RowsAreMarks
  <2>3. PICK r : /\ Shut(stream[b], c, r, Acts(observed[b], c))
                 /\ IsTrue(attempt[b], c, r)
    <3>1. Marks(stream[b], "result", c) # {} BY <2>2
    <3> QED BY <2>1, <3>1 DEF Told, Blank, Called, Asked
  <2>4. stream[b].rows[i].result = r BY <2>2, <2>3 DEF Shut
  <2> QED BY <2>3, <2>4
<1> QED BY <1>1, StreamsAgree, PTL

----------------------------------------------------------------------------
(* Native histories. A history that is complete, and one with its last      *)
(* response open, stand; a checkpoint of one that stands can cut its last   *)
(* response between the returns, and resume_history makes it stand again.   *)

(* No element of a sequence stands in it twice. *)
Once(s) == \A i, j \in DOMAIN s : s[i] = s[j] => i = j

LEMMA RangeIs ==
  ASSUME NEW D, NEW s \in Seq(D)
  PROVE  /\ Range(s) = {s[i] : i \in 1..Len(s)}
         /\ Range(s) \in SUBSET D
         /\ Range(s) = {} <=> s = <<>>
<1>1. Range(s) = {s[i] : i \in 1..Len(s)} BY RangeEquality
<1>2. Range(s) \in SUBSET D BY RangeOfSeq
<1>3. Len(s) \in Nat /\ (s # <<>> => Len(s) # 0) /\ Len(<<>>) = 0
  BY LenProperties, EmptySeq
<1>4. 1..Len(s) = {} <=> Len(s) = 0
  <2>1. \A n \in Nat : n # 0 => 1 \in 1..n OBVIOUS
  <2>2. 1..0 = {} OBVIOUS
  <2> QED BY <1>3, <2>1, <2>2
<1>5. {s[i] : i \in 1..Len(s)} = {} <=> 1..Len(s) = {} OBVIOUS
<1> QED BY <1>1, <1>2, <1>3, <1>4, <1>5

LEMMA MoreRange ==
  ASSUME NEW D, NEW s \in Seq(D), NEW d \in D
  PROVE  Range(Append(s, d)) = Range(s) \cup {d}
<1>1. Append(s, d) \in Seq(D) /\ Len(Append(s, d)) = Len(s) + 1 BY AppendProperties
<1>2. /\ \A i \in 1..Len(s) : Append(s, d)[i] = s[i]
      /\ Append(s, d)[Len(s) + 1] = d
  BY AppendProperties
<1>3. Len(s) \in Nat BY LenProperties
<1>4. 1..(Len(s) + 1) = 1..Len(s) \cup {Len(s) + 1} BY <1>3
<1>5. Range(Append(s, d)) = {Append(s, d)[i] : i \in 1..(Len(s) + 1)}
  <2>1. \A q \in Seq(D) : Range(q) = {q[i] : i \in 1..Len(q)} BY RangeIs
  <2>2. Range(Append(s, d)) = {Append(s, d)[i] : i \in 1..Len(Append(s, d))}
    BY <1>1, <2>1, Zenon
  <2> QED BY <1>1, <2>2
<1>6. Range(s) = {s[i] : i \in 1..Len(s)} BY RangeIs
<1> QED BY <1>2, <1>4, <1>5, <1>6

LEMMA MoreOnce ==
  ASSUME NEW D, NEW s \in Seq(D), NEW d \in D, Once(s), d \notin Range(s)
  PROVE  Once(Append(s, d))
<1>1. /\ Len(Append(s, d)) = Len(s) + 1 /\ DOMAIN Append(s, d) = 1..(Len(s) + 1)
      /\ \A i \in 1..Len(s) : Append(s, d)[i] = s[i]
      /\ Append(s, d)[Len(s) + 1] = d /\ DOMAIN s = 1..Len(s) /\ Len(s) \in Nat
  BY AppendProperties, LenProperties
<1>2. \A i \in 1..Len(s) : s[i] # d BY RangeIs
<1> QED BY <1>1, <1>2 DEF Once

(* Two sequences that have nothing in common. *)
LEMMA JoinedOnce ==
  ASSUME NEW D, NEW s \in Seq(D), NEW t \in Seq(D)
  PROVE  Once(s \o t) <=> Once(s) /\ Once(t) /\ Range(s) \cap Range(t) = {}
<1> DEFINE m == Len(s)
           n == Len(t)
           q == s \o t
<1>1. /\ m \in Nat /\ n \in Nat /\ DOMAIN s = 1..m /\ DOMAIN t = 1..n /\ DOMAIN q = 1..(m + n)
      /\ \A i \in 1..m : q[i] = s[i]
      /\ \A i \in 1..n : q[m + i] = t[i]
  BY LenProperties, ConcatProperties
<1>2. Range(s) = {s[i] : i \in 1..m} /\ Range(t) = {t[i] : i \in 1..n} BY RangeIs
<1> HIDE DEF m, n, q
<1>3. ASSUME Once(q) PROVE Once(s) /\ Once(t) /\ Range(s) \cap Range(t) = {}
  <2>1. Once(s)
    <3> SUFFICES ASSUME NEW i \in 1..m, NEW j \in 1..m, s[i] = s[j] PROVE i = j
      BY <1>1 DEF Once
    <3>1. i \in 1..(m + n) /\ j \in 1..(m + n) /\ q[i] = q[j] BY <1>1
    <3> QED BY <1>1, <1>3, <3>1 DEF Once
  <2>2. Once(t)
    <3> SUFFICES ASSUME NEW i \in 1..n, NEW j \in 1..n, t[i] = t[j] PROVE i = j
      BY <1>1 DEF Once
    <3>1. m + i \in 1..(m + n) /\ m + j \in 1..(m + n) /\ q[m + i] = q[m + j] BY <1>1
    <3>2. m + i = m + j BY <1>1, <1>3, <3>1 DEF Once
    <3> QED BY <1>1, <3>2
  <2>3. ASSUME NEW i \in 1..m, NEW j \in 1..n, s[i] = t[j] PROVE FALSE
    <3>1. i \in 1..(m + n) /\ m + j \in 1..(m + n) /\ q[i] = q[m + j]
      BY <1>1, <2>3
    <3>2. i = m + j BY <1>1, <1>3, <3>1 DEF Once
    <3> QED BY <1>1, <3>2
  <2> QED BY <1>2, <2>1, <2>2, <2>3
<1>4. ASSUME Once(s), Once(t), Range(s) \cap Range(t) = {} PROVE Once(q)
  <2> SUFFICES ASSUME NEW i \in 1..(m + n), NEW j \in 1..(m + n), q[i] = q[j]
               PROVE  i = j
    BY <1>1 DEF Once
  <2>1. \A k \in 1..(m + n) : k \in 1..m \/ \E l \in 1..n : k = m + l
    <3> SUFFICES ASSUME NEW k \in 1..(m + n), k \notin 1..m
                 PROVE  \E l \in 1..n : k = m + l
      OBVIOUS
    <3>1. k - m \in 1..n /\ k = m + (k - m) BY <1>1
    <3> QED BY <3>1
  <2>2. CASE i \in 1..m /\ j \in 1..m BY <1>1, <1>4, <2>2 DEF Once
  <2>3. ASSUME NEW k \in 1..n, NEW l \in 1..n, i = m + k, j = m + l PROVE i = j
    <3>1. t[k] = t[l] BY <1>1, <2>3
    <3> QED BY <1>1, <1>4, <2>3, <3>1 DEF Once
  <2>4. ASSUME NEW k \in 1..n, i \in 1..m, j = m + k PROVE FALSE
    <3>1. s[i] = t[k] BY <1>1, <2>4
    <3>2. s[i] \in Range(s) /\ t[k] \in Range(t) BY <1>2, <2>4
    <3> QED BY <1>4, <3>1, <3>2
  <2>5. ASSUME NEW k \in 1..n, j \in 1..m, i = m + k PROVE FALSE
    <3>1. s[j] = t[k] BY <1>1, <2>5
    <3>2. s[j] \in Range(s) /\ t[k] \in Range(t) BY <1>2, <2>5
    <3> QED BY <1>4, <3>1, <3>2
  <2> QED BY <2>1, <2>2, <2>3, <2>4, <2>5
<1> QED BY <1>3, <1>4 DEF q

(* A sequence without repetitions is as long as its range is large. *)
LEMMA OnceCounts ==
  ASSUME NEW D, NEW s \in Seq(D), Once(s) PROVE Cardinality(Range(s)) = Len(s)
<1>1. Len(s) \in Nat /\ DOMAIN s = 1..Len(s) BY LenProperties
<1>2. Range(s) = {s[i] : i \in 1..Len(s)} BY RangeIs
<1>3. s \in [1..Len(s) -> Range(s)] BY <1>1, <1>2, LenProperties
<1>4. ExistsBijection(1..Len(s), Range(s))
  <2>1. s \in Injection(1..Len(s), Range(s))
    BY <1>1, <1>3 DEF Once, Injection, IsInjective
  <2>2. s \in Surjection(1..Len(s), Range(s))
    BY <1>2, <1>3 DEF Surjection
  <2> QED BY <2>1, <2>2 DEF ExistsBijection, Bijection
<1>5. IsFiniteSet(1..Len(s)) /\ Cardinality(1..Len(s)) = Len(s) BY <1>1, FS_Interval
<1> QED BY <1>4, <1>5, FS_Bijection

----------------------------------------------------------------------------
(* without *)

leave(acc, c, S) == IF c \in S THEN acc ELSE Append(acc, c)

(* The values without runs through. *)
Leaves(g, s, S) ==
  /\ g[0] = <<>>
  /\ \A i \in 1..Len(s) : g[i] = leave(g[i - 1], s[i], S)
  /\ without(s, S) = g[Len(s)]

LEMMA WithoutRuns ==
  ASSUME NEW D, NEW s \in Seq(D), NEW S
  PROVE  \E g \in [0..Len(s) -> Seq(D)] : Leaves(g, s, S)
<1> DEFINE n == Len(s)
           T == Seq(D)
           F == [p \in (1..n) \X T |->
                   leave(p[2], s[p[1]], S)]
           J(g) == g = [R \in SUBSET (1..n) |->
                          IF R = {} THEN <<>>
                          ELSE leave(g[R \ {Max(R)}], s[Max(R)], S)]
           it == CHOOSE g : J(g)
<1>1. n \in Nat /\ DOMAIN s = 1..n /\ (\A i \in 1..n : s[i] \in D) /\ <<>> \in T
  BY LenProperties, ElementOfSeq, EmptySeq
<1>2. F \in [(1..n) \X T -> T]
  <2>1. \A i \in 1..n : \A x \in T : Append(x, s[i]) \in T
    BY <1>1, AppendProperties
  <2> QED BY <2>1 DEF leave
<1>3. PICK g \in [SUBSET (1..n) -> T] : Solves(g, n, <<>>, F)
  <2> HIDE DEF F, n, T
  <2> QED BY <1>1, <1>2, FoldExists
<1>4. J(g)
  <2>1. \A R \in SUBSET (1..n) : R # {} =>
          F[<<Max(R), g[R \ {Max(R)}]>>] = leave(g[R \ {Max(R)}], s[Max(R)], S)
    <3> SUFFICES ASSUME NEW R \in SUBSET (1..n), R # {}
                 PROVE  <<Max(R), g[R \ {Max(R)}]>> \in (1..n) \X T
      OBVIOUS
    <3>1. Max(R) \in R BY <1>1, LargestIn
    <3> QED BY <3>1
  <2> HIDE DEF F, n, T
  <2>2. [R \in SUBSET (1..n) |->
           IF R = {} THEN <<>> ELSE F[<<Max(R), g[R \ {Max(R)}]>>]]
        = [R \in SUBSET (1..n) |->
             IF R = {} THEN <<>> ELSE leave(g[R \ {Max(R)}], s[Max(R)], S)]
    BY <2>1
  <2> QED BY <1>3, <2>2, Zenon DEF Solves
<1>5. J(it) BY <1>4, Zenon
<1>6. without(s, S) = it[1..n]
  BY <1>1, Zenon DEF without, FoldLeft, MapThenFoldSet, leave
<1> HIDE DEF it, F, T
<1> DEFINE f == [i \in 0..n |-> it[1..i]]
<1>7. f[0] = <<>>
  <2>1. 1..0 = {} OBVIOUS
  <2>2. it[{}] = <<>> BY <1>5
  <2> QED BY <1>1, <2>1, <2>2
<1>8. ASSUME NEW i \in 1..n
      PROVE  f[i] = leave(f[i - 1], s[i], S)
  <2>1. Max(1..i) = i BY LargestIs
  <2>2. (1..i) \ {i} = 1..(i - 1) /\ 1..i # {} /\ (1..i) \in SUBSET (1..n)
    <3>1. n \in Nat BY <1>1
    <3> HIDE DEF n
    <3> QED BY <3>1, UpTo
  <2>3. it[1..i] = leave(it[(1..i) \ {Max(1..i)}], s[Max(1..i)], S)
    BY <1>5, <2>2
  <2>4. f[i] = it[1..i] /\ f[i - 1] = it[1..(i - 1)] BY <1>1
  <2> QED BY <2>1, <2>2, <2>3, <2>4
<1>9. f[n] = without(s, S) BY <1>1, <1>6
<1> HIDE DEF f
<1>10. {i \in 0..n : f[i] \in T} = 0..n
  <2> DEFINE A == {i \in 0..n : f[i] \in T}
  <2>1. 0 \in A BY <1>1, <1>7
  <2>2. ASSUME NEW i \in 1..n, f[i - 1] \in T PROVE f[i] \in T
    <3>1. s[i] \in D BY <1>1
    <3>2. Append(f[i - 1], s[i]) \in T BY <2>2, <3>1, AppendProperties DEF T
    <3> QED BY <1>8, <2>2, <3>2 DEF leave
  <2>3. \A i \in 1..n : i - 1 \in A => i \in A BY <2>2
  <2> HIDE DEF A
  <2>4. A \in SUBSET (0..n) BY DEF A
  <2>5. A = 0..n BY <1>1, <2>1, <2>3, <2>4, Inducts
  <2> QED BY <2>5 DEF A
<1>11. f \in [0..n -> T] BY <1>10 DEF f
<1>12. Leaves(f, s, S) BY <1>7, <1>8, <1>9 DEF Leaves
<1> QED BY <1>11, <1>12 DEF T

(* What without leaves: what is not in S, each where and as often as it was. *)
LEMMA WithoutIs ==
  ASSUME NEW D, NEW s \in Seq(D), NEW S
  PROVE  /\ without(s, S) \in Seq(D)
         /\ Range(without(s, S)) = Range(s) \ S
         /\ Once(s) => Once(without(s, S))
         /\ Range(s) \subseteq S => without(s, S) = <<>>
         /\ Range(s) \cap S = {} => without(s, S) = s
<1> DEFINE n == Len(s)
<1>1. n \in Nat /\ (\A i \in 1..n : s[i] \in D) /\ Range(s) = {s[i] : i \in 1..n}
      /\ DOMAIN s = 1..n
  BY LenProperties, ElementOfSeq, RangeIs
<1>2. PICK g \in [0..n -> Seq(D)] :
        /\ g[0] = <<>>
        /\ \A i \in 1..n :
             g[i] = leave(g[i - 1], s[i], S)
        /\ without(s, S) = g[n]
  <2>1. \E g \in [0..Len(s) -> Seq(D)] : Leaves(g, s, S) BY WithoutRuns
  <2> QED BY <2>1 DEF Leaves
<1>3. \A i \in 1..n : i - 1 \in 0..n /\ (i - 1) + 1 = i /\ 1..i = 1..(i - 1) \cup {i}
  BY <1>1
<1> DEFINE p(i) == SubSeq(s, 1, i)
           Is(i) == /\ Range(g[i]) = {s[j] : j \in 1..i} \ S
                    /\ Once(s) => Once(g[i])
                    /\ Range(s) \subseteq S => g[i] = <<>>
                    /\ Range(s) \cap S = {} => g[i] = p(i)
           A == {i \in 0..n : Is(i)}
<1>4. 0 \in A
  <2>1. Range(<<>>) = {} BY DEF Range
  <2>2. 1..0 = {} OBVIOUS
  <2>3. Once(<<>>) BY DEF Once
  <2>4. p(0) = <<>> BY SubSeqEmpty
  <2> QED BY <1>1, <1>2, <2>1, <2>2, <2>3, <2>4
<1>5. ASSUME NEW i \in 1..n, i - 1 \in A PROVE i \in A
  <2>1. Is(i - 1) /\ g[i - 1] \in Seq(D) /\ s[i] \in D BY <1>1, <1>2, <1>3, <1>5
  <2>2. g[i] = IF s[i] \in S THEN g[i - 1] ELSE Append(g[i - 1], s[i])
    BY <1>2 DEF leave
  <2>3. {s[j] : j \in 1..i} = {s[j] : j \in 1..(i - 1)} \cup {s[i]} BY <1>3
  <2>4. s[i] \in Range(s) BY <1>1
  <2>5. Range(g[i]) = {s[j] : j \in 1..i} \ S
    <3>1. CASE s[i] \in S BY <2>1, <2>2, <2>3, <3>1
    <3>2. CASE s[i] \notin S
      <4>1. Range(g[i]) = Range(g[i - 1]) \cup {s[i]} BY <2>1, <2>2, <3>2, MoreRange
      <4> QED BY <2>1, <2>3, <3>2, <4>1
    <3> QED BY <3>1, <3>2
  <2>6. Once(s) => Once(g[i])
    <3>1. CASE s[i] \in S BY <2>1, <2>2, <3>1
    <3>2. ASSUME Once(s), s[i] \notin S PROVE Once(g[i])
      <4>1. \A j \in 1..(i - 1) : s[j] # s[i] BY <1>1, <3>2 DEF Once
      <4>2. s[i] \notin Range(g[i - 1]) BY <2>1, <4>1
      <4> QED BY <2>1, <2>2, <3>2, <4>2, MoreOnce
    <3> QED BY <3>1, <3>2
  <2>7. Range(s) \subseteq S => g[i] = <<>> BY <2>1, <2>2, <2>4
  <2>8. Range(s) \cap S = {} => g[i] = p(i)
    <3> SUFFICES ASSUME Range(s) \cap S = {} PROVE g[i] = p(i)
      OBVIOUS
    <3>1. g[i] = Append(p(i - 1), s[i]) BY <2>1, <2>2, <2>4
    <3>2. /\ p(i) \in Seq(D) /\ Len(p(i)) = i /\ \A j \in 1..i : p(i)[j] = s[j]
      <4>1. \A j \in 1..i : s[j] \in D BY <1>1
      <4> QED BY <1>1, <4>1, SubSeqProperties
    <3>3. /\ p(i - 1) \in Seq(D) /\ Len(p(i - 1)) = i - 1
          /\ \A j \in 1..(i - 1) : p(i - 1)[j] = s[j]
      <4>1. \A j \in 1..(i - 1) : s[j] \in D BY <1>1
      <4> QED BY <1>1, <4>1, SubSeqProperties
    <3> HIDE DEF p
    <3>4. /\ g[i] \in Seq(D) /\ Len(g[i]) = i
          /\ \A j \in 1..(i - 1) : g[i][j] = s[j]
          /\ g[i][i] = s[i]
      BY <2>1, <3>1, <3>3, AppendProperties
    <3>5. \A j \in 1..i : g[i][j] = p(i)[j] BY <3>2, <3>4
    <3> QED BY <3>2, <3>4, <3>5, SeqEqual
  <2> QED BY <2>5, <2>6, <2>7, <2>8
<1>6. A \in SUBSET (0..n) OBVIOUS
<1> HIDE DEF A
<1>7. A = 0..n BY <1>1, <1>4, <1>5, <1>6, Inducts
<1>8. n \in A BY <1>1, <1>7
<1>9. Is(n) BY <1>8 DEF A
<1>10. p(n) = s BY SubSeqFull
<1> QED BY <1>1, <1>2, <1>9, <1>10

(* It works on each part of a sequence. *)
LEMMA WithoutJoined ==
  ASSUME NEW D, NEW s \in Seq(D), NEW t \in Seq(D), NEW S
  PROVE  without(s \o t, S) = without(s, S) \o without(t, S)
<1> DEFINE m == Len(s)
           n == Len(t)
           q == s \o t
<1>1. /\ m \in Nat /\ n \in Nat /\ q \in Seq(D) /\ Len(q) = m + n
      /\ \A i \in 1..m : q[i] = s[i]
      /\ \A i \in 1..n : q[m + i] = t[i] /\ t[i] \in D
  BY LenProperties, ConcatProperties, ElementOfSeq
<1>2. PICK g \in [0..m -> Seq(D)] :
        /\ g[0] = <<>>
        /\ \A i \in 1..m :
             g[i] = leave(g[i - 1], s[i], S)
        /\ without(s, S) = g[m]
  <2>1. \E g \in [0..Len(s) -> Seq(D)] : Leaves(g, s, S) BY WithoutRuns
  <2> QED BY <2>1 DEF Leaves
<1>3. PICK h \in [0..n -> Seq(D)] :
        /\ h[0] = <<>>
        /\ \A i \in 1..n :
             h[i] = leave(h[i - 1], t[i], S)
        /\ without(t, S) = h[n]
  <2>1. \E h \in [0..Len(t) -> Seq(D)] : Leaves(h, t, S) BY WithoutRuns
  <2> QED BY <2>1 DEF Leaves
<1>4. PICK f \in [0..(m + n) -> Seq(D)] :
        /\ f[0] = <<>>
        /\ \A i \in 1..(m + n) :
             f[i] = leave(f[i - 1], q[i], S)
        /\ without(q, S) = f[m + n]
  <2>0. q \in Seq(D) BY <1>1
  <2> HIDE DEF q
  <2>1. \E f \in [0..Len(q) -> Seq(D)] : Leaves(f, q, S) BY <2>0, WithoutRuns
  <2> QED BY <1>1, <2>1 DEF Leaves
<1> HIDE DEF q, m, n
<1>5. f[m] = g[m]
  <2> DEFINE A == {i \in 0..m : f[i] = g[i]}
  <2>1. 0 \in A BY <1>1, <1>2, <1>4
  <2>2. ASSUME NEW i \in 1..m, i - 1 \in A PROVE i \in A
    <3>1. i \in 1..(m + n)
      <4>1. m \in Nat /\ n \in Nat BY <1>1
      <4> QED BY <2>2, <4>1
    <3>2. q[i] = s[i] BY <1>1
    <3> QED BY <1>2, <1>4, <2>2, <3>1, <3>2
  <2>3. A \in SUBSET (0..m) OBVIOUS
  <2> HIDE DEF A
  <2>4. m \in Nat /\ \A i \in 1..m : i - 1 \in A => i \in A BY <1>1, <2>2
  <2>5. A = 0..m BY <2>1, <2>3, <2>4, Inducts
  <2>6. m \in A BY <2>4, <2>5
  <2> QED BY <2>6 DEF A
<1> DEFINE B == {i \in 0..n : f[m + i] = g[m] \o h[i]}
<1>6. 0 \in B
  <2>1. m + 0 = m /\ g[m] \in Seq(D) BY <1>1, <1>2
  <2>2. g[m] \o <<>> = g[m] BY <2>1, ConcatEmptySeq
  <2>3. 0 \in 0..n /\ f[m + 0] = g[m] \o h[0]
    <3>1. 0 \in 0..n BY <1>1
    <3>2. f[m + 0] = g[m] BY ONLY <1>5, <2>1
    <3>3. h[0] = <<>> BY <1>3
    <3> QED BY ONLY <2>2, <3>1, <3>2, <3>3
  <2> QED BY <2>3
<1>7. ASSUME NEW i \in 1..n, i - 1 \in B PROVE i \in B
  <2>0. m \in Nat /\ n \in Nat BY <1>1
  <2>1. /\ m + i \in 1..(m + n) /\ q[m + i] = t[i] /\ (m + i) - 1 = m + (i - 1)
        /\ t[i] \in D /\ g[m] \in Seq(D) /\ h[i - 1] \in Seq(D) /\ i - 1 \in 0..n
    <3>1. m + i \in 1..(m + n) /\ (m + i) - 1 = m + (i - 1) /\ i - 1 \in 0..n /\ m \in 0..m
      BY <2>0
    <3>2. q[m + i] = t[i] /\ t[i] \in D BY <1>1
    <3> QED BY <1>2, <1>3, <3>1, <3>2
  <2>2. f[m + (i - 1)] = g[m] \o h[i - 1] BY <1>7
  <2>3. f[m + i] = IF t[i] \in S THEN g[m] \o h[i - 1]
                   ELSE Append(g[m] \o h[i - 1], t[i])
    BY <1>4, <2>1, <2>2 DEF leave
  <2>4. Append(g[m] \o h[i - 1], t[i]) = g[m] \o Append(h[i - 1], t[i])
    <3>1. /\ g[m] \o h[i - 1] \in Seq(D) /\ <<t[i]>> \in Seq(D)
      BY <2>1, ConcatProperties
    <3>2. Append(g[m] \o h[i - 1], t[i]) = (g[m] \o h[i - 1]) \o <<t[i]>>
      BY <2>1, <3>1, AppendIsConcat
    <3>3. Append(h[i - 1], t[i]) = h[i - 1] \o <<t[i]>> BY <2>1, AppendIsConcat
    <3>4. (g[m] \o h[i - 1]) \o <<t[i]>> = g[m] \o (h[i - 1] \o <<t[i]>>)
      <4>1. \A x, y, z \in Seq(D) : (x \o y) \o z = x \o (y \o z)
        BY ONLY ConcatAssociative, SMTT(30)
      <4>2. g[m] \in Seq(D) /\ h[i - 1] \in Seq(D) /\ <<t[i]>> \in Seq(D)
        BY <2>1, <3>1
      <4> QED BY ONLY <4>1, <4>2, Zenon
    <3> QED BY <3>2, <3>3, <3>4
  <2>5. h[i] = IF t[i] \in S THEN h[i - 1] ELSE Append(h[i - 1], t[i])
    BY <1>3 DEF leave
  <2>6. f[m + i] = g[m] \o h[i] BY <2>3, <2>4, <2>5
  <2>7. i \in 0..n BY <2>0
  <2> QED BY <2>6, <2>7
<1>8. B \in SUBSET (0..n) OBVIOUS
<1> HIDE DEF B
<1>9. n \in B
  <2>1. n \in Nat /\ \A i \in 1..n : i - 1 \in B => i \in B BY <1>1, <1>7
  <2>2. B = 0..n BY <1>6, <1>8, <2>1, Inducts
  <2> QED BY <2>1, <2>2
<1>10. f[m + n] = g[m] \o h[n] BY <1>9 DEF B
<1> QED BY <1>2, <1>3, <1>4, <1>10 DEF q

(* calls_made *)

joins(acc, m) == acc \o m.calls

HasCalls(M, D) == \A m \in M : m.calls \in Seq(D)

(* The values calls_made runs through. *)
Joins(g, h) ==
  /\ g[0] = <<>>
  /\ \A i \in 1..Len(h) : g[i] = joins(g[i - 1], h[i])
  /\ calls_made(h) = g[Len(h)]

LEMMA MadeRuns ==
  ASSUME NEW D, NEW M, HasCalls(M, D), NEW h \in Seq(M)
  PROVE  \E g \in [0..Len(h) -> Seq(D)] : Joins(g, h)
<1> DEFINE n == Len(h)
           T == Seq(D)
           F == [p \in (1..n) \X T |-> joins(p[2], h[p[1]])]
           J(g) == g = [R \in SUBSET (1..n) |->
                          IF R = {} THEN <<>>
                          ELSE joins(g[R \ {Max(R)}], h[Max(R)])]
           it == CHOOSE g : J(g)
<1>1. n \in Nat /\ DOMAIN h = 1..n /\ (\A i \in 1..n : h[i] \in M) /\ <<>> \in T
  BY LenProperties, ElementOfSeq, EmptySeq
<1>2. \A i \in 1..n : \A x \in T : joins(x, h[i]) \in T
  <2> SUFFICES ASSUME NEW i \in 1..n, NEW x \in Seq(D) PROVE x \o h[i].calls \in Seq(D)
    BY DEF joins
  <2>1. h[i].calls \in Seq(D) BY <1>1 DEF HasCalls
  <2> QED BY <2>1, ConcatProperties
<1>3. PICK g \in [SUBSET (1..n) -> T] : Solves(g, n, <<>>, F)
  <2>1. F \in [(1..n) \X T -> T] BY <1>2
  <2> HIDE DEF F, n, T
  <2> QED BY <1>1, <2>1, FoldExists
<1>4. J(g)
  <2>1. \A R \in SUBSET (1..n) : R # {} =>
          F[<<Max(R), g[R \ {Max(R)}]>>] = joins(g[R \ {Max(R)}], h[Max(R)])
    <3> SUFFICES ASSUME NEW R \in SUBSET (1..n), R # {}
                 PROVE  <<Max(R), g[R \ {Max(R)}]>> \in (1..n) \X T
      OBVIOUS
    <3>1. Max(R) \in R BY <1>1, LargestIn
    <3> QED BY <3>1
  <2> HIDE DEF F, n, T
  <2>2. [R \in SUBSET (1..n) |->
           IF R = {} THEN <<>> ELSE F[<<Max(R), g[R \ {Max(R)}]>>]]
        = [R \in SUBSET (1..n) |->
             IF R = {} THEN <<>> ELSE joins(g[R \ {Max(R)}], h[Max(R)])]
    BY <2>1
  <2> QED BY <1>3, <2>2, Zenon DEF Solves
<1>5. J(it) BY <1>4, Zenon
<1>6. calls_made(h) = it[1..n]
  BY <1>1, Zenon DEF calls_made, FoldLeft, MapThenFoldSet, joins
<1> HIDE DEF it, F, T
<1> DEFINE f == [i \in 0..n |-> it[1..i]]
<1>7. f[0] = <<>>
  <2>1. 1..0 = {} OBVIOUS
  <2>2. it[{}] = <<>> BY <1>5
  <2> QED BY <1>1, <2>1, <2>2
<1>8. ASSUME NEW i \in 1..n
      PROVE  f[i] = joins(f[i - 1], h[i])
  <2>1. Max(1..i) = i BY LargestIs
  <2>2. (1..i) \ {i} = 1..(i - 1) /\ 1..i # {} /\ (1..i) \in SUBSET (1..n)
    <3>1. n \in Nat BY <1>1
    <3> HIDE DEF n
    <3> QED BY <3>1, UpTo
  <2>3. it[1..i] = joins(it[(1..i) \ {Max(1..i)}], h[Max(1..i)])
    BY <1>5, <2>2
  <2>4. f[i] = it[1..i] /\ f[i - 1] = it[1..(i - 1)] BY <1>1
  <2> QED BY <2>1, <2>2, <2>3, <2>4
<1>9. f[n] = calls_made(h) BY <1>1, <1>6
<1> HIDE DEF f
<1>10. {i \in 0..n : f[i] \in T} = 0..n
  <2> DEFINE A == {i \in 0..n : f[i] \in T}
  <2>1. 0 \in A BY <1>1, <1>7
  <2>2. \A i \in 1..n : i - 1 \in A => i \in A BY <1>2, <1>8
  <2> HIDE DEF A
  <2>3. A \in SUBSET (0..n) BY DEF A
  <2>4. A = 0..n BY <1>1, <2>1, <2>2, <2>3, Inducts
  <2> QED BY <2>4 DEF A
<1>11. f \in [0..n -> T] BY <1>10 DEF f
<1>12. Joins(f, h) BY <1>7, <1>8, <1>9 DEF Joins
<1> QED BY <1>11, <1>12 DEF T

(* The calls of a history are those of its messages. *)
LEMMA MadeIs ==
  ASSUME NEW D, NEW M, HasCalls(M, D), NEW h \in Seq(M)
  PROVE  /\ calls_made(h) \in Seq(D)
         /\ Range(calls_made(h)) = Requested(h)
<1> DEFINE n == Len(h)
<1>1. n \in Nat /\ DOMAIN h = 1..n /\ \A i \in 1..n : h[i].calls \in Seq(D)
  BY LenProperties, ElementOfSeq DEF HasCalls
<1>2. PICK g \in [0..n -> Seq(D)] :
        /\ g[0] = <<>>
        /\ \A i \in 1..n : g[i] = joins(g[i - 1], h[i])
        /\ calls_made(h) = g[n]
  <2>1. \E g \in [0..Len(h) -> Seq(D)] : Joins(g, h) BY MadeRuns
  <2> QED BY <2>1 DEF Joins
<1> DEFINE upto(i) == UNION {Range(h[j].calls) : j \in 1..i}
           A == {i \in 0..n : Range(g[i]) = upto(i)}
<1>3. 0 \in A
  <2>1. Range(<<>>) = {} BY DEF Range
  <2>2. 1..0 = {} OBVIOUS
  <2> QED BY <1>1, <1>2, <2>1, <2>2
<1>4. ASSUME NEW i \in 1..n, i - 1 \in A PROVE i \in A
  <2>1. i \in 0..n /\ i - 1 \in 0..n BY <1>1
  <2>2. g[i] = g[i - 1] \o h[i].calls BY <1>2 DEF joins
  <2>3. g[i - 1] \in Seq(D) /\ h[i].calls \in Seq(D) BY <1>1, <1>2, <2>1
  <2>4. Range(g[i]) = Range(g[i - 1]) \cup Range(h[i].calls)
    BY <2>2, <2>3, RangeConcatenation
  <2>5. 1..i = 1..(i - 1) \cup {i} BY <1>1
  <2>6. upto(i) = upto(i - 1) \cup Range(h[i].calls) BY <2>5
  <2>7. Range(g[i - 1]) = upto(i - 1) BY <1>4
  <2> QED BY <2>1, <2>4, <2>6, <2>7
<1>5. A \in SUBSET (0..n) OBVIOUS
<1> HIDE DEF A
<1>6. n \in A
  <2>1. A = 0..n BY <1>1, <1>3, <1>4, <1>5, Inducts
  <2> QED BY <1>1, <2>1
<1>7. Range(g[n]) = upto(n) BY <1>6 DEF A
<1>8. upto(n) = Requested(h) BY <1>1 DEF Requested
<1>9. n \in 0..n BY <1>1
<1> QED BY <1>2, <1>7, <1>8, <1>9

LEMMA MadeNone == calls_made(<<>>) = <<>>
<1>1. HasCalls({}, {}) /\ <<>> \in Seq({}) /\ Len(<<>>) = 0
  BY EmptySeq DEF HasCalls
<1> DEFINE h == <<>>
<1>2. HasCalls({}, {}) /\ h \in Seq({}) BY <1>1
<1> HIDE DEF h
<1>3. PICK g \in [0..Len(h) -> Seq({})] : Joins(g, h) BY <1>2, MadeRuns
<1>4. g[0] = <<>> /\ calls_made(h) = g[Len(h)] BY <1>3 DEF Joins
<1> QED BY <1>1, <1>4 DEF h

(* A message more has its calls more. *)
LEMMA MadeMore ==
  ASSUME NEW D, NEW M, HasCalls(M, D), NEW h \in Seq(M), NEW m \in M
  PROVE  calls_made(Append(h, m)) = calls_made(h) \o m.calls
<1> DEFINE n == Len(h)
           q == Append(h, m)
<1>1. n \in Nat /\ q \in Seq(M) /\ Len(q) = n + 1 /\ q[n + 1] = m
  BY LenProperties, AppendProperties
<1>2. \A i \in 1..n : q[i] = h[i] BY AppendProperties
<1>3. PICK g : /\ g[0] = <<>> /\ \A i \in 1..n : g[i] = joins(g[i - 1], h[i])
               /\ calls_made(h) = g[n]
  <2>1. \E g \in [0..Len(h) -> Seq(D)] : Joins(g, h) BY MadeRuns
  <2> QED BY <2>1 DEF Joins
<1> HIDE DEF q
<1>4. PICK f : /\ f[0] = <<>>
               /\ \A i \in 1..(n + 1) : f[i] = joins(f[i - 1], q[i])
               /\ calls_made(q) = f[n + 1]
  <2>1. q \in Seq(M) BY <1>1
  <2>2. \E f \in [0..Len(q) -> Seq(D)] : Joins(f, q) BY <2>1, MadeRuns
  <2> QED BY <1>1, <2>2 DEF Joins
<1> DEFINE A == {i \in 0..n : f[i] = g[i]}
<1>5. 0 \in A BY <1>1, <1>3, <1>4
<1>6. ASSUME NEW i \in 1..n, i - 1 \in A PROVE i \in A
  <2>1. f[i] = joins(f[i - 1], q[i]) BY <1>1, <1>4
  <2>2. g[i] = joins(g[i - 1], h[i]) BY <1>3
  <2> QED BY <1>2, <1>6, <2>1, <2>2
<1> HIDE DEF A
<1>7. A \in SUBSET (0..n) BY DEF A
<1>8. A = 0..n BY <1>1, <1>5, <1>6, <1>7, Inducts
<1>9. f[n] = g[n]
  <2>1. n \in A BY <1>1, <1>8
  <2> QED BY <2>1 DEF A
<1>10. f[n + 1] = joins(f[(n + 1) - 1], q[n + 1]) /\ (n + 1) - 1 = n
  BY <1>1, <1>4
<1> QED BY <1>1, <1>3, <1>4, <1>9, <1>10 DEF q, joins

IsHistory(D, h) == \E M : HasCalls(M, D) /\ h \in Seq(M)

(* A return stands behind its call. *)
Behind(h) ==
  \A i \in DOMAIN h : \A r \in Range(h[i].returns) :
    \E j \in 1..(i - 1) : r.call \in Range(h[j].calls)

(* Every call of it has its return. *)
Complete(D, h) ==
  IsHistory(D, h) /\ Behind(h) /\ Requested(h) \subseteq Returned(h)

(* The calls C follow a complete history. *)
Follows(D, g, C) == Complete(D, g) /\ C \in Seq(D) /\ Once(calls_made(g) \o C)

(* A history with nothing open, or with its last response open. *)
Opens(D, h, g, C) == Follows(D, g, C) /\ h = Append(g, response(C))
Stands(D, h) ==
  \/ Complete(D, h) /\ Once(calls_made(h))
  \/ \E g, C : Opens(D, h, g, C)

(* One that is cut between the returns of its last response. *)
callsOf(rs) == {r.call : r \in Range(rs)}
Cuts(D, h, g, C, rs) ==
  /\ Follows(D, g, C) /\ Range(rs) # {} /\ callsOf(rs) \subseteq Range(C)
  /\ h = Append(Append(g, response(C)), request(rs))
Restorable(D, h) == Stands(D, h) \/ \E g, C, rs : Cuts(D, h, g, C, rs)

LEMMA NoRange == Range(<<>>) = {}
BY DEF Range

LEMMA HistoryNone ==
  ASSUME NEW D
  PROVE  IsHistory(D, <<>>) /\ Complete(D, <<>>) /\ calls_made(<<>>) = <<>>
<1>1. IsHistory(D, <<>>)
  <2>1. HasCalls({}, D) /\ <<>> \in Seq({}) BY EmptySeq DEF HasCalls
  <2> QED BY <2>1 DEF IsHistory
<1>2. DOMAIN <<>> = {} OBVIOUS
<1>3. Behind(<<>>) /\ Requested(<<>>) = {} BY <1>2 DEF Behind, Requested
<1> QED BY <1>1, <1>3, MadeNone DEF Complete

(* A message more. *)
IsMessage(D, m) == m.calls \in Seq(D)
Grows(D, h, m) ==
  /\ IsHistory(D, Append(h, m))
  /\ Len(h) \in Nat /\ Len(Append(h, m)) = Len(h) + 1
  /\ Append(h, m)[Len(h) + 1] = m /\ Append(h, m) # <<>>
  /\ calls_made(Append(h, m)) = calls_made(h) \o m.calls
  /\ Requested(Append(h, m)) = Requested(h) \cup Range(m.calls)
  /\ Returns(Append(h, m)) = Returns(h) \cup Range(m.returns)
  /\ Returned(Append(h, m)) = Returned(h) \cup callsOf(m.returns)
  /\ callsOf(m.returns) \subseteq Requested(h) /\ Behind(h)
       => Behind(Append(h, m))

LEMMA MessageMore ==
  ASSUME NEW D, NEW h, IsHistory(D, h), NEW m, IsMessage(D, m)
  PROVE  Grows(D, h, m)
<1> DEFINE n == Len(h)
           q == Append(h, m)
<1>1. PICK M0 : HasCalls(M0, D) /\ h \in Seq(M0) BY DEF IsHistory
<1> DEFINE M == M0 \cup {m}
<1>2. HasCalls(M, D) BY <1>1 DEF HasCalls, IsMessage
<1>3. h \in Seq(M) /\ m \in M
  <2>1. M0 \subseteq M OBVIOUS
  <2> QED BY <1>1, <2>1, SeqMonotonic
<1> HIDE DEF M
<1>4. /\ q \in Seq(M) /\ n \in Nat /\ Len(q) = n + 1 /\ q[n + 1] = m /\ q # <<>>
      /\ DOMAIN h = 1..n
  BY <1>3, AppendProperties, LenProperties
<1>5. \A i \in 1..n : q[i] = h[i] BY <1>3, AppendProperties
<1>6. DOMAIN q = 1..n \cup {n + 1}
  <2>1. DOMAIN q = 1..(n + 1) BY <1>4, LenProperties
  <2> QED BY <1>4, <2>1
<1>7. calls_made(q) = calls_made(h) \o m.calls BY <1>2, <1>3, MadeMore
<1> HIDE DEF q, n
<1>8. Requested(q) = Requested(h) \cup Range(m.calls)
  BY <1>4, <1>5, <1>6 DEF Requested
<1>9. Returns(q) = Returns(h) \cup Range(m.returns)
  BY <1>4, <1>5, <1>6 DEF Returns
<1>10. Returned(q) = Returned(h) \cup callsOf(m.returns)
  BY <1>9 DEF Returned, callsOf
<1>11. ASSUME callsOf(m.returns) \subseteq Requested(h), Behind(h) PROVE Behind(q)
  <2>1. ASSUME NEW i \in 1..n, NEW r \in Range(q[i].returns)
        PROVE  \E j \in 1..(i - 1) : r.call \in Range(q[j].calls)
    <3>1. r \in Range(h[i].returns) BY <1>5, <2>1
    <3>2. PICK j \in 1..(i - 1) : r.call \in Range(h[j].calls)
      BY <1>4, <1>11, <3>1 DEF Behind
    <3>3. j \in 1..n BY <1>4, <3>2
    <3> QED BY <1>5, <3>2, <3>3
  <2>2. ASSUME NEW r \in Range(m.returns)
        PROVE  \E j \in 1..n : r.call \in Range(q[j].calls)
    <3>1. r.call \in Requested(h) BY <1>11, <2>2 DEF callsOf
    <3>2. PICK j \in 1..n : r.call \in Range(h[j].calls)
      BY <1>4, <3>1 DEF Requested
    <3> QED BY <1>5, <3>2
  <2>3. (n + 1) - 1 = n BY <1>4
  <2> SUFFICES ASSUME NEW i \in DOMAIN q, NEW r \in Range(q[i].returns)
               PROVE  \E j \in 1..(i - 1) : r.call \in Range(q[j].calls)
    BY DEF Behind
  <2>4. CASE i \in 1..n BY <2>1, <2>4
  <2>5. CASE i = n + 1 BY <1>4, <2>2, <2>3, <2>5
  <2> QED BY <1>6, <2>4, <2>5
<1>12. IsHistory(D, q) BY <1>2, <1>4 DEF IsHistory
<1> QED BY <1>4, <1>7, <1>8, <1>9, <1>10, <1>11, <1>12 DEF q, n, Grows

LEMMA HistoryCalls ==
  ASSUME NEW D, NEW h, IsHistory(D, h)
  PROVE  /\ calls_made(h) \in Seq(D) /\ Range(calls_made(h)) = Requested(h)
         /\ Behind(h) => Returned(h) \subseteq Requested(h)
<1>1. PICK M : HasCalls(M, D) /\ h \in Seq(M) BY DEF IsHistory
<1>2. calls_made(h) \in Seq(D) /\ Range(calls_made(h)) = Requested(h)
  BY <1>1, MadeIs
<1>3. ASSUME Behind(h), NEW c \in Returned(h) PROVE c \in Requested(h)
  <2>1. Len(h) \in Nat /\ DOMAIN h = 1..Len(h) BY <1>1, LenProperties
  <2>2. PICK i \in DOMAIN h : \E r \in Range(h[i].returns) : c = r.call
    BY <1>3 DEF Returned, Returns
  <2>3. PICK j \in 1..(i - 1) : c \in Range(h[j].calls) BY <1>3, <2>2 DEF Behind
  <2>4. j \in DOMAIN h BY <2>1, <2>2, <2>3
  <2> QED BY <2>3, <2>4 DEF Requested
<1> QED BY <1>2, <1>3

(* The calls that follow a history are none of it. *)
LEMMA FollowsApart ==
  ASSUME NEW D, NEW g, NEW C, Follows(D, g, C)
  PROVE  /\ calls_made(g) \in Seq(D) /\ Once(calls_made(g)) /\ Once(C)
         /\ Range(calls_made(g)) = Returned(g) /\ Returned(g) = Requested(g)
         /\ Returned(g) \cap Range(C) = {}
<1>1. /\ calls_made(g) \in Seq(D) /\ Range(calls_made(g)) = Requested(g)
      /\ Returned(g) = Requested(g)
  BY HistoryCalls DEF Follows, Complete
<1>2. C \in Seq(D) /\ Once(calls_made(g) \o C) BY DEF Follows
<1> QED BY <1>1, <1>2, JoinedOnce

(* What is open of a history that others follow. *)
LEMMA OpenIs ==
  ASSUME NEW D, NEW g, NEW C, Follows(D, g, C), NEW R, Returned(g) \subseteq R
  PROVE  without(calls_made(g) \o C, R) = without(C, R)
<1>1. calls_made(g) \in Seq(D) /\ C \in Seq(D) BY FollowsApart DEF Follows
<1>2. Range(calls_made(g)) \subseteq R BY FollowsApart
<1>3. without(calls_made(g) \o C, R) = without(calls_made(g), R) \o without(C, R)
  BY <1>1, WithoutJoined
<1>4. without(calls_made(g), R) = <<>> BY <1>1, <1>2, WithoutIs
<1>5. without(C, R) \in Seq(D) BY <1>1, WithoutIs
<1>6. <<>> \o without(C, R) = without(C, R) BY <1>5, ConcatEmptySeq
<1> QED BY <1>3, <1>4, <1>6

(* A history that stands is whole, and resume_history leaves it. *)
LEMMA StandsWhole ==
  ASSUME NEW D, NEW h, Stands(D, h) PROVE whole(h) /\ resume_history(h) = h
<1>1. CASE Complete(D, h) /\ Once(calls_made(h))
  <2>1. calls_made(h) \in Seq(D) /\ Range(calls_made(h)) \subseteq Returned(h)
    BY <1>1, HistoryCalls DEF Complete
  <2>2. unanswered(h) = <<>> BY <2>1, WithoutIs DEF unanswered
  <2>3. Cardinality(Range(calls_made(h))) = Len(calls_made(h))
    BY <1>1, <2>1, OnceCounts
  <2>4. whole(h) BY <1>1, <2>2, <2>3 DEF whole, Complete, Behind
  <2>5. resume_history(h) = h BY <2>2, NoRange DEF resume_history
  <2> QED BY <2>4, <2>5
<1>2. ASSUME NEW g, NEW C, Opens(D, h, g, C) PROVE whole(h) /\ resume_history(h) = h
  <2>1. Follows(D, g, C) /\ h = Append(g, response(C)) BY <1>2 DEF Opens
  <2>2. /\ response(C).calls = C /\ response(C).returns = <<>>
        /\ response(C).kind = "response" /\ C \in Seq(D)
    BY <2>1 DEF response, Follows
  <2>3. IsHistory(D, g) /\ Behind(g) BY <2>1 DEF Follows, Complete
  <2> DEFINE m == response(C)
  <2>4. callsOf(m.returns) = {} BY <2>2, NoRange DEF callsOf
  <2> HIDE DEF m
  <2>5. /\ Len(g) \in Nat /\ Len(h) = Len(g) + 1 /\ h[Len(g) + 1] = m /\ h # <<>>
        /\ calls_made(h) = calls_made(g) \o C /\ Returned(h) = Returned(g)
        /\ Behind(h) /\ IsHistory(D, h)
    <3>1. m.calls \in Seq(D) /\ m.calls = C /\ h = Append(g, m)
      BY <2>1, <2>2 DEF m
    <3>2. Grows(D, g, m)
      <4>1. IsMessage(D, m) BY <3>1 DEF IsMessage
      <4> QED BY <2>3, <4>1, MessageMore
    <3> QED BY <2>3, <2>4, <3>1, <3>2 DEF Grows
  <2>6. unanswered(h) = C
    <3>1. unanswered(h) = without(C, Returned(g))
      BY <2>1, <2>5, OpenIs DEF unanswered
    <3>2. Range(C) \cap Returned(g) = {} BY <2>1, FollowsApart
    <3> QED BY <2>2, <3>1, <3>2, WithoutIs
  <2>7. h[Len(h)].kind = "response" /\ h[Len(h)].calls = C
    BY <2>2, <2>5 DEF m
  <2>8. Cardinality(Range(calls_made(h))) = Len(calls_made(h))
    <3>1. calls_made(h) \in Seq(D) /\ Once(calls_made(h))
      BY <2>1, <2>5, HistoryCalls DEF Follows
    <3> QED BY <3>1, OnceCounts
  <2>9. whole(h) BY <2>5, <2>6, <2>7, <2>8 DEF whole, Behind
  <2>10. resume_history(h) = h BY <2>7 DEF resume_history
  <2> QED BY <2>9, <2>10
<1> QED BY <1>1, <1>2 DEF Stands

(* Sequences put together one by one. *)
Threads(g, x, y, z) ==
  /\ g \o <<x>> \o <<y>> \o <<z>> = Append(Append(Append(g, x), y), z)
  /\ SubSeq(Append(Append(g, x), y), 1, Len(g)) = g
  /\ SubSeq(Append(Append(g, x), y), Len(g) + 2, Len(g) + 2) = <<y>>

LEMMA OneByOne ==
  ASSUME NEW M, NEW g \in Seq(M), NEW x \in M, NEW y \in M, NEW z \in M
  PROVE  Threads(g, x, y, z)
<1> DEFINE n == Len(g)
           q == Append(Append(g, x), y)
<1>1. /\ Append(g, x) \in Seq(M) /\ q \in Seq(M) /\ n \in Nat
      /\ Len(Append(g, x)) = n + 1 /\ Append(g, x)[n + 1] = x
      /\ \A i \in 1..n : Append(g, x)[i] = g[i]
  BY AppendProperties, LenProperties
<1>2. /\ Len(q) = n + 2 /\ q[n + 2] = y
      /\ \A i \in 1..(n + 1) : q[i] = Append(g, x)[i]
  <2> DEFINE a == Append(g, x)
  <2>1. a \in Seq(M) /\ Len(a) = n + 1 BY <1>1
  <2> HIDE DEF a, n
  <2>2. /\ Len(Append(a, y)) = Len(a) + 1 /\ Append(a, y)[Len(a) + 1] = y
        /\ \A i \in 1..Len(a) : Append(a, y)[i] = a[i]
    BY <2>1, AppendProperties
  <2>3. (n + 1) + 1 = n + 2 BY <1>1
  <2> QED BY <2>1, <2>2, <2>3 DEF a
<1>3. g \o <<x>> \o <<y>> \o <<z>> = Append(Append(Append(g, x), y), z)
  <2>1. \A s \in Seq(M) : \A e \in M : Append(s, e) = s \o <<e>> BY AppendIsConcat
  <2>2. Append(g, x) = g \o <<x>> BY <2>1
  <2>3. q = Append(g, x) \o <<y>> BY <1>1, <2>1
  <2>4. Append(q, z) = q \o <<z>> BY <1>1, <2>1
  <2> QED BY <2>2, <2>3, <2>4
<1> HIDE DEF q
<1>4. \A i \in 1..n : q[i] = g[i] /\ q[i] \in M /\ i \in 1..(n + 1)
  <2>1. \A i \in 1..n : i \in 1..(n + 1) BY <1>1
  <2>2. \A i \in 1..n : g[i] \in M BY ElementOfSeq
  <2> QED BY <1>1, <1>2, <2>1, <2>2
<1>5. SubSeq(q, 1, n) = g
  <2> DEFINE s == SubSeq(q, 1, n)
  <2>1. 1 \in Int /\ n \in Int /\ (1 <= n => n - 1 + 1 = n) /\ (~(1 <= n) => n = 0)
        /\ \A i \in 1..n : i \in 1..(n - 1 + 1) /\ 1 + i - 1 = i
    BY <1>1
  <2>2. /\ s \in Seq(M) /\ Len(s) = IF 1 <= n THEN n - 1 + 1 ELSE 0
        /\ \A i \in 1..(n - 1 + 1) : s[i] = q[1 + i - 1]
    <3>1. \A i \in 1..n : q[i] \in M BY <1>4
    <3> HIDE DEF n
    <3> QED BY <2>1, <3>1, SubSeqProperties
  <2>3. Len(s) = n BY <2>1, <2>2
  <2>4. \A i \in 1..n : s[i] = g[i] BY <1>4, <2>1, <2>2
  <2> HIDE DEF s
  <2>5. s = g
    <3>1. s \in Seq(M) BY <2>2
    <3> QED BY <2>3, <2>4, <3>1, SeqEqual
  <2> QED BY <2>5 DEF s
<1>6. SubSeq(q, n + 2, n + 2) = <<y>>
  <2> DEFINE s == SubSeq(q, n + 2, n + 2)
  <2>1. n + 2 \in Int /\ (n + 2) - (n + 2) + 1 = 1 /\ n + 2 <= n + 2
        /\ (n + 2) + 1 - 1 = n + 2 /\ (n + 2)..(n + 2) = {n + 2}
    BY <1>1
  <2>2. /\ s \in Seq(M)
        /\ Len(s) = IF n + 2 <= n + 2 THEN (n + 2) - (n + 2) + 1 ELSE 0
        /\ \A i \in 1..((n + 2) - (n + 2) + 1) : s[i] = q[(n + 2) + i - 1]
    <3>1. \A i \in (n + 2)..(n + 2) : q[i] \in M BY <1>2, <2>1
    <3> DEFINE k == n + 2
    <3>2. k \in Int BY <2>1
    <3> HIDE DEF k
    <3>3. \A i \in k..k : q[i] \in M BY <3>1 DEF k
    <3>4. /\ SubSeq(q, k, k) \in Seq(M)
          /\ Len(SubSeq(q, k, k)) = IF k <= k THEN k - k + 1 ELSE 0
          /\ \A i \in 1..(k - k + 1) : SubSeq(q, k, k)[i] = q[k + i - 1]
      BY <3>2, <3>3, SubSeqProperties
    <3> QED BY <3>4 DEF k
  <2>3. Len(s) = 1 /\ s[1] = y
    <3>1. Len(s) = 1 BY <2>1, <2>2
    <3>2. 1 \in 1..((n + 2) - (n + 2) + 1) BY <2>1
    <3> QED BY <1>2, <2>1, <2>2, <3>1, <3>2
  <2>4. <<y>> \in Seq(M) /\ Len(<<y>>) = 1 /\ <<y>>[1] = y OBVIOUS
  <2> HIDE DEF s
  <2>5. \A i \in 1..1 : s[i] = <<y>>[i]
    <3>1. 1..1 = {1} OBVIOUS
    <3> QED BY <2>3, <2>4, <3>1
  <2>6. s = <<y>>
    <3>1. s \in Seq(M) BY <2>2
    <3> QED BY <2>3, <2>4, <2>5, <3>1, SeqEqual
  <2> QED BY <2>6 DEF s
<1> QED BY <1>3, <1>5, <1>6 DEF q, Threads

LEMMA ResumeStands ==
  ASSUME NEW D, NEW h, NEW g, NEW C, NEW rs, Cuts(D, h, g, C, rs)
  PROVE  /\ Stands(D, resume_history(h))
         /\ Requested(resume_history(h)) = Requested(h)
         /\ Returns(resume_history(h)) = Returns(h)
<1>1. /\ Follows(D, g, C) /\ C \in Seq(D) /\ Range(rs) # {}
      /\ callsOf(rs) \subseteq Range(C) /\ IsHistory(D, g) /\ Behind(g)
  BY DEF Cuts, Follows, Complete
<1> DEFINE R == callsOf(rs)
           n == Len(g)
           mc == response(C)
           mr == request(rs)
           a == Append(g, mc)
<1>2. /\ mc.calls = C /\ mc.returns = <<>> /\ mc.kind = "response"
      /\ mr.calls = <<>> /\ mr.returns = rs /\ mr.kind = "request"
      /\ <<>> \in Seq(D) /\ callsOf(<<>>) = {}
  BY NoRange, EmptySeq DEF response, request, callsOf
<1>3. h = Append(a, mr) BY DEF Cuts
<1> HIDE DEF R, mc, mr, a
<1>4. /\ IsHistory(D, a) /\ n \in Nat /\ Len(a) = n + 1 /\ a[n + 1] = mc
      /\ calls_made(a) = calls_made(g) \o C
      /\ Requested(a) = Requested(g) \cup Range(C)
      /\ Returns(a) = Returns(g) /\ Returned(a) = Returned(g) /\ Behind(a)
  <2>1. Range(mc.returns) = {} /\ callsOf(mc.returns) = {} BY <1>2, NoRange
  <2>2. a = Append(g, mc) /\ mc.calls \in Seq(D) BY <1>1, <1>2 DEF a
  <2>3. IsMessage(D, mc) BY <2>2 DEF IsMessage
  <2>4. Grows(D, g, mc) BY <1>1, <2>3, MessageMore
  <2> QED BY <1>1, <1>2, <2>1, <2>2, <2>4 DEF Grows
<1>5. /\ IsHistory(D, h) /\ Len(h) = n + 2 /\ h[n + 2] = mr
      /\ calls_made(h) = calls_made(g) \o C
      /\ Requested(h) = Requested(g) \cup Range(C)
      /\ Returns(h) = Returns(g) \cup Range(rs)
      /\ Returned(h) = Returned(g) \cup R /\ Behind(h)
  <2>1. /\ IsHistory(D, h) /\ Len(h) = Len(a) + 1 /\ h[Len(a) + 1] = mr
        /\ calls_made(h) = calls_made(a) \o mr.calls
        /\ Requested(h) = Requested(a) \cup Range(mr.calls)
        /\ Returns(h) = Returns(a) \cup Range(mr.returns)
        /\ Returned(h) = Returned(a) \cup callsOf(mr.returns)
        /\ callsOf(mr.returns) \subseteq Requested(a) /\ Behind(a) => Behind(h)
    <3>1. IsMessage(D, mr) BY <1>2 DEF IsMessage
    <3>2. Grows(D, a, mr) BY <1>4, <3>1, MessageMore
    <3> QED BY <1>3, <3>2 DEF Grows
  <2>2. calls_made(a) \in Seq(D) BY <1>4, HistoryCalls
  <2>3. calls_made(a) \o <<>> = calls_made(a) BY <2>2, ConcatEmptySeq
  <2>4. Range(mr.calls) = {} BY <1>2, NoRange
  <2>5. (n + 1) + 1 = n + 2 BY <1>4
  <2> QED BY <1>1, <1>2, <1>4, <2>1, <2>3, <2>4, <2>5 DEF R
<1> DEFINE U == unanswered(h)
           pending == Range(U)
<1>6. pending = Range(C) \ R
  <2>1. U = without(C, Returned(h)) BY <1>1, <1>5, OpenIs DEF unanswered
  <2>2. Range(without(C, Returned(h))) = Range(C) \ Returned(h)
    BY <1>1, WithoutIs
  <2>3. Range(C) \cap Returned(g) = {} BY <1>1, FollowsApart
  <2> QED BY <1>5, <2>1, <2>2, <2>3
<1>7. CASE pending = {}
  <2>1. resume_history(h) = h BY <1>7 DEF resume_history
  <2>2. Requested(h) \subseteq Returned(h)
    BY <1>1, <1>5, <1>6, <1>7, FollowsApart
  <2>3. Once(calls_made(h)) BY <1>1, <1>5 DEF Follows
  <2>4. Stands(D, h) BY <1>5, <2>2, <2>3 DEF Stands, Complete
  <2> QED BY <2>1, <2>4
<1>8. CASE pending # {}
  <2> DEFINE last == CHOOSE i \in DOMAIN h :
                       /\ h[i].kind = "response"
                       /\ \A j \in DOMAIN h : h[j].kind = "response" => j <= i
             kept == without(h[last].calls, pending)
             rest == without(h[last].calls, Range(kept))
  <2>1. PICK M0 : HasCalls(M0, D) /\ g \in Seq(M0) BY <1>1 DEF IsHistory
  <2>2. /\ DOMAIN h = 1..(n + 2) /\ h[n + 1] = mc
    <3>1. PICK M : h \in Seq(M) BY <1>5 DEF IsHistory
    <3>2. PICK A : a \in Seq(A) BY <1>4 DEF IsHistory
    <3>3. a \in Seq(A \cup {mr})
      <4>1. A \subseteq A \cup {mr} OBVIOUS
      <4> QED BY <3>2, <4>1, SeqMonotonic
    <3>4. \A i \in 1..Len(a) : Append(a, mr)[i] = a[i]
      <4>1. mr \in A \cup {mr} OBVIOUS
      <4> QED BY <3>3, <4>1, AppendProperties
    <3>5. n + 1 \in 1..Len(a) BY <1>4
    <3>6. h[n + 1] = mc BY <1>3, <1>4, <3>4, <3>5
    <3> QED BY <1>5, <3>1, <3>6, LenProperties
  <2>3. last = n + 1
    <3>1. n + 1 \in DOMAIN h /\ h[n + 1].kind = "response" BY <1>2, <1>4, <2>2
    <3>2. ASSUME NEW j \in DOMAIN h, h[j].kind = "response" PROVE j <= n + 1
      <4>1. j # n + 2 BY <1>2, <1>5, <3>2
      <4> QED BY <1>4, <2>2, <4>1
    <3>3. PICK i \in DOMAIN h :
            /\ i = last /\ h[i].kind = "response"
            /\ \A j \in DOMAIN h : h[j].kind = "response" => j <= i
      <4>1. \E i \in DOMAIN h :
              /\ h[i].kind = "response"
              /\ \A j \in DOMAIN h : h[j].kind = "response" => j <= i
        BY <3>1, <3>2
      <4> QED BY <4>1
    <3>4. i <= n + 1 /\ n + 1 <= i BY <3>1, <3>2, <3>3
    <3>5. i \in Nat BY <1>4, <2>2, <3>3
    <3> QED BY <1>4, <3>3, <3>4, <3>5
  <2> HIDE DEF last
  <2>4. h[last].calls = C BY <1>2, <2>2, <2>3
  <2> HIDE DEF U
  <2>5. /\ kept \in Seq(D) /\ Range(kept) = R /\ Once(kept) /\ kept # <<>>
    <3>1. kept = without(C, pending) BY <2>4
    <3>2. Once(C) BY <1>1, FollowsApart
    <3>3. /\ without(C, pending) \in Seq(D)
          /\ Range(without(C, pending)) = Range(C) \ pending
          /\ Once(without(C, pending))
      <4> HIDE DEF pending
      <4> QED BY <1>1, <3>2, WithoutIs
    <3>4. Range(C) \ pending = R BY <1>1, <1>6 DEF R
    <3>5. R # {} BY <1>1 DEF R, callsOf
    <3>6. Range(kept) # {} BY <3>1, <3>3, <3>4, <3>5
    <3> QED BY <3>1, <3>3, <3>4, <3>6, NoRange
  <2> HIDE DEF kept, pending
  <2>6. rest \in Seq(D) /\ Range(rest) = Range(C) \ R /\ Once(rest)
    <3>1. Once(C) /\ rest = without(C, R) BY <1>1, <2>4, <2>5, FollowsApart
    <3> QED BY <1>1, <3>1, WithoutIs
  <2> HIDE DEF rest
  <2> DEFINE mk == response(kept)
             mp == response(rest)
             b == Append(g, mk)
             d == Append(b, mr)
             e == Append(d, mp)
  <2>7. resume_history(h) = e
    <3> DEFINE M == M0 \cup {mc, mr, mk, mp}
    <3>1. g \in Seq(M) /\ mc \in M /\ mr \in M /\ mk \in M /\ mp \in M
      <4>1. M0 \subseteq M OBVIOUS
      <4> QED BY <2>1, <4>1, SeqMonotonic
    <3> HIDE DEF M, mk, mp
    <3>2. g \o <<mk>> \o <<mr>> \o <<mp>> = Append(Append(Append(g, mk), mr), mp)
      <4>1. Threads(g, mk, mr, mp) BY <3>1, OneByOne
      <4> QED BY <4>1 DEF Threads
    <3>3. /\ SubSeq(Append(Append(g, mc), mr), 1, n) = g
          /\ SubSeq(Append(Append(g, mc), mr), n + 2, n + 2) = <<mr>>
      <4>1. Threads(g, mc, mr, mp) BY <3>1, OneByOne
      <4> QED BY <4>1 DEF Threads
    <3>4. /\ SubSeq(h, 1, last - 1) = g
          /\ SubSeq(h, last + 1, Len(h)) = <<mr>>
      <4>1. last - 1 = n /\ last + 1 = n + 2 /\ Len(h) = n + 2 BY <1>4, <1>5, <2>3
      <4> QED BY <1>3, <3>3, <4>1 DEF a
    <3>5. ~(pending = {} \/ h[Len(h)].kind = "response") BY <1>2, <1>5, <1>8
    <3>6. resume_history(h) =
            IF pending = {} \/ h[Len(h)].kind = "response" THEN h
            ELSE SubSeq(h, 1, last - 1)
                   \o (IF kept = <<>> THEN <<>> ELSE <<response(kept)>>)
                   \o SubSeq(h, last + 1, Len(h))
                   \o <<response(rest)>>
      BY Zenon DEF resume_history, pending, U, last, kept, rest
    <3> QED BY <2>5, <3>2, <3>4, <3>5, <3>6 DEF mk, mp
  <2>8. /\ mk.calls = kept /\ mk.returns = <<>>
        /\ mp.calls = rest /\ mp.returns = <<>>
    BY DEF response
  <2> HIDE DEF mk, b
  <2>9. /\ IsHistory(D, b) /\ calls_made(b) = calls_made(g) \o kept
        /\ Requested(b) = Requested(g) \cup R /\ Returns(b) = Returns(g)
        /\ Returned(b) = Returned(g) /\ Behind(b)
    <3>1. mk.calls \in Seq(D) /\ Range(mk.returns) = {} /\ callsOf(mk.returns) = {}
      BY <1>2, <2>5, <2>8, NoRange
    <3>2. b = Append(g, mk) BY DEF b
    <3>3. Grows(D, g, mk)
      <4>1. IsMessage(D, mk) BY <3>1 DEF IsMessage
      <4> QED BY <1>1, <4>1, MessageMore
    <3> QED BY <1>1, <2>5, <2>8, <3>1, <3>2, <3>3 DEF Grows
  <2> HIDE DEF d
  <2>10. /\ IsHistory(D, d) /\ calls_made(d) = calls_made(g) \o kept
         /\ Requested(d) = Requested(g) \cup R
         /\ Returns(d) = Returns(g) \cup Range(rs)
         /\ Returned(d) = Returned(g) \cup R /\ Behind(d)
    <3>1. d = Append(b, mr) BY DEF d
    <3>2. /\ IsHistory(D, d) /\ calls_made(d) = calls_made(b) \o mr.calls
          /\ Requested(d) = Requested(b) \cup Range(mr.calls)
          /\ Returns(d) = Returns(b) \cup Range(mr.returns)
          /\ Returned(d) = Returned(b) \cup callsOf(mr.returns)
          /\ callsOf(mr.returns) \subseteq Requested(b) /\ Behind(b) => Behind(d)
      <4>1. IsMessage(D, mr) BY <1>2 DEF IsMessage
      <4>2. Grows(D, b, mr) BY <2>9, <4>1, MessageMore
      <4> QED BY <3>1, <4>2 DEF Grows
    <3>3. calls_made(b) \in Seq(D) BY <2>9, HistoryCalls
    <3>4. calls_made(b) \o <<>> = calls_made(b) BY <3>3, ConcatEmptySeq
    <3>5. Range(mr.calls) = {} BY <1>2, NoRange
    <3> QED BY <1>2, <2>9, <3>2, <3>4, <3>5 DEF R
  <2>11. Complete(D, d)
    <3>1. Requested(g) = Returned(g) BY <1>1, FollowsApart
    <3> QED BY <2>10, <3>1 DEF Complete
  <2>12. Follows(D, d, rest)
    <3>1. /\ calls_made(g) \in Seq(D) /\ Once(calls_made(g))
          /\ Range(calls_made(g)) \cap Range(C) = {}
      BY <1>1, FollowsApart
    <3>2. R \subseteq Range(C) BY <1>1 DEF R
    <3>3. Once(calls_made(g) \o kept)
      <4>1. Range(calls_made(g)) \cap Range(kept) = {} BY <2>5, <3>1, <3>2
      <4> QED BY <2>5, <3>1, <4>1, JoinedOnce
    <3>4. /\ calls_made(g) \o kept \in Seq(D)
          /\ Range(calls_made(g) \o kept) = Range(calls_made(g)) \cup R
      BY <2>5, <3>1, ConcatProperties, RangeConcatenation
    <3>5. Once((calls_made(g) \o kept) \o rest)
      <4>1. Range(calls_made(g) \o kept) \cap Range(rest) = {}
        BY <2>6, <3>1, <3>4
      <4> QED BY <2>6, <3>3, <3>4, <4>1, JoinedOnce
    <3> QED BY <2>6, <2>10, <2>11, <3>5 DEF Follows
  <2>13. Stands(D, e) BY <2>12 DEF Stands, Opens, mp
  <2>14. Requested(e) = Requested(d) \cup Range(rest) /\ Returns(e) = Returns(d)
    <3>1. mp.calls \in Seq(D) /\ Range(mp.returns) = {}
      BY <2>6, <2>8, NoRange
    <3> HIDE DEF mp
    <3>2. Grows(D, d, mp)
      <4>1. IsMessage(D, mp) BY <3>1 DEF IsMessage
      <4> QED BY <2>10, <4>1, MessageMore
    <3> QED BY <2>8, <2>10, <3>1, <3>2 DEF Grows
  <2>15. Requested(e) = Requested(h) /\ Returns(e) = Returns(h)
    <3>1. R \subseteq Range(C) BY <1>1 DEF R
    <3> QED BY <1>5, <2>6, <2>10, <2>14, <3>1
  <2> QED BY <2>7, <2>13, <2>15
<1> QED BY <1>7, <1>8

(* A set of places can be put in order. *)
Increases(q) == \A i, j \in DOMAIN q : i < j => q[i] < q[j]
Ordered(S) == \E q \in [1..Cardinality(S) -> S] : Increases(q)

LEMMA OrderExists ==
  ASSUME NEW n \in Nat, NEW T \in SUBSET (1..n) PROVE Ordered(T)
<1> DEFINE P(k) == \A S \in SUBSET (1..k) : Ordered(S)
<1>1. P(0)
  <2> SUFFICES ASSUME NEW S \in SUBSET (1..0) PROVE Ordered(S) OBVIOUS
  <2>1. S = {} /\ Cardinality(S) = 0
    <3>1. S = {} OBVIOUS
    <3> QED BY <3>1, FS_EmptySet
  <2>2. <<>> \in [1..0 -> S] /\ Increases(<<>>)
    <3>1. <<>> \in [1..0 -> S] BY <2>1
    <3>2. DOMAIN <<>> = {} OBVIOUS
    <3> QED BY <3>1, <3>2 DEF Increases
  <2> QED BY <2>1, <2>2 DEF Ordered
<1>2. ASSUME NEW k \in 1..n, P(k - 1) PROVE P(k)
  <2> SUFFICES ASSUME NEW S \in SUBSET (1..k) PROVE Ordered(S) OBVIOUS
  <2>1. CASE k \notin S
    <3>1. S \in SUBSET (1..(k - 1)) BY <2>1
    <3> QED BY <1>2, <3>1
  <2>2. CASE k \in S
    <3> DEFINE R == S \ {k}
               m == Cardinality(R)
    <3>1. R \in SUBSET (1..(k - 1)) OBVIOUS
    <3>2. IsFiniteSet(1..(k - 1))
      <4>1. 1 \in Int /\ k - 1 \in Int OBVIOUS
      <4> QED BY <4>1, FS_Interval
    <3>3. IsFiniteSet(R) /\ m \in Nat
      <4>1. IsFiniteSet(R)
        <5> HIDE DEF R
        <5> QED BY <3>1, <3>2, FS_Subset
      <4> QED BY <4>1, FS_CardinalityType
    <3>4. Cardinality(S) = m + 1
      <4>1. S = R \cup {k} /\ k \notin R BY <2>2
      <4> HIDE DEF R
      <4>2. Cardinality(R \cup {k}) = Cardinality(R) + 1 BY <3>3, <4>1, FS_AddElement
      <4> QED BY <4>1, <4>2
    <3>5. PICK q \in [1..m -> R] : Increases(q) BY <1>2, <3>1 DEF Ordered
    <3> DEFINE p == [i \in 1..(m + 1) |-> IF i = m + 1 THEN k ELSE q[i]]
    <3>6. \A i \in 1..m : q[i] \in S /\ q[i] \in 1..(k - 1) BY <3>1, <3>5
    <3> HIDE DEF m, R
    <3>7. p \in [1..(m + 1) -> S] BY <2>2, <3>3, <3>6
    <3>8. Increases(p)
      <4> SUFFICES ASSUME NEW i \in 1..(m + 1), NEW j \in 1..(m + 1), i < j
                   PROVE  p[i] < p[j]
        BY DEF Increases
      <4>1. i \in 1..m /\ p[i] = q[i] BY <3>3
      <4>2. CASE j = m + 1 BY <3>6, <4>1, <4>2
      <4>3. CASE j # m + 1
        <5>1. j \in 1..m /\ p[j] = q[j] BY <3>3, <4>3
        <5>2. DOMAIN q = 1..m BY <3>5
        <5> QED BY <3>5, <4>1, <5>1, <5>2 DEF Increases
      <4> QED BY <4>2, <4>3
    <3> QED BY <3>4, <3>7, <3>8 DEF Ordered
  <2> QED BY <2>1, <2>2
<1> HIDE DEF P
<1>3. {k \in 0..n : P(k)} = 0..n
  <2>1. 0 \in {k \in 0..n : P(k)} BY <1>1
  <2>2. \A i \in 1..n : i - 1 \in {k \in 0..n : P(k)} => i \in {k \in 0..n : P(k)}
    BY <1>2
  <2> QED BY <2>1, <2>2, Inducts
<1>4. P(n) BY <1>3
<1> QED BY <1>4 DEF P

LEMMA InOrderIs ==
  ASSUME NEW n \in Nat, NEW S \in SUBSET (1..n)
  PROVE  InOrder(S) \in [1..Cardinality(S) -> S]
<1>1. PICK q \in [1..Cardinality(S) -> S] : \A i, j \in DOMAIN q : i < j => q[i] < q[j]
  BY OrderExists DEF Ordered, Increases
<1> QED BY <1>1 DEF InOrder

(* What an attempt sees, with results of the calls it has to resume. *)
Gathered(results, h) ==
  \A c \in Calls : results[c] # NoResult => c \in PendingIn(h)

LEMMA CallsAre ==
  ASSUME made \in Batches
  PROVE  \E n \in Nat : Calls = 1..n
<1>1. PICK M : made \in Seq(M) BY BatchesAreCalls
<1> QED BY <1>1, LenProperties DEF Calls

LEMMA CheckpointRestores ==
  ASSUME made \in Batches, NEW h, Stands(Calls, h), NEW results, Gathered(results, h)
  PROVE  Restorable(Calls, checkpoint(h, results))
<1> DEFINE more == {c \in Calls : results[c] # NoResult} \ Returned(h)
           q == InOrder(more)
           rs == [i \in 1..Cardinality(more) |-> [call |-> q[i], result |-> results[q[i]]]]
<1>1. checkpoint(h, results) = IF more = {} THEN h ELSE Append(h, request(rs))
  BY DEF checkpoint
<1>2. CASE more = {} BY <1>1, <1>2 DEF Restorable
<1>3. CASE more # {}
  <2>1. PICK n \in Nat : Calls = 1..n BY CallsAre
  <2>2. more \in SUBSET (1..n) BY <2>1
  <2>3. more \subseteq PendingIn(h) /\ more \cap Returned(h) = {} BY DEF Gathered
  <2> HIDE DEF more
  <2>4. q \in [1..Cardinality(more) -> more] BY <2>2, InOrderIs
  <2>5. Cardinality(more) \in Nat /\ Cardinality(more) # 0
    <3>1. IsFiniteSet(1..n) BY FS_Interval
    <3>2. IsFiniteSet(more) BY <2>2, <3>1, FS_Subset
    <3> QED BY <1>3, <3>2, FS_CardinalityType, FS_EmptySet
  <2> HIDE DEF q
  <2>6. Range(rs) # {} /\ callsOf(rs) \subseteq more
    <3>1. Range(rs) = {rs[i] : i \in 1..Cardinality(more)} BY DEF Range
    <3>2. \A i \in 1..Cardinality(more) : rs[i].call \in more BY <2>4
    <3>3. 1 \in 1..Cardinality(more) BY <2>5
    <3> HIDE DEF rs
    <3> QED BY <3>1, <3>2, <3>3 DEF callsOf
  <2> HIDE DEF rs
  <2>7. CASE Complete(Calls, h)
    <3>1. IsHistory(Calls, h) /\ Requested(h) \subseteq Returned(h)
      BY <2>7 DEF Complete
    <3>2. PICK M : h \in Seq(M) BY <3>1 DEF IsHistory
    <3>3. h # <<>> => Len(h) \in DOMAIN h BY <3>2
    <3>4. PendingIn(h) \subseteq Requested(h) BY <3>3 DEF PendingIn, Requested
    <3> QED BY <1>3, <2>3, <3>1, <3>4
  <2>8. ASSUME NEW g, NEW C, Opens(Calls, h, g, C)
        PROVE  Restorable(Calls, checkpoint(h, results))
    <3>1. Follows(Calls, g, C) /\ h = Append(g, response(C)) BY <2>8 DEF Opens
    <3>2. PendingIn(h) = Range(C)
      <4>1. PICK M : g \in Seq(M) BY <3>1 DEF Follows, Complete, IsHistory
      <4> DEFINE m == response(C)
      <4>2. m.kind = "response" /\ m.calls = C BY DEF response
      <4> HIDE DEF m
      <4>3. g \in Seq(M \cup {m}) /\ m \in M \cup {m}
        <5>1. M \subseteq M \cup {m} OBVIOUS
        <5> QED BY <4>1, <5>1, SeqMonotonic
      <4>4. Len(g) \in Nat BY <4>1, LenProperties
      <4>5. h = Append(g, m) BY <3>1 DEF m
      <4>6. /\ Append(g, m) # <<>> /\ Len(Append(g, m)) = Len(g) + 1
            /\ Append(g, m)[Len(g) + 1] = m
        BY <4>3, <4>4, AppendProperties
      <4> QED BY <4>2, <4>5, <4>6 DEF PendingIn
    <3>3. Cuts(Calls, Append(h, request(rs)), g, C, rs)
      BY <2>3, <2>6, <3>1, <3>2 DEF Cuts
    <3> QED BY <1>1, <1>3, <3>3 DEF Restorable
  <2> QED BY <2>7, <2>8 DEF Stands
<1> QED BY <1>2, <1>3

(* The history of a version, whose session is s, attempt a and controls o. *)
Historied(D, s, o, a, h) ==
  /\ Stands(D, h)
  /\ a.mode \in {"idle", "opening"} => \A c \in D : o.results[c] = NoResult
  /\ \A c \in D : o.results[c] # NoResult => c \in PendingIn(h)
  /\ a.mode = "opening" /\ a.kind = "fork" =>
       Restorable(D, s.source.history) /\ h = resume_history(s.source.history)

Histories ==
  /\ \A b \in Branch :
       Historied(Calls, session[b], observed[b], attempt[b], history[b])
  /\ \A p \in points : Restorable(Calls, p.history)

(* The same of the state after a step. *)
HistoriedNext(b) ==
  Historied(Calls, session'[b], observed'[b], attempt'[b], history'[b])
StaysOf(b) ==
  /\ session'[b] = session[b] /\ observed'[b] = observed[b]
  /\ attempt'[b] = attempt[b] /\ history'[b] = history[b]

LEMMA HistoriesNext ==
  ASSUME Histories, made' = made, NEW b \in Branch, HistoriedNext(b),
         \A d \in Branch \ {b} : StaysOf(d),
         \A p \in points' : p \in points \/ Restorable(Calls, p.history)
  PROVE  Histories'
<1>1. Calls' = Calls BY DEF Calls
<1>2. ASSUME NEW d \in Branch
      PROVE  Historied(Calls, session'[d], observed'[d], attempt'[d], history'[d])
  BY DEF Histories, HistoriedNext, StaysOf
<1>3. \A p \in points' : Restorable(Calls, p.history) BY DEF Histories
<1> QED BY <1>1, <1>2, <1>3 DEF Histories, Branch

LEMMA NoHistoryStands == ASSUME NEW D PROVE Stands(D, <<>>)
<1>1. Complete(D, <<>>) /\ calls_made(<<>>) = <<>> BY HistoryNone
<1>2. Once(<<>>)
  <2>1. DOMAIN <<>> = {} OBVIOUS
  <2> QED BY <2>1 DEF Once
<1> QED BY <1>1, <1>2 DEF Stands

LEMMA HistoriesInit == Init => Histories
<1> SUFFICES ASSUME Init PROVE Histories OBVIOUS
<1>1. ASSUME NEW b \in Branch
      PROVE  Historied(Calls, session[b], observed[b], attempt[b], history[b])
  <2>1. history[b] = <<>> /\ observed[b] = NewControls BY <1>1 DEF Init
  <2>2. attempt[b].mode = "idle" BY <1>1 DEF Init, NewAttempt
  <2>3. \A c \in Calls : observed[b].results[c] = NoResult
    BY <2>1 DEF NewControls, noResults
  <2> QED BY <2>1, <2>2, <2>3, NoHistoryStands DEF Historied
<1>2. points = {} BY DEF Init
<1> QED BY <1>1, <1>2 DEF Histories

(* A point of a version. *)
LEMMA PointRestores ==
  ASSUME made \in Batches, NEW b \in Branch, NEW at, NEW c, NEW results,
         Stands(Calls, history[b]), Gathered(results, history[b])
  PROVE  Restorable(Calls, point(b, at, c, results).history)
<1>1. point(b, at, c, results).history = checkpoint(history[b], results)
  BY DEF point
<1> QED BY <1>1, CheckpointRestores

LEMMA RestoredStands ==
  ASSUME NEW D, NEW h, Restorable(D, h)
  PROVE  /\ Stands(D, resume_history(h)) /\ whole(resume_history(h))
         /\ Requested(resume_history(h)) = Requested(h)
         /\ Returns(resume_history(h)) = Returns(h)
<1>1. CASE Stands(D, h)
  <2>1. resume_history(h) = h BY <1>1, StandsWhole
  <2> QED BY <1>1, <2>1, StandsWhole
<1>2. ASSUME NEW g, NEW C, NEW rs, Cuts(D, h, g, C, rs)
      PROVE  /\ Stands(D, resume_history(h)) /\ whole(resume_history(h))
             /\ Requested(resume_history(h)) = Requested(h)
             /\ Returns(resume_history(h)) = Returns(h)
  <2>1. /\ Stands(D, resume_history(h))
        /\ Requested(resume_history(h)) = Requested(h)
        /\ Returns(resume_history(h)) = Returns(h)
    BY <1>2, ResumeStands
  <2> DEFINE k == resume_history(h)
  <2>2. Stands(D, k) BY <2>1
  <2> HIDE DEF k
  <2>3. whole(k) BY <2>2, StandsWhole
  <2> QED BY <2>1, <2>3 DEF k
<1> QED BY <1>1, <1>2 DEF Restorable

(* The beginning of an attempt. *)
LEMMA BeginHistories ==
  ASSUME Shape, Streams, NEW b \in Branch, NEW kind, begin(b, kind)
  PROVE  /\ attempt'[b].mode = "opening" /\ attempt'[b].kind = kind
         /\ \A c \in Calls : observed'[b].results[c] = NoResult
         /\ \A d \in Branch \ {b} : attempt'[d] = attempt[d] /\ observed'[d] = observed[d]
<1>1. attempt' = [attempt EXCEPT ![b] = NewAttempt(kind)]
      /\ observed' = [observed EXCEPT ![b] = NewControls]
      /\ DOMAIN attempt = Branch /\ DOMAIN observed = Branch
  BY DEF begin, Shape, Streams
<1>2. NewAttempt(kind).mode = "opening" /\ NewAttempt(kind).kind = kind
      /\ \A c \in Calls : NewControls.results[c] = NoResult
  BY DEF NewAttempt, NewControls, noResults
<1> QED BY <1>1, <1>2

LEMMA RequestHistories ==
  ASSUME Shape, Streams, Histories, Request PROVE Histories'
<1>1. DOMAIN session = Branch /\ DOMAIN history = Branch BY DEF Shape, Streams
<1>2. ASSUME NEW u \in Selections, Run(u) PROVE Histories'
  <2>1. 1 \in Branch BY <1>2 DEF Run, Next_, Unused
  <2>2. /\ begin(1, "run") /\ made' = made /\ history' = history /\ points' = points
        /\ \A d \in Branch \ {1} : session'[d] = session[d]
    BY <1>2 DEF Run
  <2>3. HistoriedNext(1)
    BY <2>1, <2>2, BeginHistories DEF Histories, Historied, HistoriedNext
  <2>4. \A d \in Branch \ {1} : StaysOf(d) BY <2>1, <2>2, BeginHistories DEF StaysOf
  <2> QED BY <2>1, <2>2, <2>3, <2>4, HistoriesNext
<1>3. ASSUME NEW b \in Branch, NEW u \in Selections, NEW p \in points,
             NEW rejournal \in BOOLEAN, Fork(b, p, u, rejournal)
      PROVE  Histories'
  <2>1. begin(b, "fork") /\ made' = made /\ points' = points BY <1>3 DEF Fork
  <2>2. /\ history'[b] = resume_history(p.history) /\ session'[b].source = p
        /\ \A d \in Branch \ {b} : session'[d] = session[d] /\ history'[d] = history[d]
    BY <1>1, <1>3 DEF Fork, NewSession
  <2>3. Restorable(Calls, p.history) BY DEF Histories
  <2>4. Stands(Calls, history'[b]) BY <2>2, <2>3, RestoredStands
  <2>5. HistoriedNext(b)
    BY <2>1, <2>2, <2>3, <2>4, BeginHistories DEF Historied, HistoriedNext
  <2>6. \A d \in Branch \ {b} : StaysOf(d) BY <2>1, <2>2, BeginHistories DEF StaysOf
  <2> QED BY <2>1, <2>5, <2>6, HistoriesNext
<1>4. ASSUME NEW b \in Branch, NEW c \in Calls, NEW says, NEW call,
             NEW u \in Selections, Resume(b, c, says, call, u)
      PROVE  Histories'
  <2>1. /\ begin(b, "resume") /\ made' = made /\ history' = history /\ points' = points
        /\ \A d \in Branch \ {b} : session'[d] = session[d]
    BY <1>1, <1>4 DEF Resume
  <2>2. HistoriedNext(b)
    BY <2>1, BeginHistories DEF Histories, Historied, HistoriedNext
  <2>3. \A d \in Branch \ {b} : StaysOf(d) BY <2>1, BeginHistories DEF StaysOf
  <2> QED BY <2>1, <2>2, <2>3, HistoriesNext
<1> QED BY <1>2, <1>3, <1>4 DEF Request

(* The model asks for the batch. *)
LEMMA BatchStands ==
  ASSUME made \in Batches
  PROVE  Stands(Calls, <<response([c \in Calls |-> c])>>)
<1>1. PICK n \in Nat : Calls = 1..n BY CallsAre
<1> DEFINE C == [c \in Calls |-> c]
<1>2. C \in Seq(Calls) /\ Once(C) BY <1>1 DEF Once
<1> HIDE DEF C
<1>3. Complete(Calls, <<>>) /\ calls_made(<<>>) = <<>>
  <2> DEFINE D == Calls
  <2> HIDE DEF D
  <2>1. Complete(D, <<>>) /\ calls_made(<<>>) = <<>> BY HistoryNone
  <2> QED BY <2>1 DEF D
<1>4. <<>> \o C = C BY <1>2, ConcatEmptySeq
<1>5. <<response(C)>> = Append(<<>>, response(C)) OBVIOUS
<1>6. Follows(Calls, <<>>, C) BY <1>2, <1>3, <1>4 DEF Follows
<1>7. Opens(Calls, <<response(C)>>, <<>>, C) BY <1>5, <1>6 DEF Opens
<1> QED BY <1>7 DEF Stands, C

LEMMA OpenHistories ==
  ASSUME Shape, Streams, Histories, NEW b \in Branch, Open(b) PROVE Histories'
<1>1. /\ DOMAIN session = Branch /\ DOMAIN history = Branch /\ DOMAIN attempt = Branch
      /\ made \in Batches
  BY DEF Shape, Streams
<1>2. /\ Stands(Calls, history[b]) /\ attempt[b].mode = "opening"
      /\ \A c \in Calls : observed[b].results[c] = NoResult
  BY DEF Histories, Historied, Open
<1>3. /\ attempt'[b].mode = "running" /\ made' = made /\ observed' = observed
      /\ \A d \in Branch \ {b} : attempt'[d] = attempt[d]
  BY <1>1 DEF Open, Shape, AttemptType
<1> DEFINE p == point(b, "input", 0, noResults)
<1>4. /\ history' = history \/ history' = [history EXCEPT ![b] =
                                  <<response([c \in Calls |-> c])>>]
      /\ session' = session \/ session' = [session EXCEPT ![b].forkable = @ \cup {p}]
      /\ points' = points \/ points' = points \cup {p}
  BY DEF Open
<1>5. Restorable(Calls, p.history)
  <2>1. Gathered(noResults, history[b]) BY DEF Gathered, noResults
  <2> QED BY <1>1, <1>2, <2>1, PointRestores
<1> HIDE DEF p
<1>6. Stands(Calls, history'[b])
  <2> DEFINE q == <<response([c \in Calls |-> c])>>
  <2>1. Stands(Calls, q) BY <1>1, BatchStands
  <2>2. history' = history \/ history' = [history EXCEPT ![b] = q] BY <1>4
  <2> HIDE DEF q
  <2> QED BY <1>1, <1>2, <2>1, <2>2
<1>7. HistoriedNext(b) BY <1>2, <1>3, <1>6 DEF Historied, HistoriedNext
<1>8. \A d \in Branch \ {b} : StaysOf(d) BY <1>1, <1>3, <1>4 DEF StaysOf
<1>9. \A r \in points' : r \in points \/ Restorable(Calls, r.history)
  BY <1>4, <1>5
<1> QED BY <1>3, <1>7, <1>8, <1>9, HistoriesNext

(* A step of an attempt that has begun: its history stays, and a result it  *)
(* adds is that of a call it resumes.                                       *)
GoesOn(b, c) ==
  /\ made' = made /\ history' = history
  /\ attempt[b].mode \notin {"idle", "opening"}
  /\ attempt'[b].mode \notin {"idle", "opening"}
  /\ \A d \in Branch \ {b} :
       /\ session'[d] = session[d] /\ observed'[d] = observed[d]
       /\ attempt'[d] = attempt[d]
  /\ \A e \in Calls : \/ observed'[b].results[e] = observed[b].results[e]
                      \/ e = c /\ c \in Pending(b)
  /\ \A p \in points' : p \in points \/ Restorable(Calls, p.history)

LEMMA GoOn ==
  ASSUME Histories, NEW b \in Branch, NEW c, GoesOn(b, c) PROVE Histories'
<1>1. HistoriedNext(b)
  BY PendingIs DEF Histories, Historied, HistoriedNext, GoesOn
<1>2. \A d \in Branch \ {b} : StaysOf(d) BY DEF StaysOf, GoesOn
<1> QED BY <1>1, <1>2, HistoriesNext DEF GoesOn

(* What a call that is resumed adds can be restored, before and after. *)
LEMMA CallRestores ==
  ASSUME made \in Batches, Histories, NEW b \in Branch, NEW c \in Pending(b),
         NEW results, NEW at, NEW d,
         \A e \in Calls : e = c \/ results[e] = observed[b].results[e]
  PROVE  Restorable(Calls, point(b, at, d, results).history)
<1>1. Stands(Calls, history[b]) BY DEF Histories, Historied
<1>2. Gathered(results, history[b])
  BY PendingIs DEF Histories, Historied, Gathered
<1> QED BY <1>1, <1>2, PointRestores

LEMMA GateHistories ==
  ASSUME Shape, Streams, Histories, NEW b \in Branch, NEW c \in Calls, Turn(b, c),
         NEW hooks, NEW reads, NEW r, gate(b, c, hooks, reads, r)
  PROVE  Histories'
<1>1. made \in Batches /\ DOMAIN observed = Branch /\ DOMAIN session = Branch
      /\ DOMAIN attempt = Branch /\ DOMAIN observed[b] = Controls
  BY DEF Shape, Streams, Streamed
<1>2. c \in Pending(b) /\ attempt[b].mode = "running" BY DEF Turn, Ready
<1> DEFINE results == [observed[b].results EXCEPT ![c] = r]
           before == point(b, "tool", c, observed[b].results)
           after == point(b, "result", c, results)
<1>3. \A e \in Calls : e = c \/ results[e] = observed[b].results[e] OBVIOUS
<1>4. Restorable(Calls, before.history) BY <1>1, <1>2, CallRestores
<1>5. Restorable(Calls, after.history)
  <2> HIDE DEF results
  <2> QED BY <1>1, <1>2, <1>3, CallRestores
<1>6. \A p \in points' : p \in points \/ p = before \/ p = after
  <2> HIDE DEF before, after
  <2>1. points' = points \cup {before} \cup (IF r.text = "refused" THEN {after} ELSE {})
    BY DEF gate, before, after, results
  <2> QED BY <2>1
<1> HIDE DEF before, after
<1>7. /\ attempt'[b].mode = attempt[b].mode /\ made' = made /\ history' = history
      /\ \A d \in Branch \ {b} : attempt'[d] = attempt[d]
  BY DEF gate, Shape, AttemptType
<1>8. \A d \in Branch \ {b} : session'[d] = session[d] /\ observed'[d] = observed[d]
  BY <1>1 DEF gate
<1>9. observed'[b].results = IF r.text = "refused" THEN results ELSE observed[b].results
  BY <1>1 DEF gate, Controls
<1>10. \A e \in Calls : observed'[b].results[e] = observed[b].results[e] \/ e = c
  BY <1>3, <1>9
<1>11. \A p \in points' : p \in points \/ Restorable(Calls, p.history)
  BY <1>4, <1>5, <1>6
<1>12. GoesOn(b, c) BY <1>2, <1>7, <1>8, <1>10, <1>11 DEF GoesOn
<1> QED BY <1>12, GoOn

LEMMA PostToolUseHistories ==
  ASSUME Shape, Streams, Histories, NEW b \in Branch, NEW c \in Calls, PostToolUse(b, c)
  PROVE  Histories'
<1>1. made \in Batches /\ DOMAIN observed = Branch /\ DOMAIN session = Branch
      /\ DOMAIN attempt = Branch /\ DOMAIN observed[b] = Controls
  BY DEF Shape, Streams, Streamed
<1>2. c \in Pending(b) /\ attempt[b].mode = "running" BY DEF PostToolUse, Turn, Ready
<1>3. PICK r, after, gates, acted :
        /\ after = point(b, "result", c, [observed[b].results EXCEPT ![c] = r])
        /\ points' = points \cup {after}
        /\ session' = [session EXCEPT ![b].forkable = @ \cup gates \cup {after}]
        /\ observed' = [observed EXCEPT
             ![b].results = [observed[b].results EXCEPT ![c] = r],
             ![b].announced = @ \cup {c},
             ![b].answered = @ \cup {c},
             ![b].acted = @ \cup acted]
  BY Zenon DEF PostToolUse
<1> DEFINE results == [observed[b].results EXCEPT ![c] = r]
<1>4. \A e \in Calls : e = c \/ results[e] = observed[b].results[e] OBVIOUS
<1>5. Restorable(Calls, after.history)
  <2>1. after = point(b, "result", c, results) BY <1>3
  <2> HIDE DEF results
  <2> QED BY <1>1, <1>2, <1>4, <2>1, CallRestores
<1>6. /\ attempt'[b].mode = attempt[b].mode /\ made' = made /\ history' = history
      /\ \A d \in Branch \ {b} : attempt'[d] = attempt[d]
  BY DEF PostToolUse, Shape, AttemptType
<1>7. \A d \in Branch \ {b} : session'[d] = session[d] /\ observed'[d] = observed[d]
  BY <1>1, <1>3
<1>8. observed'[b].results = results BY <1>1, <1>3 DEF Controls
<1>9. \A p \in points' : p \in points \/ Restorable(Calls, p.history) BY <1>3, <1>5
<1>10. GoesOn(b, c) BY <1>2, <1>4, <1>6, <1>7, <1>8, <1>9 DEF GoesOn
<1> QED BY <1>10, GoOn

(* The steps that add no result and no point. *)
LEMMA QuietHistories ==
  ASSUME Shape, Streams, Histories, NEW b \in Branch, NEW c \in Calls,
         \/ Execute(b, c) \/ Replay(b, c) \/ Bypass(b, c) \/ ProjectMissing(b, c)
  PROVE  Histories'
<1>1. DOMAIN observed = Branch /\ DOMAIN attempt = Branch /\ DOMAIN observed[b] = Controls
  BY DEF Shape, Streams, Streamed
<1>2. /\ attempt[b].mode \in {"running", "finishing"}
      /\ made' = made /\ history' = history /\ session' = session /\ points' = points
  BY DEF Execute, Replay, Bypass, ProjectMissing, Turn, Ready
<1>3. /\ attempt'[b].mode = attempt[b].mode
      /\ \A d \in Branch \ {b} : attempt'[d] = attempt[d]
  <2>1. CASE Execute(b, c) BY <2>1 DEF Execute, Shape, AttemptType
  <2>2. CASE Replay(b, c) BY <2>2 DEF Replay, Shape, AttemptType
  <2>3. CASE Bypass(b, c) BY <2>3 DEF Bypass, Shape, AttemptType
  <2>4. CASE ProjectMissing(b, c) BY <2>4 DEF ProjectMissing
  <2> QED BY <2>1, <2>2, <2>3, <2>4
<1>4. /\ observed'[b].results = observed[b].results
      /\ \A d \in Branch \ {b} : observed'[d] = observed[d]
  BY <1>1 DEF Execute, Replay, Bypass, ProjectMissing, Controls
<1>5. GoesOn(b, c) BY <1>2, <1>3, <1>4 DEF GoesOn
<1> QED BY <1>5, GoOn

LEMMA ModeHistories ==
  ASSUME Shape, Streams, Histories, NEW b \in Branch,
         Suspend(b) \/ StayParked(b) \/ Finish(b) \/ Outcome(b)
  PROVE  Histories'
<1>1. DOMAIN session = Branch /\ DOMAIN attempt = Branch
  BY DEF Shape
<1>2. /\ attempt[b].mode \notin {"idle", "opening"}
      /\ attempt'[b].mode \notin {"idle", "opening"}
      /\ made' = made /\ history' = history /\ observed' = observed /\ points' = points
      /\ \A d \in Branch \ {b} : attempt'[d] = attempt[d] /\ session'[d] = session[d]
  BY <1>1 DEF Suspend, StayParked, Finish, Outcome, Ready, Shape, AttemptType
<1>3. GoesOn(b, 0) BY <1>2 DEF GoesOn
<1> QED BY <1>3, GoOn

LEMMA HistoriesStep ==
  ASSUME Shape, Lines, Streams, Histories, [Next]_vars PROVE Histories'
<1>1. CASE UNCHANGED vars
  BY <1>1 DEF vars, Histories, Historied, Calls, Branch
<1>2. CASE Request BY <1>2, RequestHistories
<1>3. ASSUME NEW b \in Branch, Open(b) PROVE Histories' BY <1>3, OpenHistories
<1>4. ASSUME NEW b \in Branch, Suspend(b) \/ StayParked(b) \/ Finish(b) \/ Outcome(b)
      PROVE  Histories'
  BY <1>4, ModeHistories
<1>5. ASSUME NEW b \in Branch, NEW c \in Calls, PreToolUse(b, c) \/ OnResume(b, c)
      PROVE  Histories'
  <2>1. PICK hooks, reads, r : Turn(b, c) /\ gate(b, c, hooks, reads, r)
    BY <1>5 DEF PreToolUse, OnResume
  <2> QED BY <2>1, GateHistories
<1>6. ASSUME NEW b \in Branch, NEW c \in Calls, PostToolUse(b, c) PROVE Histories'
  BY <1>6, PostToolUseHistories
<1>7. ASSUME NEW b \in Branch, NEW c \in Calls,
             Execute(b, c) \/ Replay(b, c) \/ Bypass(b, c) \/ ProjectMissing(b, c)
      PROVE  Histories'
  BY <1>7, QuietHistories
<1> QED BY <1>1, <1>2, <1>3, <1>4, <1>5, <1>6, <1>7 DEF Next, Hook

(* A fork starts from a history that is whole, and loses nothing of its     *)
(* restore point (resume_history of console/fork_demo.py).                  *)
THEOREM HistoriesAreWhole == Spec => []HistoryIsWhole
<1>1. Histories => HistoryIsWhole
  <2> SUFFICES ASSUME Histories, NEW b \in Branch,
                      attempt[b].mode = "opening", attempt[b].kind = "fork"
               PROVE  LET from == session[b].source.history
                          h == history[b]
                      IN  /\ whole(h)
                          /\ Requested(h) = Requested(from)
                          /\ Returns(h) = Returns(from)
    BY Zenon DEF HistoryIsWhole
  <2> DEFINE from == session[b].source.history
  <2>1. Restorable(Calls, from) /\ history[b] = resume_history(from)
    BY DEF Histories, Historied
  <2> HIDE DEF from
  <2> QED BY <2>1, RestoredStands DEF from
<1>2. IInv => Shape /\ Lines BY DEF IInv
<1> QED BY <1>1, <1>2, HistoriesInit, HistoriesStep, Always, StreamsAgree, PTL DEF Spec
=============================================================================
