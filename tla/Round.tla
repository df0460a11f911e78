-------------------------------- MODULE Round --------------------------------
(***************************************************************************)
(* One round of tool calls of one branch, from the gates to the frames.    *)
(*                                                                         *)
(* The model has asked for a batch of calls. An attempt (a run, a          *)
(* resumption, a recovery) is one stream: the engine calls the hooks of    *)
(* ObservedControls (console/runtime.py), which ask the policies and emit  *)
(* frames; put (console/server.py) stamps each frame through the           *)
(* EventCheckpointProjector (console/fork_demo.py), registers what it      *)
(* makes forkable and keeps it. The three writes of a put are three steps, *)
(* and a worker may die or an attempt be cancelled between any two.        *)
(*                                                                         *)
(* Frames that carry no coordinate and no answer are left out.             *)
(***************************************************************************)
EXTENDS Policies

CONSTANTS Batches,     \* the batches the model may ask for
          Selections,  \* the sets of units a request may select
          Edits,       \* <<call, call>>: what an approval may make of a call
          MaxStreams,  \* bound: attempts of the branch
          MaxCuts      \* bound: deaths of the worker and cancellations

ASSUME BatchesAreCalls ==
  \A made \in Batches :
    made \in Seq(CallType({made[i].request : i \in DOMAIN made}))
ASSUME SelectionsAreUnits == Selections \subseteq SUBSET Units
ASSUME EditsKeepTheTool ==
  \A e \in Edits : /\ e[2] \in CallType({e[2].request})
                   /\ e[2].effect = e[1].effect
ASSUME RoundBounds == MaxStreams \in Nat /\ MaxCuts \in Nat

None == 0
Nobody == <<0, 0>>

VARIABLES
  made,      \* the calls of the round; a call is its place in the batch
  amended,   \* the calls as the answers last given would have them
  \* what the engine keeps of the branch
  ledger,    \* the tool records that are done
  journaled, \* the calls whose journal marker is written
  refused,   \* the calls a policy has denied
  asked,     \* the calls parked for a person
  answer,    \* what the person said
  \* the attempt: its stream, its units, the progress of each call in it
  mode, kind, command, units, at, base,
  results, answered,          \* ObservedControls
  todo, put,                  \* frames still to put; which write comes next
  \* the worker's session and its projector
  live, forkable, gates, rebuild, loaded, scope, sequence, seam,
  \* what outlives the worker: the session record and the transcript
  selected, saved, terminal, broken, points, kept,
  \* history and bounds
  ran, denials, streams, closed, cuts, unread

engine == <<ledger, journaled, refused, asked, answer>>
attempt == <<mode, kind, command, units, at, base>>
observed == <<results, answered>>
projector == <<gates, rebuild, loaded, scope, sequence>>
record == <<selected, saved, terminal, broken>>
transcript == <<points, kept>>
history == <<ran, denials, streams, closed, cuts, unread>>
vars == <<made, amended, engine, attempt, observed, todo, put, live, forkable,
          projector, seam, record, transcript, history>>

Calls == DOMAIN made

Edited(call) == {call} \cup {e[2] : e \in {x \in Edits : x[1] = call}}

(* The call as it is gated and run: an approval may bring arguments of its  *)
(* own. The batch the engine logs stays as the model made it.               *)
called(c) == IF answer[c] = "approve" THEN amended[c] ELSE made[c]

----------------------------------------------------------------------------
(* Frames, as the hooks emit them. answers is what the coordinate's native  *)
(* history holds of this round; a frame without one has no boundary.        *)

coordinateFrame(boundary, c, answers) ==
  [boundary |-> boundary, call |-> c, answers |-> answers,
   id |-> Nobody, forkable |-> FALSE, edge |-> "none",
   updates |-> {}, rebuild |-> Nobody]

answerFrame(c) == coordinateFrame("none", c, {})

(* The history an attempt sees, and the results it has that are not in it. *)
checkpoint(got) == base \cup got

gatePoint(c) == coordinateFrame("tool", c, checkpoint(results))

(* Mutant: the coordinate is taken before the result is noted. *)
resultPoint_Early(c) == coordinateFrame("result", c, checkpoint(results))

(* The result is among the results before its coordinate is taken. *)
resultPoint(c) ==
  coordinateFrame("result", c, checkpoint(results \cup {c}))

edgeOf(boundary) == CASE boundary \in {"input", "tool"} -> "before"
                      [] boundary = "result"            -> "after"
                      [] OTHER                          -> "none"

----------------------------------------------------------------------------
(* The record of a session holds its restore points. A worker that lost the *)
(* session reads it back and makes a projector that has seen nothing.       *)

(* Mutant: forkable_events is not among the durable keys. *)
_remember_session_Without == saved

_remember_session == forkable

rehydrate ==
  /\ live' = TRUE
  /\ IF live
     THEN UNCHANGED <<forkable, gates, rebuild, scope, sequence>>
     ELSE /\ forkable' = saved
          /\ gates' = [c \in Calls |-> {}]
          /\ rebuild' = [c \in Calls |-> Nobody]
          /\ scope' = scope + 1
          /\ sequence' = 0

(* A stream begins with a meta frame. It is the first that a new projector  *)
(* stamps: loaded is set, and the gates of the branch are then read.        *)
begin(k, answers, u, history0) ==
  /\ mode = "idle"
  /\ streams < MaxStreams
  /\ streams' = streams + 1
  /\ mode' = IF live /\ loaded THEN "opening" ELSE "loading"
  /\ loaded' = TRUE
  /\ kind' = k
  /\ command' = answers
  /\ units' = u
  /\ base' = history0
  /\ at' = [c \in Calls |-> IF c \in history0 THEN "answered" ELSE "todo"]
  /\ results' = {}
  /\ answered' = {}
  /\ broken' = FALSE

noAnswer == [c \in Calls |-> "none"]

(* POST /api/run: the session is made and remembered. crashes: a scenario  *)
(* that kills its worker.                                                  *)
Run(u, crashes) ==
  /\ streams = 0
  /\ begin("run", noAnswer, u, {})
  /\ rehydrate
  /\ selected' = u
  /\ seam' = crash_point(crashes, u)
  /\ UNCHANGED <<made, amended, engine, todo, put, saved, terminal,
                 transcript, ran, denials, closed, cuts, unread>>

(* POST /api/resume: the person answers one parked call; an approval may   *)
(* change its arguments, and the request the units, which are remembered   *)
(* before the attempt begins.                                              *)
Resume(c, says, call, u) ==
  /\ streams > 0
  /\ c \in asked
  /\ answer[c] = "none"
  /\ call \in IF says = "approve" THEN Edited(made[c]) ELSE {made[c]}
  /\ amended' = [amended EXCEPT ![c] = call]
  /\ begin("resume", [answer EXCEPT ![c] = says], u, {})
  /\ rehydrate
  /\ selected' = u
  /\ saved' = IF live THEN _remember_session ELSE saved
  /\ UNCHANGED <<made, engine, todo, put, seam, terminal, transcript, ran,
                 denials, closed, cuts, unread>>

(* The later of two events; a projector numbers its own, and each new one   *)
(* has a scope of its own.                                                  *)
later(i, j) == i[1] > j[1] \/ (i[1] = j[1] /\ i[2] >= j[2])

(* The last tool checkpoint of this branch.                                *)
toolPoints == {p \in points : p.boundary = "tool"}
_interrupted_history(p) ==
  p \in toolPoints /\ \A q \in toolPoints : later(p.id, q.id)

(* POST /api/recover, of an attempt that was cut off.                      *)
Recover(p) ==
  /\ broken
  /\ ~terminal
  /\ _interrupted_history(p)
  /\ begin("recover", noAnswer, selected, p.answers)
  /\ rehydrate
  /\ UNCHANGED <<made, amended, engine, todo, put, seam, selected, saved,
                 terminal, transcript, ran, denials, closed, cuts, unread>>

(* Mutant: a projector starts from nothing. *)
loadedGates_None == [c \in Calls |-> {}]

loadedGates == [c \in Calls |-> {p.id : p \in {q \in toolPoints : q.call = c}}]

(* The meta frame is out: the command goes to the engine, which keeps the   *)
(* answer; a run begins with on_inputs, whose frame has a coordinate.       *)
Open ==
  /\ mode \in {"loading", "opening"}
  /\ mode' = "running"
  /\ gates' = IF mode = "loading" THEN loadedGates ELSE gates
  /\ answer' = command
  /\ asked' = IF kind = "resume" THEN asked ELSE {}
  /\ todo' = IF kind = "run" THEN <<coordinateFrame("input", None, {})>>
             ELSE <<>>
  /\ UNCHANGED <<made, amended, ledger, journaled, refused, kind, command,
                 units, at, base, observed, put, live, forkable, rebuild,
                 loaded, scope, sequence, seam, record, transcript, history>>

----------------------------------------------------------------------------
(* The hooks. One step of the engine begins when everything the hook        *)
(* before it emitted has been put.                                          *)

Drained == mode = "running" /\ todo = <<>>
Unanswered == {c \in asked : answer[c] = "none"}
Ready == Drained /\ Unanswered = {}

(* Every tool is sequential: a call has its turn when the ones before it   *)
(* in the batch have had theirs in this attempt.                           *)
settled == {c \in Calls : at[c] \in {"asked", "denied", "answered"}}
Turn(c) == Ready /\ \A d \in Calls : d < c => d \in settled

outsideHooks == <<made, amended, streams, closed, cuts, unread, kind, command,
                  units, base, put, live, forkable, projector, record,
                  transcript>>

(* _decision, after the gate's own frame. *)
decide(c, verdict) ==
  /\ at' = [at EXCEPT ![c] = CASE verdict = "deny"    -> "denied"
                               [] verdict = "suspend" -> "asked"
                               [] OTHER               -> "let"]
  /\ IF verdict = "deny"
     THEN /\ results' = results \cup {c}
          /\ answered' = answered \cup {c}
          /\ refused' = refused \cup {c}
          /\ denials' = denials \cup
               {[call |-> c, as |-> called(c), units |-> units]}
          /\ todo' = <<gatePoint(c), answerFrame(c), resultPoint(c)>>
     ELSE /\ todo' = <<gatePoint(c)>>
          /\ UNCHANGED <<results, answered, refused, denials>>

(* pre_tool_use. The stage that crashes before approval is asked first.    *)
PreToolUse(c) ==
  /\ Turn(c)
  /\ at[c] = "todo"
  /\ c \notin journaled
  /\ c \notin asked
  /\ IF seam = "gate"
     THEN /\ todo' = <<gatePoint(c)>>
          /\ seam' = "none"
          /\ mode' = "crashing"
          /\ UNCHANGED <<at, observed, engine, denials>>
     ELSE /\ decide(c, Permissions(units, made, called(c)))
          /\ UNCHANGED <<mode, seam, ledger, journaled, asked, answer>>
  /\ UNCHANGED <<outsideHooks, ran>>

(* on_resume, once every parked call of the batch has been answered. *)
OnResume(c) ==
  /\ Turn(c)
  /\ kind = "resume"
  /\ at[c] = "todo"
  /\ c \in asked
  /\ answer[c] = "approve"
  /\ decide(c, revalidate(units, made, called(c)))
  /\ UNCHANGED <<outsideHooks, ran, mode, seam, ledger, journaled, asked,
                 answer>>

(* The body runs and its tool record lands, unless it is there already;    *)
(* finish_effect then fires a commit seam.                                 *)
Execute(c) ==
  /\ Turn(c)
  /\ at[c] = "let"
  /\ at' = [at EXCEPT ![c] = "ran"]
  /\ IF c \in ledger
     THEN UNCHANGED <<ledger, ran, seam, mode>>
     ELSE /\ ledger' = ledger \cup {c}
          /\ ran' = ran \cup {[call |-> c, as |-> called(c), units |-> units,
                               approved |-> answer[c] = "approve"]}
          /\ IF seam = "commit"
             THEN seam' = "none" /\ mode' = "crashing"
             ELSE UNCHANGED <<seam, mode>>
  /\ UNCHANGED <<outsideHooks, observed, todo, journaled, refused, asked,
                 answer, denials>>

(* A recovery may take a recorded result straight to its journal. *)
Replay(c) ==
  /\ Turn(c)
  /\ kind = "recover"
  /\ at[c] = "todo"
  /\ c \in ledger \ journaled
  /\ at' = [at EXCEPT ![c] = "ran"]
  /\ UNCHANGED <<outsideHooks, engine, mode, observed, todo, seam, ran,
                 denials>>

PostToolUse(c) ==
  /\ Turn(c)
  /\ at[c] = "ran"
  /\ at' = [at EXCEPT ![c] = "posted"]
  /\ results' = results \cup {c}
  /\ answered' = answered \cup {c}
  /\ todo' = <<resultPoint(c), answerFrame(c), resultPoint(c)>>
  /\ UNCHANGED <<outsideHooks, engine, mode, seam, ran, denials>>

(* The engine marks the call journaled when the hook has returned. *)
Mark(c) ==
  /\ Turn(c)
  /\ at[c] = "posted"
  /\ at' = [at EXCEPT ![c] = "answered"]
  /\ journaled' = journaled \cup {c}
  /\ UNCHANGED <<outsideHooks, ledger, refused, asked, answer, mode,
                 observed, todo, seam, ran, denials>>

(* A call whose answer the engine has gets no hook: it was journaled, a    *)
(* policy denied it in an earlier attempt, or the person said no.          *)
Bypass(c) ==
  /\ Turn(c)
  /\ at[c] = "todo"
  /\ \/ c \in journaled
     \/ c \in refused
     \/ answer[c] = "deny"
  /\ at' = [at EXCEPT ![c] = "answered"]
  /\ UNCHANGED <<outsideHooks, engine, mode, observed, todo, seam, ran,
                 denials>>

(* AgentSuspended: a gate of this attempt wants a person asked. *)
Suspend ==
  /\ Ready
  /\ LET waiting == {c \in Calls : at[c] = "asked"}
     IN  /\ waiting # {}
         /\ settled = Calls
         /\ asked' = waiting
  /\ mode' = "closing"
  /\ UNCHANGED <<outsideHooks, ledger, journaled, refused, answer, at,
                 observed, todo, seam, ran, denials>>

(* A batch waits for every answer: a resumption that leaves calls of it    *)
(* unanswered runs none.                                                   *)
StayParked ==
  /\ Drained
  /\ Unanswered # {}
  /\ mode' = "closing"
  /\ UNCHANGED <<outsideHooks, engine, at, observed, todo, seam, ran,
                 denials>>

(* The round is over. *)
Finish ==
  /\ Ready
  /\ settled = Calls
  /\ \A c \in Calls : at[c] # "asked"
  /\ mode' = "finishing"
  /\ UNCHANGED <<outsideHooks, engine, at, observed, todo, seam, ran,
                 denials>>

(* Mutant: nothing is projected. *)
project_missing_None == {}

(* The returns the round adds to the history that no hook has shown. *)
project_missing == Calls \ (base \cup answered)

ProjectMissing(c) ==
  /\ mode = "finishing"
  /\ todo = <<>>
  /\ c \in project_missing
  /\ \A d \in project_missing : c <= d
  /\ answered' = answered \cup {c}
  /\ todo' = <<answerFrame(c)>>
  /\ UNCHANGED <<outsideHooks, engine, mode, at, results, seam, ran, denials>>

----------------------------------------------------------------------------
(* put: stamp the frame, register it, keep it.                              *)

Stamping == todo # <<>>
outsidePut == <<made, amended, engine, attempt, observed, live, scope, seam,
                record, history>>

(* stamp, up to and with the append of the checkpoint. *)
Stamp ==
  /\ Stamping
  /\ put = "append"
  /\ LET frame == Head(todo)
         event_id == <<scope, sequence>>
     IN  /\ points' = IF frame.boundary = "none" THEN points
                      ELSE points \cup
                        {[id |-> event_id, boundary |-> frame.boundary,
                          call |-> frame.call, answers |-> frame.answers]}
         /\ todo' = <<[frame EXCEPT !.id = event_id]>> \o Tail(todo)
  /\ sequence' = sequence + 1
  /\ put' = "register"
  /\ UNCHANGED <<outsidePut, forkable, gates, rebuild, loaded, kept>>

(* The rest of stamp: what a frame finalizes and what it rebuilds from. *)
latest(ids) ==
  LET last == {i \in ids : \A j \in ids : later(i, j)}
  IN  IF last = {} THEN Nobody ELSE CHOOSE i \in last : TRUE

finalized(frame) == IF frame.boundary = "result" THEN gates[frame.call] ELSE {}

rebuiltFrom(frame) ==
  IF frame.boundary = "tool" THEN frame.id
  ELSE IF finalized(frame) # {} THEN latest(finalized(frame))
  ELSE rebuild[frame.call]

stamped(frame) ==
  [frame EXCEPT
     !.edge = edgeOf(frame.boundary),
     !.forkable = frame.boundary \in {"input", "result"},
     !.updates = finalized(frame),
     !.rebuild = IF frame.boundary = "result" THEN rebuiltFrom(frame)
                 ELSE Nobody]

(* Mutant: a frame is registered whether it is forkable or not. *)
_register_frame_Any(frame) ==
  forkable
    \cup {[id |-> frame.id, edge |-> frame.edge]}
    \cup {[id |-> g, edge |-> "before"] : g \in frame.updates}

_register_frame(frame) ==
  forkable
    \cup (IF frame.forkable THEN {[id |-> frame.id, edge |-> frame.edge]}
          ELSE {})
    \cup {[id |-> g, edge |-> "before"] : g \in frame.updates}

(* Nothing is awaited between the two. *)
Register ==
  /\ Stamping
  /\ put = "register"
  /\ LET frame == Head(todo)
         c == frame.call
     IN  /\ gates' = CASE frame.boundary = "tool" ->
                           [gates EXCEPT ![c] = @ \cup {frame.id}]
                      [] frame.boundary = "result" ->
                           [gates EXCEPT ![c] = {}]
                      [] OTHER -> gates
         /\ rebuild' = IF c = None THEN rebuild
                       ELSE [rebuild EXCEPT ![c] = rebuiltFrom(frame)]
         /\ todo' = <<stamped(frame)>> \o Tail(todo)
         /\ forkable' = _register_frame(stamped(frame))
  /\ put' = "keep"
  /\ UNCHANGED <<outsidePut, loaded, sequence, transcript>>

(* _keep_frame. *)
Keep ==
  /\ Stamping
  /\ put = "keep"
  /\ kept' = kept \cup {[stream |-> streams, frame |-> Head(todo)]}
  /\ todo' = Tail(todo)
  /\ put' = "append"
  /\ UNCHANGED <<outsidePut, forkable, projector, points>>

----------------------------------------------------------------------------
(* How an attempt ends. *)

(* The outcome of a finished round marks the run terminal. *)
Outcome ==
  /\ mode = "finishing"
  /\ todo = <<>>
  /\ project_missing = {}
  /\ terminal' = TRUE
  /\ mode' = "closing"
  /\ UNCHANGED <<made, amended, engine, kind, command, units, at, base,
                 observed, todo, put, live, forkable, projector, seam,
                 selected, saved, broken, transcript, history>>

(* run_attempt's finally: the session is remembered and the stream ends. *)
Close ==
  /\ mode \in {"closing", "crashing"}
  /\ todo = <<>>
  /\ mode' = "idle"
  /\ broken' = (broken \/ mode = "crashing")
  /\ saved' = _remember_session
  /\ closed' = closed \cup {streams}
  /\ UNCHANGED <<made, amended, engine, kind, command, units, at, base,
                 observed, todo, put, live, forkable, projector, seam,
                 selected, terminal, transcript, ran, denials, streams, cuts,
                 unread>>

(* The client leaves or the operator aborts: the attempt is cancelled at   *)
(* the await it is at, and what was to be put is not.                      *)
Cancel ==
  /\ mode \in {"running", "finishing"}
  /\ cuts < MaxCuts
  /\ cuts' = cuts + 1
  /\ mode' = "closing"
  /\ todo' = <<>>
  /\ put' = "append"
  /\ broken' = TRUE
  /\ UNCHANGED <<made, amended, engine, kind, command, units, at, base,
                 observed, live, forkable, projector, seam, selected, saved,
                 terminal, transcript, ran, denials, streams, closed, unread>>

(* The same in the meta frame, before the try of run_attempt: nothing is    *)
(* remembered. A projector whose read is cut off does not read again.       *)
CancelOpening ==
  /\ mode \in {"loading", "opening"}
  /\ cuts < MaxCuts
  /\ cuts' = cuts + 1
  /\ mode' = "idle"
  /\ broken' = TRUE
  /\ unread' = (unread \/ mode = "loading")
  /\ UNCHANGED <<made, amended, engine, kind, command, units, at, base,
                 observed, todo, put, live, forkable, projector, seam,
                 selected, saved, terminal, transcript, ran, denials, streams,
                 closed>>

(* The worker is gone, with the session, the projector and any armed seam. *)
Die ==
  /\ live
  /\ streams > 0
  /\ cuts < MaxCuts
  /\ cuts' = cuts + 1
  /\ live' = FALSE
  /\ seam' = "none"
  /\ broken' = (broken \/ mode # "idle")
  /\ mode' = "idle"
  /\ todo' = <<>>
  /\ put' = "append"
  /\ UNCHANGED <<made, amended, engine, kind, command, units, at, base,
                 observed, forkable, projector, selected, saved, terminal,
                 transcript, ran, denials, streams, closed, unread>>

----------------------------------------------------------------------------
Init ==
  /\ made \in Batches /\ amended = made
  /\ ledger = {} /\ journaled = {} /\ refused = {} /\ asked = {}
  /\ answer = noAnswer
  /\ mode = "idle" /\ kind = "run" /\ units = {} /\ base = {}
  /\ command = answer
  /\ at = [c \in Calls |-> "todo"]
  /\ results = {} /\ answered = {}
  /\ todo = <<>> /\ put = "append"
  /\ live = TRUE /\ forkable = {}
  /\ gates = [c \in Calls |-> {}]
  /\ rebuild = [c \in Calls |-> Nobody]
  /\ loaded = FALSE /\ scope = 1 /\ sequence = 0 /\ seam = "none"
  /\ selected = {} /\ saved = {} /\ terminal = FALSE /\ broken = FALSE
  /\ points = {} /\ kept = {}
  /\ ran = {} /\ denials = {}
  /\ streams = 0 /\ closed = {} /\ cuts = 0 /\ unread = FALSE

Request ==
  \/ \E u \in Selections, crashes \in BOOLEAN : Run(u, crashes)
  \/ \E c \in Calls, says \in {"approve", "deny"}, u \in Selections :
       \E call \in Edited(made[c]) : Resume(c, says, call, u)
  \/ \E p \in points : Recover(p)

Hook(c) ==
  \/ PreToolUse(c) \/ OnResume(c) \/ Execute(c) \/ Replay(c)
  \/ PostToolUse(c) \/ Mark(c) \/ Bypass(c) \/ ProjectMissing(c)

Put == Stamp \/ Register \/ Keep

Next ==
  \/ Request
  \/ \E c \in Calls : Hook(c)
  \/ Open \/ Suspend \/ StayParked \/ Finish \/ Put \/ Outcome \/ Close
  \/ Cancel \/ CancelOpening \/ Die

Spec == Init /\ [][Next]_vars

----------------------------------------------------------------------------
EventId == Nat \X Nat
Point ==
  [id : EventId, boundary : {"input", "tool", "result"},
   call : Calls \cup {None}, answers : SUBSET Calls]
ForkPoint == [id : EventId, edge : {"before", "after"}]
Frame ==
  [boundary : {"input", "tool", "result", "none"}, call : Calls \cup {None},
   answers : SUBSET Calls, id : EventId, forkable : BOOLEAN,
   edge : {"before", "after", "none"}, updates : SUBSET EventId,
   rebuild : EventId]
Progress == {"todo", "let", "asked", "denied", "ran", "posted", "answered"}
Answers == [Calls -> {"none", "approve", "deny"}]

AmendedOK ==
  /\ amended \in [Calls -> {made[c] : c \in Calls} \cup {e[2] : e \in Edits}]
  /\ \A c \in Calls : amended[c] \in Edited(made[c])

EngineOK ==
  /\ ledger \subseteq Calls /\ journaled \subseteq ledger
  /\ refused \subseteq Calls /\ asked \subseteq Calls
  /\ answer \in Answers

AttemptOK ==
  /\ mode \in {"idle", "loading", "opening", "running", "finishing",
               "crashing", "closing"}
  /\ kind \in {"run", "resume", "recover"}
  /\ command \in Answers
  /\ units \subseteq Units
  /\ at \in [Calls -> Progress]
  /\ base \subseteq Calls
  /\ results \subseteq Calls /\ answered \subseteq Calls

FramesOK == todo \in Seq(Frame) /\ put \in {"append", "register", "keep"}

SessionOK ==
  /\ live \in BOOLEAN /\ loaded \in BOOLEAN
  /\ forkable \subseteq ForkPoint
  /\ gates \in [Calls -> SUBSET EventId]
  /\ rebuild \in [Calls -> EventId]
  /\ scope \in Nat /\ sequence \in Nat
  /\ seam \in {"none", "gate", "commit"}

RecordOK ==
  /\ selected \subseteq Units /\ saved \subseteq ForkPoint
  /\ terminal \in BOOLEAN /\ broken \in BOOLEAN
  /\ points \subseteq Point
  /\ kept \subseteq [stream : 0..MaxStreams, frame : Frame]

HistoryOK ==
  /\ streams \in 0..MaxStreams /\ closed \subseteq 0..MaxStreams
  /\ cuts \in 0..MaxCuts /\ unread \in BOOLEAN

(* The variables keep their shapes: the state of the engine, the attempt    *)
(* and its hooks, the frames, the session and its projector, the record and *)
(* the transcript. Only bodies whose record is done are journaled, and a    *)
(* restore point has one of the two edges.                                  *)
TypeOK ==
  /\ made \in Batches /\ AmendedOK
  /\ EngineOK /\ AttemptOK /\ FramesOK /\ SessionOK /\ RecordOK /\ HistoryOK

----------------------------------------------------------------------------
(* What fork would find: the session as it is, or as the next request      *)
(* reads it back.                                                          *)
accepted == IF live THEN forkable ELSE saved

(* Every event a fork is accepted from has its checkpoint in the            *)
(* transcript, at the edge the session names; a gate's history does not     *)
(* hold the answer of the call it gates, a result's does (fork and          *)
(* read_event_checkpoint of console/server.py and fork_demo.py).            *)
ForkPointsExist ==
  \A f \in forkable \cup saved :
    \E p \in points :
      /\ p.id = f.id
      /\ f.edge = edgeOf(p.boundary)
      /\ p.boundary = "tool" => p.call \notin p.answers
      /\ p.boundary = "result" => p.call \in p.answers

(* What the page offers, the server accepts: every restore point that a     *)
(* kept frame shows, its own, those it finalizes and the one it rebuilds    *)
(* from, is in the session, and stays there when the worker is lost after   *)
(* the stream has ended (_DURABLE_SESSION keeps forkable_events).           *)
offered(frame) ==
  (IF frame.forkable THEN {frame.id} ELSE {})
    \cup frame.updates
    \cup (IF frame.rebuild = Nobody THEN {} ELSE {frame.rebuild})

OfferedIsAccepted ==
  \A k \in kept :
    k.stream \in closed =>
      offered(k.frame) \subseteq {f.id : f \in accepted}

(* A call that got its result leaves no gate behind: every gate of it that  *)
(* was shown before, by this worker or by one that died, can be forked      *)
(* from (stamp's gates, reloaded from the transcript).                      *)
GatesFound ==
  \A k, g \in kept :
    (/\ k.stream \in closed
     /\ k.frame.boundary = "result"
     /\ g.frame.boundary = "tool"
     /\ g.frame.call = k.frame.call
     /\ later(k.frame.id, g.frame.id))
    => g.frame.id \in {f.id : f \in accepted}

(* It is so unless a projector was cut off in reading the gates: stamp      *)
(* marks them loaded before it awaits the transcript.                       *)
GatesSettle == ~unread => GatesFound

(* A frame shows an answer: the gate, the boundary or project_missing put it. *)
answersShown(k) == k.frame.boundary = "none"

(* When the round is over, the answer of every call has been shown, also    *)
(* of those that ran in an attempt whose worker died before it said so.     *)
EveryAnswerIsShown ==
  terminal => \A c \in Calls :
    \E k \in kept : answersShown(k) /\ k.frame.call = c

(* No body runs that the units of its attempt deny, whatever was approved   *)
(* before, and none they want approved runs unapproved: the call is judged  *)
(* as it runs, with the arguments an approval put in (revalidate).          *)
GatesHold ==
  \A r \in ran :
    LET verdict == Permissions(r.units, made, r.as)
    IN  /\ verdict # "deny"
        /\ verdict = "suspend" => r.approved

Unedited(records) == {r \in records : r.as = made[r.call]}
capped == {r \in ran : /\ "rate_cap" \in r.units
                       /\ r.as.effect = "irreversible"}
Distinct ==
  \A i, j \in Irreversible(made) : made[i].request = made[j].request => i = j

(* The rate cap counts right where it can: of a batch without equal         *)
(* requests, over every park, change of units, crash and recovery, no more  *)
(* than two irreversible bodies run as the model asked for them, and one    *)
(* that the cap alone denies comes behind two others (rate_cap,             *)
(* _irreversible_rank).                                                     *)
BudgetHolds ==
  Distinct =>
    /\ Cardinality({r.call : r \in Unedited(capped)}) <= BUDGET
    /\ \A r \in Unedited(denials) :
         Permissions(r.units \ {"rate_cap"}, made, r.as) # "deny" =>
           Cardinality({i \in Irreversible(made) : i < r.call}) >= BUDGET

=============================================================================
