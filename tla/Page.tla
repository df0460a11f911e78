-------------------------------- MODULE Page --------------------------------
(***************************************************************************)
(* The page (app.js) and the streams it reads.  A click opens a stream; its*)
(* frames and its end reach the page later, in order, and are applied to   *)
(* whatever run the page then shows.  Every frame is kept on the server    *)
(* before it is sent, and a reload replays the kept frames of the          *)
(* remembered branch through the same handler.                             *)
(*                                                                         *)
(* Of the server (server.py) a stream shows a meta frame, one closing frame*)
(* and its end, according to the state the branch is in.  Rows, chat and   *)
(* versions are left out.                                                  *)
(***************************************************************************)
EXTENDS RunState, Naturals, SequencesExt

CONSTANTS
    Stream,     \* requests that answer with a stream, named in the order of their use
    Click,      \* clicks on abort, steer or settle
    Clicks,     \* which of the three the operator uses
    Patient,    \* a stream is only asked for when nothing is in flight
    MaxReloads, \* bound on the number of reloads
    MaxBreaks   \* bound on the number of connections that break

ASSUME PageAssumption ==
    /\ None \notin Stream /\ Clicks \subseteq {"abort", "steer", "settle"}
    /\ Patient \in BOOLEAN /\ MaxReloads \in Nat /\ MaxBreaks \in Nat

VARIABLES
    \* the page
    run,         \* state.run
    undecided,   \* state.undecided
    remembered,  \* the branch in localStorage
    reader,      \* reader[s]: what the page does with stream s
    click,       \* click[c]: [kind, branch, state] of a click in flight
    reloads,     \* the number of reloads so far
    breaks,      \* the number of broken connections so far
    \* the server
    kind,        \* kind[s]: "run", "fork", "resume" or "recover"
    branch,      \* branch[s]: the branch stream s drives; a run or a fork is its own
    root,        \* root[b]: the first run of the conversation of branch b
    attempt,     \* attempt[s]: how far the server is with stream s
    feed,        \* feed[s]: what stream s has sent and the page has not read
    kept,        \* kept[b]: the frames of the conversation that began with b
    truth        \* truth[b]: the state of branch b on the server

page   == <<run, undecided, remembered>>
server == <<attempt, feed, kept, truth>>
posts  == <<kind, branch, root>>
vars == <<page, reader, click, reloads, breaks, posts, server>>

Branch  == Stream
Closing == {"suspended", "recoverable", "outcome", "failed", "indeterminate"}
Frame   == [kind : {"meta", "end", "broken"} \cup Closing, branch : Branch, id : Stream]

(* The types of the variables (createRunState, app.js).                      *)
Types ==
    /\ run \in [phase : Phase, branchId : Branch \cup {None}, pendingId : Stream \cup {None},
                busy : BOOLEAN, active : BOOLEAN]
    /\ undecided \in BOOLEAN
    /\ remembered \in Branch \cup {None}
    /\ reader \in [Stream -> {"idle", "posted", "reading", "ended", "unread", "gone"}]
    /\ click \in [Click -> [kind : {"abort", "steer", "settle"}, branch : Branch \cup {None},
                            state : {"idle", "posted", "ok", "refused", "done"}]]
    /\ reloads \in 0..MaxReloads /\ breaks \in 0..MaxBreaks
    /\ kind \in [Stream -> {"run", "fork", "resume", "recover"}]
    /\ branch \in [Stream -> Branch \cup {None}]
    /\ root \in [Branch -> Branch \cup {None}]
    /\ attempt \in [Stream -> {"idle", "refused", "open", "aborting", "closing", "done"}]
    /\ feed \in [Stream -> Seq(Frame)]
    /\ kept \in [Branch -> Seq({f \in Frame : f.kind \notin {"end", "broken"}})]
    /\ truth \in [Branch -> {"none", "running", "parked", "interrupted", "unknown",
                             "finished", "aborted"}]

Init ==
    /\ run = createRunState /\ undecided = FALSE /\ remembered = None
    /\ reader = [s \in Stream |-> "idle"]
    /\ click = [c \in Click |-> [kind |-> "abort", branch |-> None, state |-> "idle"]]
    /\ reloads = 0 /\ breaks = 0
    /\ kind = [s \in Stream |-> "run"]
    /\ branch = [s \in Stream |-> None] /\ root = [b \in Branch |-> None]
    /\ attempt = [s \in Stream |-> "idle"]
    /\ feed = [s \in Stream |-> <<>>] /\ kept = [b \in Branch |-> <<>>]
    /\ truth = [b \in Branch |-> "none"]

-----------------------------------------------------------------------------
(* handleFrame, and the replay of kept frames by restoreRun.  A view is what *)
(* both work on: the run, the undecided mark, and whether a transition threw.*)

View(r, u) == [run |-> r, undecided |-> u, threw |-> FALSE]

Apply(v, ok, r) == IF ok THEN [v EXCEPT !.run = r] ELSE [v EXCEPT !.threw = TRUE]

handleFrame(v, f) ==
    CASE f.kind = "meta"        -> Apply(v, canAttach(v.run), attachBranchId(v.run, f.branch))
      [] f.kind = "suspended"   -> Apply(v, canPark(v.run), suspendRun(v.run, f.id))
      [] f.kind = "recoverable" -> Apply(v, canPark(v.run), markRecoverable(v.run))
      [] f.kind = "outcome"     -> Apply(v, v.run.active, finishRun(v.run))
      [] f.kind = "failed"      -> Apply(v, v.run.active, failRun(v.run))
      [] f.kind = "indeterminate" ->
            Apply([v EXCEPT !.undecided = TRUE], v.run.active, failRun(v.run))

(* Mutant: a replay leaves the run in the phase the last stream ended in. *)
Replayed_Ended(v, f) == IF v.threw THEN v ELSE handleFrame(v, f)

(* Every stream after the first began where the one before had ended. *)
Replayed(v, f) ==
    IF v.threw THEN v
    ELSE handleFrame(IF f.kind = "meta" /\ v.run.branchId # None
                     THEN [v EXCEPT !.run = replayStream(v.run)] ELSE v, f)

(* A run that cannot be rebuilt leaves the launch screen. *)
Restored(fs) ==
    IF fs = <<>> THEN View(createRunState, FALSE)
    ELSE LET v == FoldLeft(Replayed, View(startRun(createRunState), FALSE), fs)
         IN  IF v.threw THEN View(createRunState, FALSE) ELSE v

(* What /api/branches/{branch_id}/frames answers for the remembered branch. *)
KeptFrames == IF remembered = None THEN <<>> ELSE kept[root[remembered]]

(* Mutant: only a run that has a branch is failed. *)
failCurrent_Attached(r) == IF r.branchId # None THEN failRun(r) ELSE r

failCurrent(r) == IF r.active /\ r.phase # "error" THEN failRun(r) ELSE r

-----------------------------------------------------------------------------
(* Clicks that open a stream. *)

StreamOpen == \E s \in Stream : reader[s] \in {"posted", "reading"}

InFlight == \/ StreamOpen
            \/ \E c \in Click : click[c].state \in {"posted", "ok", "refused"}

(* The next unused stream is posted for branch b of conversation o. *)
Post(s, k, b, o) ==
    /\ reader[s] = "idle"
    /\ reader' = [reader EXCEPT ![s] = "posted"]
    /\ kind' = [kind EXCEPT ![s] = k]
    /\ branch' = [branch EXCEPT ![s] = b]
    /\ root' = [root EXCEPT ![b] = o]
    /\ UNCHANGED <<remembered, reloads, breaks, server>>

Ready == Patient => ~InFlight

(* Mutant: a new run keeps the undecided mark of the last one. *)
runActive_Marked(s) ==
    /\ Ready /\ canStartRun(run)
    /\ run' = startRun(run)
    /\ Post(s, "run", s, s)
    /\ UNCHANGED <<undecided, click>>

runActive(s) ==
    /\ Ready /\ canStartRun(run)
    /\ run' = startRun(run) /\ undecided' = FALSE
    /\ Post(s, "run", s, s)
    /\ UNCHANGED click

decide(s) ==
    /\ Ready /\ run.phase = "suspended" /\ canContinue(run)
    /\ run' = beginContinuation(run)
    /\ Post(s, "resume", run.branchId, root[run.branchId])
    /\ UNCHANGED <<undecided, click>>

recover(s) ==
    /\ Ready /\ run.phase = "recoverable" /\ canContinue(run)
    /\ run' = beginContinuation(run)
    /\ Post(s, "recover", run.branchId, root[run.branchId])
    /\ UNCHANGED <<undecided, click>>

(* Leaving an idle page throws, after the branch is forgotten. *)
returnDraft ==
    /\ canStartRun(run)
    /\ run' = createRunState /\ undecided' = FALSE /\ remembered' = None
    /\ UNCHANGED <<reader, click, reloads, breaks, posts, server>>

(* A fork is a new branch of the conversation of the branch it starts from. *)
forkSource(s) ==
    /\ Ready /\ canFork(run)
    /\ run' = beginFork(run)
    /\ Post(s, "fork", s, root[run.branchId])
    /\ UNCHANGED <<undecided, click>>

-----------------------------------------------------------------------------
(* The streams as the page reads them. *)

(* fetch answers with an error status: post throws. *)
Refused(s) ==
    /\ reader[s] = "posted" /\ attempt[s] = "refused"
    /\ reader' = [reader EXCEPT ![s] = "ended"]
    /\ run' = failCurrent(run)
    /\ UNCHANGED <<undecided, remembered, click, reloads, breaks, posts, server>>

Opens(s) ==
    /\ reader[s] = "posted" /\ feed[s] # <<>>
    /\ reader' = [reader EXCEPT ![s] = "reading"]
    /\ UNCHANGED <<page, click, reloads, breaks, posts, server>>

Reads(s, ks) ==
    /\ reader[s] = "reading" /\ feed[s] # <<>> /\ Head(feed[s]).kind \in ks
    /\ feed' = [feed EXCEPT ![s] = Tail(feed[s])]
    /\ UNCHANGED <<click, reloads, breaks, posts, attempt, kept, truth>>

(* A frame that throws ends the reading; the response is left as it is. *)
ReadFrame(s) ==
    /\ Reads(s, {"meta"} \cup Closing)
    /\ LET f == Head(feed[s])
           v == handleFrame(View(run, undecided), f)
       IN  /\ run' = IF v.threw THEN failCurrent(run) ELSE v.run
           /\ undecided' = v.undecided
           /\ remembered' = IF f.kind = "meta" /\ ~v.threw THEN f.branch ELSE remembered
           /\ reader' = [reader EXCEPT ![s] = IF v.threw THEN "unread" ELSE "reading"]

(* The end of the stream is judged by the phase of the run the page shows;   *)
(* read() of a broken connection throws.                                     *)
ReadEnd(s) ==
    /\ Reads(s, {"end", "broken"})
    /\ run' = IF Head(feed[s]).kind = "end" /\ acceptsStreamEnd(run) THEN run ELSE failCurrent(run)
    /\ reader' = [reader EXCEPT ![s] = "ended"]
    /\ UNCHANGED <<undecided, remembered>>

-----------------------------------------------------------------------------
(* Clicks that post without a stream, and the page when it hears back. *)

Press(c, k) ==
    /\ click[c].state = "idle" /\ k \in Clicks
    /\ click' = [click EXCEPT ![c] = [kind |-> k, branch |-> run.branchId, state |-> "posted"]]
    /\ UNCHANGED <<page, reader, reloads, breaks, posts, server>>

abort(c) == run.phase \in ACTIVE_PHASES /\ run.branchId # None /\ Press(c, "abort")

sendSteer(c) == canSteer(run) /\ Press(c, "steer")

settle(c) == Ready /\ undecided /\ run.phase = "error" /\ run.branchId # None /\ Press(c, "settle")

Done(c) == click' = [click EXCEPT ![c].state = "done"]

HearRefused(c) ==
    /\ click[c].state = "refused"
    /\ run' = failCurrent(run)
    /\ Done(c)
    /\ UNCHANGED <<undecided, remembered, reader, reloads, breaks, posts, server>>

(* The page writes the aborted outcome itself. *)
HearAbort(c) ==
    /\ click[c].state = "ok" /\ click[c].kind = "abort"
    /\ run' = IF run.phase # "terminal" /\ run.active THEN finishRun(run) ELSE run
    /\ Done(c)
    /\ UNCHANGED <<undecided, remembered, reader, reloads, breaks, posts, server>>

HearSteer(c) ==
    /\ click[c].state = "ok" /\ click[c].kind = "steer"
    /\ Done(c)
    /\ UNCHANGED <<page, reader, reloads, breaks, posts, server>>

(* A settled run is recovered at once, in the same step. *)
HearSettle(c, s) ==
    /\ click[c].state = "ok" /\ click[c].kind = "settle"
    /\ Done(c)
    /\ undecided' = FALSE
    /\ IF canSettleRun(run) /\ canContinue(settleRun(run))
       THEN /\ run' = beginContinuation(settleRun(run))
            /\ Post(s, "recover", run.branchId, root[run.branchId])
       ELSE /\ run' = failCurrent(run)
            /\ UNCHANGED <<remembered, reader, reloads, breaks, posts, server>>

(* restoreRun: the page is gone with all it was waiting for, and rebuilt.    *)
Reload ==
    /\ reloads < MaxReloads /\ Ready
    /\ reloads' = reloads + 1
    /\ run' = Restored(KeptFrames).run /\ undecided' = Restored(KeptFrames).undecided
    /\ remembered' = IF KeptFrames = <<>> THEN None ELSE remembered
    /\ reader' = [s \in Stream |-> IF reader[s] = "idle" THEN "idle" ELSE "gone"]
    /\ click' = [c \in Click |-> IF click[c].state = "idle" THEN click[c]
                                 ELSE [click[c] EXCEPT !.state = "done"]]
    /\ UNCHANGED <<breaks, posts, server>>

-----------------------------------------------------------------------------
(* The server. *)

(* A frame is kept before it is sent. *)
Send(s, k) ==
    LET f == [kind |-> k, branch |-> branch[s], id |-> s]
    IN  /\ feed' = [feed EXCEPT ![s] = Append(@, f)]
        /\ kept' = [kept EXCEPT ![root[branch[s]]] = IF k \in {"end", "broken"} THEN @ ELSE Append(@, f)]

Answer(s) ==
    /\ reader[s] # "idle" /\ attempt[s] = "idle"
    /\ attempt' = [attempt EXCEPT ![s] = "open"]
    /\ Send(s, "meta")
    /\ truth' = [truth EXCEPT ![branch[s]] = IF @ = "none" THEN "running" ELSE @]
    /\ UNCHANGED <<page, reader, click, reloads, breaks, posts>>

(* /api/fork answers 409 for a run that is not terminal on the server. *)
RefuseFork(s) ==
    /\ reader[s] # "idle" /\ attempt[s] = "idle" /\ kind[s] = "fork"
    /\ \A b \in Branch : root[b] = root[s] /\ b # s => truth[b] # "finished"
    /\ attempt' = [attempt EXCEPT ![s] = "refused"]
    /\ UNCHANGED <<page, reader, click, reloads, breaks, posts, feed, kept, truth>>

Fits(s) == truth[branch[s]] \in
    CASE kind[s] \in {"run", "fork"} -> {"running"}
      [] kind[s] = "resume"  -> {"parked"}
      [] kind[s] = "recover" -> {"interrupted", "unknown"}

(* The closing frame of an attempt the engine has taken, or refused.         *)
Close(s) ==
    /\ attempt[s] = "open"
    /\ \/ /\ Fits(s)
          /\ \E e \in {<<"suspended", "parked">>, <<"recoverable", "interrupted">>,
                       <<"indeterminate", "unknown">>, <<"outcome", "finished">>} :
                Send(s, e[1]) /\ truth' = [truth EXCEPT ![branch[s]] = e[2]]
       \/ Send(s, "failed") /\ UNCHANGED truth
    /\ attempt' = [attempt EXCEPT ![s] = "closing"]
    /\ UNCHANGED <<page, reader, click, reloads, breaks, posts>>

(* An attempt that was cancelled by an abort puts the aborted outcome. *)
CloseAborted(s) ==
    /\ attempt[s] = "aborting"
    /\ Send(s, "outcome")
    /\ attempt' = [attempt EXCEPT ![s] = "closing"]
    /\ UNCHANGED <<page, reader, click, reloads, breaks, posts, truth>>

EndStream(s) ==
    /\ attempt[s] = "closing"
    /\ Send(s, "end")
    /\ attempt' = [attempt EXCEPT ![s] = "done"]
    /\ UNCHANGED <<page, reader, click, reloads, breaks, posts, truth>>

(* The worker dies, or the connection, before the end of the stream. *)
Break(s) ==
    /\ breaks < MaxBreaks /\ attempt[s] \in {"open", "aborting", "closing"}
    /\ breaks' = breaks + 1
    /\ Send(s, "broken")
    /\ attempt' = [attempt EXCEPT ![s] = "done"]
    /\ truth' = [truth EXCEPT ![branch[s]] = IF attempt[s] = "open" /\ Fits(s) THEN "interrupted" ELSE @]
    /\ UNCHANGED <<page, reader, click, reloads, posts>>

(* The client of an open stream is gone: its attempt is cancelled. *)
Cancelled(s) ==
    /\ attempt[s] \in {"open", "aborting"} /\ reader[s] = "gone"
    /\ attempt' = [attempt EXCEPT ![s] = "done"]
    /\ truth' = [truth EXCEPT ![branch[s]] = IF Fits(s) THEN "interrupted" ELSE @]
    /\ UNCHANGED <<page, reader, click, reloads, breaks, posts, feed, kept>>

Says(c, ok) == click' = [click EXCEPT ![c].state = IF ok THEN "ok" ELSE "refused"]

AnswerAbort(c) ==
    /\ click[c].state = "posted" /\ click[c].kind = "abort"
    /\ LET live == {s \in Stream : branch[s] = click[c].branch /\ attempt[s] = "open"}
       IN  /\ attempt' = [s \in Stream |-> IF s \in live THEN "aborting" ELSE attempt[s]]
           /\ truth' = IF live = {} THEN truth ELSE [truth EXCEPT ![click[c].branch] = "aborted"]
    /\ Says(c, TRUE)
    /\ UNCHANGED <<page, reader, reloads, breaks, posts, feed, kept>>

AnswerSteer(c) ==
    /\ click[c].state = "posted" /\ click[c].kind = "steer"
    /\ Says(c, truth[click[c].branch] # "finished")
    /\ UNCHANGED <<page, reader, reloads, breaks, posts, server>>

AnswerSettle(c) ==
    /\ click[c].state = "posted" /\ click[c].kind = "settle"
    /\ Says(c, truth[click[c].branch] = "unknown")
    /\ truth' = [truth EXCEPT ![click[c].branch] = IF @ = "unknown" THEN "interrupted" ELSE @]
    /\ UNCHANGED <<page, reader, reloads, breaks, posts, attempt, feed, kept>>

-----------------------------------------------------------------------------
Reading(s) == Refused(s) \/ Opens(s) \/ ReadFrame(s) \/ ReadEnd(s)

Serving(s) == \/ Answer(s) \/ RefuseFork(s) \/ Close(s) \/ CloseAborted(s)
              \/ EndStream(s) \/ Cancelled(s)

Next ==
    \/ \E s \in Stream : runActive(s) \/ decide(s) \/ recover(s) \/ forkSource(s)
    \/ \E s \in Stream : Reading(s) \/ Serving(s)
    \/ \E c \in Click : abort(c) \/ sendSteer(c) \/ settle(c)
    \/ \E c \in Click : AnswerAbort(c) \/ AnswerSteer(c) \/ AnswerSettle(c)
    \/ \E c \in Click : HearRefused(c) \/ HearAbort(c) \/ HearSteer(c)
    \/ \E c \in Click, s \in Stream : HearSettle(c, s)
    \/ returnDraft \/ Reload
    \/ \E s \in Stream : Break(s)

Spec == Init /\ [][Next]_vars

(* The event loops of page and server run what can run; nobody has to click. *)
FairSpec == Spec /\ \A s \in Stream : WF_vars(Reading(s)) /\ WF_vars(Serving(s))

-----------------------------------------------------------------------------
(* When nothing is in flight, every action the page offers is one the server *)
(* would take: an approval for a parked run, a recovery for an interrupted   *)
(* one, a settlement for an undecided one, a fork of a finished one          *)
(* (renderRun; the guards of decide, recover, settle and forkSource).        *)
OffersHold ==
    ~InFlight =>
        /\ run.phase = "suspended" => truth[run.branchId] = "parked"
        /\ run.phase = "recoverable" => truth[run.branchId] = "interrupted"
        /\ run.phase = "error" /\ undecided => truth[run.branchId] = "unknown"
        /\ canFork(run) => truth[run.branchId] = "finished"

(* A reload lands back on the same run: when nothing is in flight and no     *)
(* connection broke, replaying the kept frames rebuilds the run the page     *)
(* shows (restoreRun, kept_frames).                                          *)
RestoreAgrees ==
    ~InFlight /\ breaks = 0 =>
        LET v == Restored(KeptFrames)
        IN  /\ v.undecided = undecided
            /\ v.run.phase = run.phase /\ v.run.branchId = run.branchId
            /\ run.phase = "suspended" => v.run.pendingId = run.pendingId

(* The end of stream s is next, and its closing frame was sent before it.    *)
ClosedProperly(s) == Head(feed[s]).kind = "end"
                     /\ \E f \in Range(kept[root[branch[s]]]) : f.id = s /\ f.kind \in Closing

EndsProperly(s) == reader[s] = "reading" /\ reader'[s] = "ended" /\ ClosedProperly(s)

(* The end of a stream that delivered its closing frame fails a run only when*)
(* it was overtaken, by a later request that the page now streams for. The UI*)
(* design has no such exception; clicked between the two, consume has it     *)
(* (acceptsStreamEnd, continueRun).                                          *)
Overtaken(s) == \E t \in Stream \ {s} : reader[t] \in {"posted", "reading"}

OnlyOvertakenEndsFail ==
    [][\A s \in Stream : EndsProperly(s) /\ run' # run
          => run.phase = "streaming" /\ Overtaken(s)]_vars

(* A page that shows a run streaming comes to show something else, whatever  *)
(* the streams do, refuse or break, unless it was reloaded while one was     *)
(* read (consume, failCurrent, acceptsStreamEnd, restoreRun).                *)
StreamingEnds ==
    run.phase = "streaming" ~> run.phase # "streaming" \/ (reloads > 0 /\ ~StreamOpen)
=============================================================================
