------------------------------ MODULE RunState ------------------------------
(***************************************************************************)
(* run-state.mjs: the page's state of its run, and the transitions between *)
(* its phases.  A transition that throws on some states comes with the     *)
(* predicate under which it does not.  The draft configuration is left out,*)
(* and of the active one only whether there is one.                        *)
(***************************************************************************)
CONSTANT None    \* no branch, no pending call

Phase == {"idle", "streaming", "suspended", "recoverable", "terminal", "error"}

STARTABLE     == {"idle", "terminal", "error"}
ENDABLE       == {"suspended", "recoverable", "terminal", "error"}
PARKABLE      == {"streaming", "suspended", "recoverable"}
ACTIVE_PHASES == {"streaming", "suspended", "recoverable"}

createRunState ==
    [phase |-> "idle", branchId |-> None, pendingId |-> None, busy |-> FALSE, active |-> FALSE]

(* Mutant: only a finished or a failed run accepts the end of its stream. *)
acceptsStreamEnd_Finished(r) == r.phase \in {"terminal", "error"}

canStartRun(r) == r.phase \in STARTABLE
canSteer(r) == r.phase \in ACTIVE_PHASES /\ r.branchId # None
acceptsStreamEnd(r) == r.phase \in ENDABLE

startRun(r) == [createRunState EXCEPT !.phase = "streaming", !.active = TRUE]

canAttach(r) == r.phase = "streaming"
attachBranchId(r, b) == [r EXCEPT !.branchId = b]

canPark(r) == r.phase \in PARKABLE
suspendRun(r, p) == [r EXCEPT !.phase = "suspended", !.pendingId = p, !.busy = FALSE]
markRecoverable(r) == [r EXCEPT !.phase = "recoverable", !.busy = FALSE]

canContinue(r) == ~r.busy /\ r.phase \in {"suspended", "recoverable"} /\ r.branchId # None
beginContinuation(r) == [r EXCEPT !.phase = "streaming", !.busy = TRUE]

replayStream(r) == [r EXCEPT !.phase = "streaming", !.busy = FALSE, !.pendingId = None]

canFork(r) == r.phase = "terminal" /\ r.branchId # None
beginFork(r) == [r EXCEPT !.phase = "streaming", !.branchId = None]

finishRun(r) == [r EXCEPT !.phase = "terminal", !.pendingId = None, !.busy = FALSE]

canSettleRun(r) == r.phase = "error" /\ r.active
settleRun(r) == [r EXCEPT !.phase = "recoverable", !.busy = FALSE]

failRun(r) == [r EXCEPT !.phase = "error", !.busy = FALSE]
=============================================================================
