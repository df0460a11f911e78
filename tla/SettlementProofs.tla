--------------------------- MODULE SettlementProofs ---------------------------
(***************************************************************************)
(* What Settlement keeps for any number of workers, settlements, calls of  *)
(* the batch and bounds: its types, and that a charge is accepted once and *)
(* told truthfully as long as the operator's requests do not overlap; on   *)
(* one worker, that the session keeps the key of a charge in doubt; and    *)
(* that it implements ChargeOnce when requests do not overlap.             *)
(***************************************************************************)
EXTENDS Settlement, TLAPS

(* A worker that runs an attempt has the session; a settlement past its      *)
(* first await has both coordinates, past its second a tool step.            *)
Hosted == at \notin {"idle", "over"} => cache[host] # None
Bound  == \A s \in Settler :
    /\ pc[s] \in Serving \ {"flags"} => flags[s].step \in Step /\ flags[s].effect \in Calls
    /\ pc[s] \in Serving \ {"flags", "unresolved"} => flags[s].step[1] = "tool"

TInv == TypeOK /\ Hosted /\ Bound

(* Of the calls one at most is in doubt, and those before it have results.   *)
OneDoubt == \A c, d \in Calls :
    tool[c].state = "running" /\ d < c => tool[d].state = "done"

(* Between the start of a call and its result its record is running; a       *)
(* charge is paid for on a fresh start, and a result needs its record.       *)
Started   == at \in Inside \ {"engine"} => tool[turn].state = "running"
Paying    == at = "paying" => effect[turn] = "running" /\ paid[turn] = 0
Recording == at = "recording" => effect[turn] = "done"

(* A charge whose record is absent was never accepted, and none twice.       *)
Unpaid == \A c \in Calls : effect[c] = "ready" => paid[c] = 0

(* The key is remembered once, in however many copies; the calls before it   *)
(* have results, and if its own call has one, so has the charge.             *)
Noted(k) == \/ saved.effect = k \/ snap.effect = k
            \/ \E w \in Worker : cache[w] # None /\ cache[w].effect = k
            \/ \E s \in Settler : flags[s].effect = k
OneKey == \A k \in Calls : Noted(k) =>
    /\ armed = None
    /\ \A j \in Calls : Noted(j) => j = k
    /\ \A d \in Calls : d < k => tool[d].state = "done"
    /\ tool[k].state = "done" => effect[k] = "done"

(* A settlement is served alone; the call in doubt is the one shown; and a   *)
(* person who says it was not charged is right until the answer is used.     *)
Alone == \A s \in Settler : pc[s] # "idle" =>
    at = "idle" /\ \A t \in Settler : pc[t] # "idle" => t = s
Shown == shown # None =>
    /\ at \in {"noted", "saving", "idle", "over"}
    /\ \A c \in Calls : tool[c].state = "running" => c = shown
Evidence == \A s \in Settler :
    /\ pc[s] \in {"flags", "unresolved", "acquire", "write"} =>
          shown # None /\ (~charged[s] => paid[shown] = 0)
    /\ pc[s] \in {"acquire", "write"} => tool[flags[s].step[2]].state = "running"
    /\ pc[s] = "resolve" /\ charged[s] => effect[flags[s].effect] = "done"

(* What is recorded, told or confirmed as charged was accepted.              *)
Accepted  == at = "finishing" => paid[turn] > 0
Backed    == \A c \in Calls : effect[c] = "done" => paid[c] > 0
Confirmed == \A s \in Settler :
    /\ pc[s] \in {"flags", "unresolved", "acquire", "write"} /\ charged[s] => paid[shown] > 0
    /\ pc[s] = "resolve" /\ charged[s] => paid[flags[s].step[2]] > 0

Core == /\ OneDoubt /\ Started /\ Paying /\ Recording /\ Unpaid /\ OneKey
        /\ Alone /\ Shown /\ Evidence /\ PaidOnce
        /\ Accepted /\ Backed /\ Confirmed /\ Truthful
IInv == TInv /\ (overlaps = 0 => Core)

-----------------------------------------------------------------------------
(* What the actions write. *)

LEMMA NoFlagsTyped == NoFlags \in Flags
BY DEF NoFlags, Flags

LEMMA FlagsTyped ==
    ASSUME NEW f \in Flags, NEW c \in Calls
    PROVE  /\ [f EXCEPT !.effect = c] \in Flags
           /\ \A k \in {"tool", "charge"} : [f EXCEPT !.step = <<k, c>>] \in Flags
BY DEF Flags, Step

LEMMA SessionTyped ==
    ASSUME TypeOK, NEW w \in Worker
    PROVE  _session(w) \in Flags
BY DEF TypeOK, _session

LEMMA AttemptKind == Attempt \notin {"idle"}
BY DEF Attempt

-----------------------------------------------------------------------------
(* Types. *)

LEMMA InitTyped == Init => TInv
<1> SUFFICES ASSUME Init PROVE TInv
    OBVIOUS
<1> USE CallAssumption, BoundAssumption, NoFlagsTyped
<1>1. TypeOK
    BY DEF Init, TypeOK, Calls, State, Inside, Serving
<1>2. Hosted
    BY FlagsAssumption DEF Init, Hosted
<1>3. Bound
    BY DEF Init, Bound, Serving
<1> QED BY <1>1, <1>2, <1>3 DEF TInv

(* The steps of an attempt, of the others on a worker, and of a settlement.  *)
AttemptStep(c) == Finished \/ ToolRunning(c) \/ StartTool(c) \/ Contended \/ Charged \/
    ChargeRunning \/ StartCharge \/ Body \/ Crash \/ FinishCharge \/ FinishTool \/
    Finally \/ Remember \/ Cancel
WorkerStep(w) == Recover(w) \/ Die(w) \/ Touch(w)
ServeStep(s, w) == Post(s, w) \/ ReadFlags(s) \/ Unresolved(s) \/ Acquire(s) \/
    WriteEffect(s) \/ Resolve(s) \/ ResolveStale(s) \/ SaveFlags(s)

LEMMA AttemptTyped ==
    ASSUME TInv, NEW c \in Calls,
           AttemptStep(c)
    PROVE  TInv'
<1> USE DEF ledger, session, attempt, settles, counts
<1>t. TypeOK /\ Hosted /\ Bound
    BY DEF TInv
<1>1. CASE Finished
  <2>1. TypeOK'
    BY <1>t, <1>1, CallAssumption, BoundAssumption DEF TypeOK, Hosted, Bound, Inside,
        Serving, State, Finished
  <2>2. Hosted'
    BY <1>t, <1>1, FlagsAssumption DEF TypeOK, Hosted, Inside, Finished
  <2>3. Bound'
    BY <1>t, <1>1 DEF TypeOK, Bound, Serving, Finished
  <2> QED BY <2>1, <2>2, <2>3 DEF TInv
<1>2. CASE ToolRunning(c)
  <2>0. cache[host] \in Flags /\ turn \in Calls
    BY <1>t, <1>2 DEF TypeOK, Hosted, ToolRunning, Indeterminate, Note, Turn
  <2>f. [cache[host] EXCEPT !.step = <<"tool", c>>] \in Flags
    BY <2>0, FlagsTyped
  <2>1. TypeOK'
    BY <1>t, <1>2, <2>0, <2>f, CallAssumption, BoundAssumption DEF TypeOK, Hosted,
        Bound, Inside, Serving, State, ToolRunning, Indeterminate, Note, Turn
  <2>2. Hosted'
    BY <1>t, <1>2, <2>0, <2>f, FlagsAssumption DEF TypeOK, Hosted, Inside, ToolRunning,
        Indeterminate, Note, Turn
  <2>3. Bound'
    BY <1>t, <1>2, <2>0, <2>f DEF TypeOK, Bound, Serving, ToolRunning, Indeterminate,
        Note, Turn
  <2> QED BY <2>1, <2>2, <2>3 DEF TInv
<1>3. CASE StartTool(c)
  <2>1. TypeOK'
    BY <1>t, <1>3, CallAssumption, BoundAssumption DEF TypeOK, Hosted, Bound, Inside,
        Serving, State, StartTool, Turn
  <2>2. Hosted'
    BY <1>t, <1>3, FlagsAssumption DEF TypeOK, Hosted, Inside, StartTool, Turn
  <2>3. Bound'
    BY <1>t, <1>3 DEF TypeOK, Bound, Serving, StartTool, Turn
  <2> QED BY <2>1, <2>2, <2>3 DEF TInv
<1>4. CASE Contended
  <2>1. TypeOK'
    BY <1>t, <1>4, CallAssumption, BoundAssumption, SMTT(30) DEF TypeOK, Hosted, Bound, Inside,
        Serving, State, Contended
  <2>2. Hosted'
    BY <1>t, <1>4, FlagsAssumption DEF TypeOK, Hosted, Inside, Contended
  <2>3. Bound'
    BY <1>t, <1>4 DEF TypeOK, Bound, Serving, Contended
  <2> QED BY <2>1, <2>2, <2>3 DEF TInv
<1>5. CASE Charged
  <2>1. TypeOK'
    BY <1>t, <1>5, CallAssumption, BoundAssumption DEF TypeOK, Hosted, Bound, Inside,
        Serving, State, Charged
  <2>2. Hosted'
    BY <1>t, <1>5, FlagsAssumption DEF TypeOK, Hosted, Inside, Charged
  <2>3. Bound'
    BY <1>t, <1>5 DEF TypeOK, Bound, Serving, Charged
  <2> QED BY <2>1, <2>2, <2>3 DEF TInv
<1>6. CASE ChargeRunning
  <2>0. cache[host] \in Flags /\ turn \in Calls
    BY <1>t, <1>6 DEF TypeOK, Hosted, ChargeRunning, Indeterminate, Note
  <2>f. [cache[host] EXCEPT !.step = <<"charge", turn>>] \in Flags
    BY <2>0, FlagsTyped
  <2>1. TypeOK'
    BY <1>t, <1>6, <2>0, <2>f, CallAssumption, BoundAssumption DEF TypeOK, Hosted,
        Bound, Inside, Serving, State, ChargeRunning, Indeterminate, Note
  <2>2. Hosted'
    BY <1>t, <1>6, <2>0, <2>f, FlagsAssumption DEF TypeOK, Hosted, Inside,
        ChargeRunning, Indeterminate, Note
  <2>3. Bound'
    BY <1>t, <1>6, <2>0, <2>f DEF TypeOK, Bound, Serving, ChargeRunning, Indeterminate, Note
  <2> QED BY <2>1, <2>2, <2>3 DEF TInv
<1>7. CASE StartCharge
  <2>1. TypeOK'
    BY <1>t, <1>7, CallAssumption, BoundAssumption DEF TypeOK, Hosted, Bound, Inside,
        Serving, State, StartCharge
  <2>2. Hosted'
    BY <1>t, <1>7, FlagsAssumption DEF TypeOK, Hosted, Inside, StartCharge
  <2>3. Bound'
    BY <1>t, <1>7 DEF TypeOK, Bound, Serving, StartCharge
  <2> QED BY <2>1, <2>2, <2>3 DEF TInv
<1>8. CASE Body
  <2>1. TypeOK'
    BY <1>t, <1>8, CallAssumption, BoundAssumption DEF TypeOK, Hosted, Bound, Inside,
        Serving, State, Body, Pay
  <2>2. Hosted'
    BY <1>t, <1>8, FlagsAssumption DEF TypeOK, Hosted, Inside, Body, Pay
  <2>3. Bound'
    BY <1>t, <1>8 DEF TypeOK, Bound, Serving, Body, Pay
  <2> QED BY <2>1, <2>2, <2>3 DEF TInv
<1>9. CASE Crash
  <2>0. cache[host] \in Flags /\ turn \in Calls
    BY <1>t, <1>9 DEF TypeOK, Hosted, Crash, Note, Pay
  <2>f. [cache[host] EXCEPT !.effect = turn] \in Flags
    BY <2>0, FlagsTyped
  <2>1. TypeOK'
    BY <1>t, <1>9, <2>0, <2>f, CallAssumption, BoundAssumption DEF TypeOK, Hosted,
        Bound, Inside, Serving, State, Crash, Note, Pay
  <2>2. Hosted'
    BY <1>t, <1>9, <2>0, <2>f, FlagsAssumption DEF TypeOK, Hosted, Inside, Crash, Note, Pay
  <2>3. Bound'
    BY <1>t, <1>9, <2>0, <2>f DEF TypeOK, Bound, Serving, Crash, Note, Pay
  <2> QED BY <2>1, <2>2, <2>3 DEF TInv
<1>10. CASE FinishCharge
  <2>1. TypeOK'
    BY <1>t, <1>10, CallAssumption, BoundAssumption DEF TypeOK, Hosted, Bound, Inside,
        Serving, State, FinishCharge
  <2>2. Hosted'
    BY <1>t, <1>10, FlagsAssumption DEF TypeOK, Hosted, Inside, FinishCharge
  <2>3. Bound'
    BY <1>t, <1>10 DEF TypeOK, Bound, Serving, FinishCharge
  <2> QED BY <2>1, <2>2, <2>3 DEF TInv
<1>11. CASE FinishTool
  <2>1. TypeOK'
    BY <1>t, <1>11, CallAssumption, BoundAssumption DEF TypeOK, Hosted, Bound, Inside,
        Serving, State, FinishTool
  <2>2. Hosted'
    BY <1>t, <1>11, FlagsAssumption DEF TypeOK, Hosted, Inside, FinishTool
  <2>3. Bound'
    BY <1>t, <1>11 DEF TypeOK, Bound, Serving, FinishTool
  <2> QED BY <2>1, <2>2, <2>3 DEF TInv
<1>12. CASE Finally
  <2>1. TypeOK'
    BY <1>t, <1>12, CallAssumption, BoundAssumption DEF TypeOK, Hosted, Bound, Inside,
        Serving, State, Finally
  <2>2. Hosted'
    BY <1>t, <1>12, FlagsAssumption DEF TypeOK, Hosted, Inside, Finally
  <2>3. Bound'
    BY <1>t, <1>12 DEF TypeOK, Bound, Serving, Finally
  <2> QED BY <2>1, <2>2, <2>3 DEF TInv
<1>13. CASE Remember
  <2>1. TypeOK'
    BY <1>t, <1>13, CallAssumption, BoundAssumption DEF TypeOK, Hosted, Bound, Inside,
        Serving, State, Remember
  <2>2. Hosted'
    BY <1>t, <1>13, FlagsAssumption DEF TypeOK, Hosted, Inside, Remember
  <2>3. Bound'
    BY <1>t, <1>13 DEF TypeOK, Bound, Serving, Remember
  <2> QED BY <2>1, <2>2, <2>3 DEF TInv
<1>14. CASE Cancel
  <2>1. TypeOK'
    BY <1>t, <1>14, CallAssumption, BoundAssumption DEF TypeOK, Hosted, Bound, Inside,
        Serving, State, Cancel
  <2>2. Hosted'
    BY <1>t, <1>14, FlagsAssumption DEF TypeOK, Hosted, Inside, Cancel
  <2>3. Bound'
    BY <1>t, <1>14 DEF TypeOK, Bound, Serving, Cancel
  <2> QED BY <2>1, <2>2, <2>3 DEF TInv
<1> QED BY <1>1, <1>2, <1>3, <1>4, <1>5, <1>6, <1>7, <1>8, <1>9, <1>10, <1>11, <1>12, <1>13,
    <1>14 DEF AttemptStep

LEMMA WorkerTyped ==
    ASSUME TInv, NEW w \in Worker,
           WorkerStep(w)
    PROVE  TInv'
<1> USE DEF ledger, session, attempt, settles, counts
<1>t. TypeOK /\ Hosted /\ Bound
    BY DEF TInv
<1>1. CASE Recover(w)
  <2>f. _session(w) \in Flags
    BY <1>t, SessionTyped
  <2>1. TypeOK'
    BY <1>t, <1>1, <2>f, CallAssumption, BoundAssumption DEF TypeOK, Hosted, Bound,
        Inside, Serving, State, Recover, Rehydrate, Join
  <2>2. Hosted'
    BY <1>t, <1>1, <2>f, FlagsAssumption DEF TypeOK, Hosted, Inside, Recover, Rehydrate,
        Join
  <2>3. Bound'
    BY <1>t, <1>1, <2>f DEF TypeOK, Bound, Serving, Recover, Rehydrate, Join
  <2> QED BY <2>1, <2>2, <2>3 DEF TInv
<1>2. CASE Die(w)
  <2>1. TypeOK'
    BY <1>t, <1>2, CallAssumption, BoundAssumption DEF TypeOK, Hosted, Bound, Inside,
        Serving, State, Die
  <2>2. Hosted'
    BY <1>t, <1>2, FlagsAssumption DEF TypeOK, Hosted, Inside, Die
  <2>3. Bound'
    BY <1>t, <1>2 DEF TypeOK, Bound, Serving, Die
  <2> QED BY <2>1, <2>2, <2>3 DEF TInv
<1>3. CASE Touch(w)
  <2>f. _session(w) \in Flags
    BY <1>t, SessionTyped
  <2>1. TypeOK'
    BY <1>t, <1>3, <2>f, CallAssumption, BoundAssumption DEF TypeOK, Hosted, Bound,
        Inside, Serving, State, Touch, Rehydrate
  <2>2. Hosted'
    BY <1>t, <1>3, <2>f, FlagsAssumption DEF TypeOK, Hosted, Inside, Touch, Rehydrate
  <2>3. Bound'
    BY <1>t, <1>3, <2>f DEF TypeOK, Bound, Serving, Touch, Rehydrate
  <2> QED BY <2>1, <2>2, <2>3 DEF TInv
<1> QED BY <1>1, <1>2, <1>3 DEF WorkerStep

LEMMA ServeTyped ==
    ASSUME TInv, NEW s \in Settler, NEW w \in Worker,
           ServeStep(s, w)
    PROVE  TInv'
<1> USE DEF ledger, session, attempt, settles, counts
<1>t. TypeOK /\ Hosted /\ Bound
    BY DEF TInv
<1>1. CASE Post(s, w)
  <2>1. TypeOK'
    BY <1>t, <1>1, CallAssumption, BoundAssumption DEF TypeOK, Hosted, Bound, Inside,
        Serving, State, Post, Join, Goto
  <2>2. Hosted'
    BY <1>t, <1>1, FlagsAssumption DEF TypeOK, Hosted, Inside, Post, Join, Goto
  <2>3. Bound'
    BY <1>t, <1>1 DEF TypeOK, Bound, Serving, Post, Join, Goto
  <2> QED BY <2>1, <2>2, <2>3 DEF TInv
<1>2. CASE ReadFlags(s)
  <2>f. serves[s] \in Worker /\ _session(serves[s]) \in Flags
    BY <1>t, SessionTyped DEF TypeOK
  <2>g. LET x == _session(serves[s])
        IN  x.step # None /\ x.effect # None => x.step \in Step /\ x.effect \in Calls
    BY <2>f DEF Flags
  <2>1. TypeOK'
    BY <1>t, <1>2, <2>f, <2>g, CallAssumption, BoundAssumption DEF TypeOK, Hosted,
        Bound, Inside, Serving, State, ReadFlags, Rehydrate, Goto
  <2>2. Hosted'
    BY <1>t, <1>2, <2>f, <2>g, FlagsAssumption DEF TypeOK, Hosted, Inside, ReadFlags,
        Rehydrate, Goto
  <2>3. Bound'
    BY <1>t, <1>2, <2>f, <2>g DEF TypeOK, Bound, Serving, ReadFlags, Rehydrate, Goto
  <2> QED BY <2>1, <2>2, <2>3 DEF TInv
<1>3. CASE Unresolved(s)
  <2>f. flags[s].step[2] \in Calls /\ flags[s].step \in Step
    BY <1>t, <1>3 DEF Bound, Serving, Unresolved, Step
  <2>1. TypeOK'
    BY <1>t, <1>3, <2>f, CallAssumption, BoundAssumption DEF TypeOK, Hosted, Bound,
        Inside, Serving, State, Unresolved, Goto
  <2>2. Hosted'
    BY <1>t, <1>3, <2>f, FlagsAssumption DEF TypeOK, Hosted, Inside, Unresolved, Goto
  <2>3. Bound'
    BY <1>t, <1>3, <2>f DEF TypeOK, Bound, Serving, Unresolved, Goto
  <2> QED BY <2>1, <2>2, <2>3 DEF TInv
<1>4. CASE Acquire(s)
  <2>1. TypeOK'
    BY <1>t, <1>4, CallAssumption, BoundAssumption DEF TypeOK, Hosted, Bound, Inside,
        Serving, State, Acquire, Goto
  <2>2. Hosted'
    BY <1>t, <1>4, FlagsAssumption DEF TypeOK, Hosted, Inside, Acquire, Goto
  <2>3. Bound'
    BY <1>t, <1>4 DEF TypeOK, Bound, Serving, Acquire, Goto
  <2> QED BY <2>1, <2>2, <2>3 DEF TInv
<1>5. CASE WriteEffect(s)
  <2>1. TypeOK'
    BY <1>t, <1>5, CallAssumption, BoundAssumption DEF TypeOK, Hosted, Bound, Inside,
        Serving, State, WriteEffect, Goto, Settled
  <2>2. Hosted'
    BY <1>t, <1>5, FlagsAssumption DEF TypeOK, Hosted, Inside, WriteEffect, Goto, Settled
  <2>3. Bound'
    BY <1>t, <1>5 DEF TypeOK, Bound, Serving, WriteEffect, Goto, Settled
  <2> QED BY <2>1, <2>2, <2>3 DEF TInv
<1>6. CASE Resolve(s)
  <2>1. TypeOK'
    BY <1>t, <1>6, NoFlagsTyped, CallAssumption, BoundAssumption DEF TypeOK, Hosted,
        Bound, Inside, Serving, State, Resolve, Goto
  <2>2. Hosted'
    BY <1>t, <1>6, NoFlagsTyped, FlagsAssumption DEF TypeOK, Hosted, Inside, Resolve, Goto
  <2>3. Bound'
    BY <1>t, <1>6, NoFlagsTyped DEF TypeOK, Bound, Serving, Resolve, Goto
  <2> QED BY <2>1, <2>2, <2>3 DEF TInv
<1>7. CASE ResolveStale(s)
  <2>1. TypeOK'
    BY <1>t, <1>7, CallAssumption, BoundAssumption DEF TypeOK, Hosted, Bound, Inside,
        Serving, State, ResolveStale, Goto
  <2>2. Hosted'
    BY <1>t, <1>7, FlagsAssumption DEF TypeOK, Hosted, Inside, ResolveStale, Goto
  <2>3. Bound'
    BY <1>t, <1>7 DEF TypeOK, Bound, Serving, ResolveStale, Goto
  <2> QED BY <2>1, <2>2, <2>3 DEF TInv
<1>8. CASE SaveFlags(s)
  <2>1. TypeOK'
    BY <1>t, <1>8, NoFlagsTyped, CallAssumption, BoundAssumption DEF TypeOK, Hosted,
        Bound, Inside, Serving, State, SaveFlags, Goto
  <2>2. Hosted'
    BY <1>t, <1>8, NoFlagsTyped, FlagsAssumption DEF TypeOK, Hosted, Inside, SaveFlags, Goto
  <2>3. Bound'
    BY <1>t, <1>8, NoFlagsTyped DEF TypeOK, Bound, Serving, SaveFlags, Goto
  <2> QED BY <2>1, <2>2, <2>3 DEF TInv
<1> QED BY <1>1, <1>2, <1>3, <1>4, <1>5, <1>6, <1>7, <1>8 DEF ServeStep

-----------------------------------------------------------------------------
(* One payment per charge. *)

LEMMA KeyStep ==
    ASSUME OneKey,
           armed' \in {armed, None},
           \A k \in Calls : Noted(k)' => Noted(k),
           \A d \in Calls : tool[d].state = "done" => tool'[d].state = "done",
           \A k \in Calls : Noted(k) /\ tool'[k].state = "done" => effect'[k] = "done"
    PROVE  OneKey'
BY DEF OneKey

(* A key that is not that of the call in doubt is that of a charge that is done. *)
LEMMA OtherKey ==
    ASSUME OneDoubt, OneKey, NEW s \in Settler, NEW k \in Calls, flags[s].effect \in Calls,
           tool[k].state = "running", flags[s].effect # k
    PROVE  effect[flags[s].effect] = "done"
<1> DEFINE e == flags[s].effect
<1>1. Noted(e)
    BY DEF Noted
<1>2. k < e => tool[k].state = "done"
    BY <1>1 DEF OneKey
<1>3. e < k => tool[e].state = "done"
    BY DEF OneDoubt
<1>4. tool[e].state = "done" => effect[e] = "done"
    BY <1>1 DEF OneKey
<1> QED BY <1>2, <1>3, <1>4, CallAssumption DEF Calls

LEMMA AttemptCore ==
    ASSUME TInv, TInv', overlaps = 0, Core,
           NEW c \in Calls,
           AttemptStep(c)
    PROVE  overlaps' = 0 => Core'
<1> SUFFICES ASSUME overlaps' = 0 PROVE Core'
    OBVIOUS
<1> USE DEF ledger, session, attempt, settles, counts
<1>t. TypeOK /\ Hosted /\ Bound /\ TypeOK'
    BY DEF TInv
<1>c. /\ OneDoubt /\ Started /\ Paying /\ Recording /\ Unpaid /\ OneKey
      /\ Alone /\ Shown /\ Evidence /\ PaidOnce
      /\ Accepted /\ Backed /\ Confirmed /\ Truthful
    BY DEF Core
<1>p. pc' = pc /\ \A t \in Settler : pc[t] = "idle"
    <2>1. at # "idle" /\ pc' = pc
        BY DEF AttemptStep, Finished, ToolRunning, StartTool, Contended, Charged,
            ChargeRunning, StartCharge, Body, Crash, FinishCharge, FinishTool,
            Finally, Remember, Cancel, Turn, Inside, Indeterminate, Note
    <2> QED BY <1>c, <2>1 DEF Alone
<1>1. CASE Finished
  <2>0. OneDoubt' /\ Unpaid' /\ OneKey' /\ Evidence' /\ PaidOnce' /\ Backed' /\ Confirmed'
      /\ Truthful'
    BY <1>c, <1>1 DEF OneDoubt, Unpaid, OneKey, Evidence, PaidOnce, Backed, Confirmed,
        Truthful, Noted, Finished
  <2>1. Started'
    BY <1>t, <1>c, <1>1 DEF Started, TypeOK, Inside, Finished
  <2>2. Paying'
    BY <1>t, <1>c, <1>1 DEF Paying, TypeOK, Inside, Finished
  <2>3. Recording'
    BY <1>t, <1>c, <1>1 DEF Recording, TypeOK, Inside, Finished
  <2>4. Alone'
    BY <1>p DEF Alone
  <2>5. Shown'
    BY <1>t, <1>c, <1>1 DEF Shown, TypeOK, Inside, Finished
  <2>6. Accepted'
    BY <1>t, <1>c, <1>1 DEF Accepted, TypeOK, Inside, Finished
  <2> QED BY <2>0, <2>1, <2>2, <2>3, <2>4, <2>5, <2>6 DEF Core
<1>2. CASE ToolRunning(c)
  <2>f. cache[host] # None /\ cache'[host].effect = cache[host].effect
    BY <1>t, <1>2 DEF TypeOK, Hosted, Flags, ToolRunning, Indeterminate, Note, Turn
  <2>0. OneDoubt' /\ Unpaid' /\ PaidOnce' /\ Backed' /\ Truthful'
    BY <1>c, <1>2 DEF OneDoubt, Unpaid, PaidOnce, Backed, Truthful, ToolRunning,
        Indeterminate, Note, Turn
  <2>1. Started'
    BY <1>t, <1>c, <1>2 DEF Started, TypeOK, Inside, ToolRunning, Indeterminate, Note, Turn
  <2>2. Paying'
    BY <1>t, <1>c, <1>2 DEF Paying, TypeOK, Inside, ToolRunning, Indeterminate, Note, Turn
  <2>3. Recording'
    BY <1>t, <1>c, <1>2 DEF Recording, TypeOK, Inside, ToolRunning, Indeterminate, Note,
        Turn
  <2>n. \A j \in Calls : Noted(j)' => Noted(j)
    BY <1>t, <1>2, <2>f DEF Noted, TypeOK, ToolRunning, Indeterminate, Note, Turn
  <2>4. OneKey'
    BY <1>t, <1>c, <1>2, <2>n, KeyStep DEF OneKey, TypeOK, Started, Recording, Inside,
        ToolRunning, Indeterminate, Note, Turn
  <2>5. Alone'
    BY <1>p DEF Alone
  <2>6. Shown'
    <3>1. shown' = c /\ at' = "noted" /\ tool' = tool /\ tool[c].state = "running"
        BY <1>2 DEF ToolRunning, Indeterminate, Note
    <3>2. \A d \in Calls : tool[d].state = "running" => d = c
        BY <1>c, <3>1, CallAssumption DEF OneDoubt, Calls
    <3> QED BY <3>1, <3>2 DEF Shown
  <2>7. Evidence'
    BY <1>p DEF Evidence
  <2>8. Accepted'
    BY <1>t, <1>c, <1>2 DEF Accepted, TypeOK, Inside, ToolRunning, Indeterminate, Note, Turn
  <2>9. Confirmed'
    BY <1>p DEF Confirmed
  <2> QED BY <2>0, <2>1, <2>2, <2>3, <2>4, <2>5, <2>6, <2>7, <2>8, <2>9 DEF Core
<1>3. CASE StartTool(c)
  <2>0. Unpaid' /\ PaidOnce' /\ Backed' /\ Confirmed'
    BY <1>c, <1>3 DEF Unpaid, PaidOnce, Backed, Confirmed, StartTool, Turn
  <2>1. OneDoubt'
    BY <1>t, <1>c, <1>3, CallAssumption DEF OneDoubt, pending, Calls, TypeOK, Inside,
        StartTool, Turn
  <2>2. Started'
    BY <1>t, <1>c, <1>3 DEF Started, TypeOK, Inside, StartTool, Turn
  <2>3. Paying'
    BY <1>t, <1>c, <1>3 DEF Paying, TypeOK, Inside, StartTool, Turn
  <2>4. Recording'
    BY <1>t, <1>c, <1>3 DEF Recording, TypeOK, Inside, StartTool, Turn
  <2>n. \A j \in Calls : Noted(j)' => Noted(j)
    BY <1>t, <1>3 DEF Noted, TypeOK, StartTool, Turn
  <2>5. OneKey'
    BY <1>t, <1>c, <1>3, <2>n, KeyStep DEF OneKey, TypeOK, Started, Recording, Inside,
        StartTool, Turn
  <2>6. Alone'
    BY <1>p DEF Alone
  <2>7. Shown'
    BY <1>t, <1>c, <1>3 DEF Shown, TypeOK, Inside, StartTool, Turn
  <2>8. Evidence'
    BY <1>p DEF Evidence
  <2>9. Accepted'
    BY <1>t, <1>c, <1>3 DEF Accepted, TypeOK, Inside, StartTool, Turn
  <2>10. Truthful'
    BY <1>t, <1>c, <1>3 DEF Truthful, TypeOK, Inside, StartTool, Turn
  <2> QED BY <2>0, <2>1, <2>2, <2>3, <2>4, <2>5, <2>6, <2>7, <2>8, <2>9, <2>10 DEF Core
<1>4. CASE Contended
  <2>0. Unpaid' /\ PaidOnce' /\ Backed' /\ Confirmed'
    BY <1>c, <1>4 DEF Unpaid, PaidOnce, Backed, Confirmed, Contended
  <2>1. OneDoubt'
    BY <1>t, <1>c, <1>4 DEF OneDoubt, Started, TypeOK, Inside, Contended
  <2>2. Started'
    BY <1>t, <1>c, <1>4 DEF Started, TypeOK, Inside, Contended
  <2>3. Paying'
    BY <1>t, <1>c, <1>4 DEF Paying, TypeOK, Inside, Contended
  <2>4. Recording'
    BY <1>t, <1>c, <1>4 DEF Recording, TypeOK, Inside, Contended
  <2>n. \A j \in Calls : Noted(j)' => Noted(j)
    BY <1>t, <1>4 DEF Noted, TypeOK, Contended
  <2>5. OneKey'
    <3>1. tool[turn].state = "running" /\ turn \in Calls
        BY <1>t, <1>c, <1>4 DEF Started, Inside, Contended, TypeOK
    <3>2. CASE tool' = tool
        BY <1>c, <1>4, <2>n, <3>2, KeyStep DEF OneKey, Contended
    <3>3. CASE tool' = [tool EXCEPT ![turn].state = "ready"]
        <4>1. \A d \in Calls : tool'[d].state = "done" <=> tool[d].state = "done"
            BY <1>t, <3>1, <3>3 DEF TypeOK
        <4> QED BY <1>c, <1>4, <2>n, <4>1, KeyStep DEF OneKey, Contended
    <3> QED BY <1>4, <3>2, <3>3 DEF Contended
  <2>6. Alone'
    BY <1>p DEF Alone
  <2>7. Shown'
    BY <1>t, <1>c, <1>4 DEF Shown, TypeOK, Inside, Contended
  <2>8. Evidence'
    BY <1>p DEF Evidence
  <2>9. Accepted'
    BY <1>t, <1>c, <1>4 DEF Accepted, TypeOK, Inside, Contended
  <2>10. Truthful'
    BY <1>t, <1>c, <1>4 DEF Truthful, TypeOK, Inside, Contended
  <2> QED BY <2>0, <2>1, <2>2, <2>3, <2>4, <2>5, <2>6, <2>7, <2>8, <2>9, <2>10 DEF Core
<1>5. CASE Charged
  <2>0. OneDoubt' /\ Unpaid' /\ OneKey' /\ Evidence' /\ PaidOnce' /\ Backed' /\ Confirmed'
      /\ Truthful'
    BY <1>c, <1>5 DEF OneDoubt, Unpaid, OneKey, Evidence, PaidOnce, Backed, Confirmed,
        Truthful, Noted, Charged
  <2>1. Started'
    BY <1>t, <1>c, <1>5 DEF Started, TypeOK, Inside, Charged
  <2>2. Paying'
    BY <1>t, <1>c, <1>5 DEF Paying, TypeOK, Inside, Charged
  <2>3. Recording'
    BY <1>t, <1>c, <1>5 DEF Recording, TypeOK, Inside, Charged
  <2>4. Alone'
    BY <1>p DEF Alone
  <2>5. Shown'
    BY <1>t, <1>c, <1>5 DEF Shown, TypeOK, Inside, Charged
  <2>6. Accepted'
    BY <1>t, <1>c, <1>5 DEF Accepted, TypeOK, Inside, Charged
  <2> QED BY <2>0, <2>1, <2>2, <2>3, <2>4, <2>5, <2>6 DEF Core
<1>6. CASE ChargeRunning
  <2>f. cache[host] # None /\ cache'[host].effect = cache[host].effect
    BY <1>t, <1>6 DEF TypeOK, Hosted, Flags, ChargeRunning, Indeterminate, Note
  <2>0. OneDoubt' /\ Unpaid' /\ PaidOnce' /\ Backed' /\ Truthful'
    BY <1>c, <1>6 DEF OneDoubt, Unpaid, PaidOnce, Backed, Truthful, ChargeRunning,
        Indeterminate, Note
  <2>1. Started'
    BY <1>t, <1>c, <1>6 DEF Started, TypeOK, Inside, ChargeRunning, Indeterminate, Note
  <2>2. Paying'
    BY <1>t, <1>c, <1>6 DEF Paying, TypeOK, Inside, ChargeRunning, Indeterminate, Note
  <2>3. Recording'
    BY <1>t, <1>c, <1>6 DEF Recording, TypeOK, Inside, ChargeRunning, Indeterminate, Note
  <2>n. \A j \in Calls : Noted(j)' => Noted(j)
    BY <1>t, <1>6, <2>f DEF Noted, TypeOK, ChargeRunning, Indeterminate, Note
  <2>4. OneKey'
    BY <1>t, <1>c, <1>6, <2>n, KeyStep DEF OneKey, TypeOK, Started, Recording, Inside,
        ChargeRunning, Indeterminate, Note
  <2>5. Alone'
    BY <1>p DEF Alone
  <2>6. Shown'
    <3>1. shown' = turn /\ at' = "noted" /\ tool' = tool
        BY <1>6 DEF ChargeRunning, Indeterminate, Note
    <3>2. turn \in Calls /\ tool[turn].state = "running"
        BY <1>t, <1>c, <1>6 DEF TypeOK, Started, Inside, ChargeRunning
    <3>3. \A d \in Calls : tool[d].state = "running" => d = turn
        BY <1>c, <3>2, CallAssumption DEF OneDoubt, Calls
    <3> QED BY <3>1, <3>3 DEF Shown
  <2>7. Evidence'
    BY <1>p DEF Evidence
  <2>8. Accepted'
    BY <1>t, <1>c, <1>6 DEF Accepted, TypeOK, Inside, ChargeRunning, Indeterminate, Note
  <2>9. Confirmed'
    BY <1>p DEF Confirmed
  <2> QED BY <2>0, <2>1, <2>2, <2>3, <2>4, <2>5, <2>6, <2>7, <2>8, <2>9 DEF Core
<1>7. CASE StartCharge
  <2>0. OneDoubt' /\ PaidOnce' /\ Confirmed' /\ Truthful'
    BY <1>c, <1>7 DEF OneDoubt, PaidOnce, Confirmed, Truthful, StartCharge
  <2>1. Started'
    BY <1>t, <1>c, <1>7 DEF Started, TypeOK, Inside, StartCharge
  <2>2. Paying'
    BY <1>t, <1>c, <1>7 DEF Paying, Unpaid, TypeOK, Inside, StartCharge
  <2>3. Recording'
    BY <1>t, <1>c, <1>7 DEF Recording, TypeOK, Inside, StartCharge
  <2>4. Unpaid'
    BY <1>t, <1>c, <1>7 DEF Unpaid, TypeOK, Inside, StartCharge
  <2>n. \A j \in Calls : Noted(j)' => Noted(j)
    BY <1>t, <1>7 DEF Noted, TypeOK, StartCharge
  <2>5. OneKey'
    BY <1>t, <1>c, <1>7, <2>n, KeyStep DEF OneKey, TypeOK, Started, Recording, Inside,
        StartCharge
  <2>6. Alone'
    BY <1>p DEF Alone
  <2>7. Shown'
    BY <1>t, <1>c, <1>7 DEF Shown, TypeOK, Inside, StartCharge
  <2>8. Evidence'
    BY <1>p DEF Evidence
  <2>9. Accepted'
    BY <1>t, <1>c, <1>7 DEF Accepted, TypeOK, Inside, StartCharge
  <2>10. Backed'
    BY <1>t, <1>c, <1>7 DEF Backed, TypeOK, Inside, StartCharge
  <2> QED BY <2>0, <2>1, <2>2, <2>3, <2>4, <2>5, <2>6, <2>7, <2>8, <2>9, <2>10 DEF Core
<1>8. CASE Body
  <2>0. OneDoubt' /\ OneKey'
    BY <1>c, <1>8 DEF OneDoubt, OneKey, Noted, Body, Pay
  <2>1. Started'
    BY <1>t, <1>c, <1>8 DEF Started, TypeOK, Inside, Body, Pay
  <2>2. Paying'
    BY <1>t, <1>c, <1>8 DEF Paying, TypeOK, Inside, Body, Pay
  <2>3. Recording'
    BY <1>t, <1>c, <1>8 DEF Recording, TypeOK, Inside, Body, Pay
  <2>4. Unpaid'
    BY <1>t, <1>c, <1>8 DEF Unpaid, Paying, TypeOK, Inside, Body, Pay
  <2>5. Alone'
    BY <1>p DEF Alone
  <2>6. Shown'
    BY <1>t, <1>c, <1>8 DEF Shown, TypeOK, Inside, Body, Pay
  <2>7. Evidence'
    BY <1>p DEF Evidence
  <2>8. PaidOnce'
    BY <1>t, <1>c, <1>8 DEF PaidOnce, Paying, TypeOK, Inside, Body, Pay
  <2>9. Accepted'
    BY <1>t, <1>c, <1>8 DEF Accepted, TypeOK, Inside, Body, Pay
  <2>10. Backed'
    BY <1>t, <1>c, <1>8 DEF Backed, TypeOK, Inside, Body, Pay
  <2>11. Confirmed'
    BY <1>p DEF Confirmed
  <2>12. Truthful'
    BY <1>t, <1>c, <1>8 DEF Truthful, TypeOK, Inside, Body, Pay
  <2> QED BY <2>0, <2>1, <2>2, <2>3, <2>4, <2>5, <2>6, <2>7, <2>8, <2>9, <2>10, <2>11,
      <2>12 DEF Core
<1>9. CASE Crash
  <2>0. OneDoubt'
    BY <1>c, <1>9 DEF OneDoubt, Crash, Note, Pay
  <2>1. Started'
    BY <1>t, <1>c, <1>9 DEF Started, TypeOK, Inside, Crash, Note, Pay
  <2>2. Paying'
    BY <1>t, <1>c, <1>9 DEF Paying, TypeOK, Inside, Crash, Note, Pay
  <2>3. Recording'
    BY <1>t, <1>c, <1>9 DEF Recording, TypeOK, Inside, Crash, Note, Pay
  <2>4. Unpaid'
    BY <1>t, <1>c, <1>9 DEF Unpaid, Paying, TypeOK, Inside, Crash, Note, Pay
  <2>5. OneKey'
    <3>1. armed # None /\ armed' = None
        BY <1>t, <1>9, ActorAssumption DEF TypeOK, Crash
    <3>2. \A k \in Calls : ~Noted(k)
        BY <1>c, <3>1 DEF OneKey
    <3>3. \A k \in Calls : Noted(k)' => k = turn
        BY <1>t, <1>9, <3>2, ActorAssumption DEF Noted, TypeOK, Hosted, Flags, Crash, Note
    <3>4. tool' = tool /\ turn \in Calls /\ tool[turn].state = "running"
        BY <1>t, <1>c, <1>9 DEF TypeOK, Started, Inside, Crash
    <3>5. \A d \in Calls : d < turn => tool[d].state = "done"
        BY <1>c, <3>4 DEF OneDoubt
    <3> QED BY <3>1, <3>3, <3>4, <3>5 DEF OneKey
  <2>6. Alone'
    BY <1>p DEF Alone
  <2>7. Shown'
    BY <1>t, <1>c, <1>9 DEF Shown, TypeOK, Inside, Crash, Note, Pay
  <2>8. Evidence'
    BY <1>p DEF Evidence
  <2>9. PaidOnce'
    BY <1>t, <1>c, <1>9 DEF PaidOnce, Paying, TypeOK, Inside, Crash, Note, Pay
  <2>10. Accepted'
    BY <1>t, <1>c, <1>9 DEF Accepted, TypeOK, Inside, Crash, Note, Pay
  <2>11. Backed'
    BY <1>t, <1>c, <1>9 DEF Backed, TypeOK, Inside, Crash, Note, Pay
  <2>12. Confirmed'
    BY <1>p DEF Confirmed
  <2>13. Truthful'
    BY <1>t, <1>c, <1>9 DEF Truthful, TypeOK, Inside, Crash, Note, Pay
  <2> QED BY <2>0, <2>1, <2>2, <2>3, <2>4, <2>5, <2>6, <2>7, <2>8, <2>9, <2>10, <2>11,
      <2>12, <2>13 DEF Core
<1>10. CASE FinishCharge
  <2>0. OneDoubt' /\ PaidOnce' /\ Confirmed' /\ Truthful'
    BY <1>c, <1>10 DEF OneDoubt, PaidOnce, Confirmed, Truthful, FinishCharge
  <2>1. Started'
    BY <1>t, <1>c, <1>10 DEF Started, TypeOK, Inside, FinishCharge
  <2>2. Paying'
    BY <1>t, <1>c, <1>10 DEF Paying, TypeOK, Inside, FinishCharge
  <2>3. Recording'
    BY <1>t, <1>c, <1>10 DEF Recording, TypeOK, Inside, FinishCharge
  <2>4. Unpaid'
    BY <1>t, <1>c, <1>10 DEF Unpaid, TypeOK, Inside, FinishCharge
  <2>n. \A j \in Calls : Noted(j)' => Noted(j)
    BY <1>t, <1>10 DEF Noted, TypeOK, FinishCharge
  <2>5. OneKey'
    BY <1>t, <1>c, <1>10, <2>n, KeyStep DEF OneKey, TypeOK, Started, Recording, Inside,
        FinishCharge
  <2>6. Alone'
    BY <1>p DEF Alone
  <2>7. Shown'
    BY <1>t, <1>c, <1>10 DEF Shown, TypeOK, Inside, FinishCharge
  <2>8. Evidence'
    BY <1>p DEF Evidence
  <2>9. Accepted'
    BY <1>t, <1>c, <1>10 DEF Accepted, TypeOK, Inside, FinishCharge
  <2>10. Backed'
    BY <1>t, <1>c, <1>10 DEF Backed, Accepted, TypeOK, Inside, FinishCharge
  <2> QED BY <2>0, <2>1, <2>2, <2>3, <2>4, <2>5, <2>6, <2>7, <2>8, <2>9, <2>10 DEF Core
<1>11. CASE FinishTool
  <2>0. Unpaid' /\ PaidOnce' /\ Backed' /\ Confirmed'
    BY <1>c, <1>11 DEF Unpaid, PaidOnce, Backed, Confirmed, FinishTool
  <2>1. OneDoubt'
    BY <1>t, <1>c, <1>11 DEF OneDoubt, TypeOK, Inside, FinishTool
  <2>2. Started'
    BY <1>t, <1>c, <1>11 DEF Started, TypeOK, Inside, FinishTool
  <2>3. Paying'
    BY <1>t, <1>c, <1>11 DEF Paying, TypeOK, Inside, FinishTool
  <2>4. Recording'
    BY <1>t, <1>c, <1>11 DEF Recording, TypeOK, Inside, FinishTool
  <2>n. \A j \in Calls : Noted(j)' => Noted(j)
    BY <1>t, <1>11 DEF Noted, TypeOK, FinishTool
  <2>5. OneKey'
    BY <1>t, <1>c, <1>11, <2>n, KeyStep DEF OneKey, TypeOK, Started, Recording, Inside,
        FinishTool
  <2>6. Alone'
    BY <1>p DEF Alone
  <2>7. Shown'
    BY <1>t, <1>c, <1>11 DEF Shown, TypeOK, Inside, FinishTool
  <2>8. Evidence'
    BY <1>p DEF Evidence
  <2>9. Accepted'
    BY <1>t, <1>c, <1>11 DEF Accepted, TypeOK, Inside, FinishTool
  <2>10. Truthful'
    BY <1>t, <1>c, <1>11 DEF Truthful, Recording, Backed, TypeOK, Inside, FinishTool
  <2> QED BY <2>0, <2>1, <2>2, <2>3, <2>4, <2>5, <2>6, <2>7, <2>8, <2>9, <2>10 DEF Core
<1>12. CASE Finally
  <2>f. cache[host] # None
    BY <1>t, <1>12 DEF Hosted, Finally
  <2>0. OneDoubt' /\ Unpaid' /\ Evidence' /\ PaidOnce' /\ Backed' /\ Confirmed' /\
      Truthful'
    BY <1>c, <1>12 DEF OneDoubt, Unpaid, Evidence, PaidOnce, Backed, Confirmed,
        Truthful, Finally
  <2>1. Started'
    BY <1>t, <1>c, <1>12 DEF Started, TypeOK, Inside, Finally
  <2>2. Paying'
    BY <1>t, <1>c, <1>12 DEF Paying, TypeOK, Inside, Finally
  <2>3. Recording'
    BY <1>t, <1>c, <1>12 DEF Recording, TypeOK, Inside, Finally
  <2>n. \A j \in Calls : Noted(j)' => Noted(j)
    BY <1>t, <1>12, <2>f DEF Noted, TypeOK, Finally
  <2>4. OneKey'
    BY <1>t, <1>c, <1>12, <2>n, KeyStep DEF OneKey, TypeOK, Started, Recording, Inside,
        Finally
  <2>5. Alone'
    BY <1>p DEF Alone
  <2>6. Shown'
    BY <1>t, <1>c, <1>12 DEF Shown, TypeOK, Inside, Finally
  <2>7. Accepted'
    BY <1>t, <1>c, <1>12 DEF Accepted, TypeOK, Inside, Finally
  <2> QED BY <2>0, <2>1, <2>2, <2>3, <2>4, <2>5, <2>6, <2>7 DEF Core
<1>13. CASE Remember
  <2>0. OneDoubt' /\ Unpaid' /\ Evidence' /\ PaidOnce' /\ Backed' /\ Confirmed' /\
      Truthful'
    BY <1>c, <1>13 DEF OneDoubt, Unpaid, Evidence, PaidOnce, Backed, Confirmed,
        Truthful, Remember
  <2>1. Started'
    BY <1>t, <1>c, <1>13 DEF Started, TypeOK, Inside, Remember
  <2>2. Paying'
    BY <1>t, <1>c, <1>13 DEF Paying, TypeOK, Inside, Remember
  <2>3. Recording'
    BY <1>t, <1>c, <1>13 DEF Recording, TypeOK, Inside, Remember
  <2>n. \A j \in Calls : Noted(j)' => Noted(j)
    BY <1>t, <1>13 DEF Noted, TypeOK, Remember
  <2>4. OneKey'
    BY <1>t, <1>c, <1>13, <2>n, KeyStep DEF OneKey, TypeOK, Started, Recording, Inside,
        Remember
  <2>5. Alone'
    BY <1>p DEF Alone
  <2>6. Shown'
    BY <1>t, <1>c, <1>13 DEF Shown, TypeOK, Inside, Remember
  <2>7. Accepted'
    BY <1>t, <1>c, <1>13 DEF Accepted, TypeOK, Inside, Remember
  <2> QED BY <2>0, <2>1, <2>2, <2>3, <2>4, <2>5, <2>6, <2>7 DEF Core
<1>14. CASE Cancel
  <2>0. OneDoubt' /\ Unpaid' /\ OneKey' /\ Evidence' /\ PaidOnce' /\ Backed' /\ Confirmed'
      /\ Truthful'
    BY <1>c, <1>14 DEF OneDoubt, Unpaid, OneKey, Evidence, PaidOnce, Backed, Confirmed,
        Truthful, Noted, Cancel
  <2>1. Started'
    BY <1>t, <1>c, <1>14 DEF Started, TypeOK, Inside, Cancel
  <2>2. Paying'
    BY <1>t, <1>c, <1>14 DEF Paying, TypeOK, Inside, Cancel
  <2>3. Recording'
    BY <1>t, <1>c, <1>14 DEF Recording, TypeOK, Inside, Cancel
  <2>4. Alone'
    BY <1>p DEF Alone
  <2>5. Shown'
    BY <1>t, <1>c, <1>14 DEF Shown, TypeOK, Inside, Cancel
  <2>6. Accepted'
    BY <1>t, <1>c, <1>14 DEF Accepted, TypeOK, Inside, Cancel
  <2> QED BY <2>0, <2>1, <2>2, <2>3, <2>4, <2>5, <2>6 DEF Core
<1> QED BY <1>1, <1>2, <1>3, <1>4, <1>5, <1>6, <1>7, <1>8, <1>9, <1>10, <1>11, <1>12, <1>13,
    <1>14 DEF AttemptStep

LEMMA WorkerCore ==
    ASSUME TInv, TInv', overlaps = 0, Core,
           NEW w \in Worker,
           WorkerStep(w)
    PROVE  overlaps' = 0 => Core'
<1> SUFFICES ASSUME overlaps' = 0 PROVE Core'
    OBVIOUS
<1> USE DEF ledger, session, attempt, settles, counts
<1>t. TypeOK /\ Hosted /\ Bound /\ TypeOK'
    BY DEF TInv
<1>c. /\ OneDoubt /\ Started /\ Paying /\ Recording /\ Unpaid /\ OneKey
      /\ Alone /\ Shown /\ Evidence /\ PaidOnce
      /\ Accepted /\ Backed /\ Confirmed /\ Truthful
    BY DEF Core
<1>1. CASE Recover(w)
  <2>f. \A k \in Calls : _session(w).effect = k => Noted(k)
    BY <1>t DEF _session, Noted, TypeOK
  <2>0. OneDoubt' /\ Unpaid' /\ PaidOnce' /\ Backed' /\ Truthful'
    BY <1>c, <1>1 DEF OneDoubt, Unpaid, PaidOnce, Backed, Truthful, Recover,
        Rehydrate, Join
  <2>1. Started'
    BY <1>t, <1>c, <1>1 DEF Started, TypeOK, Inside, Recover, Rehydrate, Join
  <2>2. Paying'
    BY <1>t, <1>c, <1>1 DEF Paying, TypeOK, Inside, Recover, Rehydrate, Join
  <2>3. Recording'
    BY <1>t, <1>c, <1>1 DEF Recording, TypeOK, Inside, Recover, Rehydrate, Join
  <2>n. \A j \in Calls : Noted(j)' => Noted(j)
    BY <1>t, <1>1, <2>f DEF Noted, TypeOK, Recover, Rehydrate, Join
  <2>4. OneKey'
    BY <1>t, <1>c, <1>1, <2>n, KeyStep DEF OneKey, TypeOK, Started, Recording, Inside,
        Recover, Rehydrate, Join
  <2>5. Alone'
    BY <1>t, <1>c, <1>1 DEF Alone, Quiet, TypeOK, Inside, Serving, Recover, Rehydrate, Join
  <2>6. Shown'
    BY <1>t, <1>c, <1>1 DEF Shown, TypeOK, Inside, Recover, Rehydrate, Join
  <2>7. Evidence'
    BY <1>t, <1>c, <1>1 DEF Evidence, Quiet, TypeOK, Inside, Serving, Recover,
        Rehydrate, Join
  <2>8. Accepted'
    BY <1>t, <1>c, <1>1 DEF Accepted, TypeOK, Inside, Recover, Rehydrate, Join
  <2>9. Confirmed'
    BY <1>t, <1>c, <1>1 DEF Confirmed, Quiet, TypeOK, Inside, Recover, Rehydrate, Join
  <2> QED BY <2>0, <2>1, <2>2, <2>3, <2>4, <2>5, <2>6, <2>7, <2>8, <2>9 DEF Core
<1>2. CASE Die(w)
  <2>0. OneDoubt' /\ Unpaid' /\ PaidOnce' /\ Backed' /\ Truthful'
    BY <1>c, <1>2 DEF OneDoubt, Unpaid, PaidOnce, Backed, Truthful, Die
  <2>1. Started'
    BY <1>t, <1>c, <1>2 DEF Started, TypeOK, Inside, Die
  <2>2. Paying'
    BY <1>t, <1>c, <1>2 DEF Paying, TypeOK, Inside, Die
  <2>3. Recording'
    BY <1>t, <1>c, <1>2 DEF Recording, TypeOK, Inside, Die
  <2>n. \A j \in Calls : Noted(j)' => Noted(j)
    BY <1>t, <1>2 DEF Noted, TypeOK, Die
  <2>4. OneKey'
    BY <1>t, <1>c, <1>2, <2>n, KeyStep DEF OneKey, TypeOK, Started, Recording, Inside, Die
  <2>5. Alone'
    BY <1>t, <1>c, <1>2 DEF Alone, TypeOK, Inside, Serving, Die
  <2>6. Shown'
    BY <1>t, <1>c, <1>2 DEF Shown, TypeOK, Inside, Die
  <2>7. Evidence'
    BY <1>t, <1>c, <1>2 DEF Evidence, TypeOK, Inside, Serving, Die
  <2>8. Accepted'
    BY <1>t, <1>c, <1>2 DEF Accepted, TypeOK, Inside, Die
  <2>9. Confirmed'
    BY <1>t, <1>c, <1>2 DEF Confirmed, TypeOK, Inside, Die
  <2> QED BY <2>0, <2>1, <2>2, <2>3, <2>4, <2>5, <2>6, <2>7, <2>8, <2>9 DEF Core
<1>3. CASE Touch(w)
  <2>f. \A k \in Calls : _session(w).effect = k => Noted(k)
    BY <1>t DEF _session, Noted, TypeOK
  <2>0. OneDoubt' /\ Started' /\ Paying' /\ Recording' /\ Unpaid' /\ Alone' /\ Shown' /\
      Evidence' /\ PaidOnce' /\ Accepted' /\ Backed' /\ Confirmed' /\ Truthful'
    BY <1>c, <1>3 DEF OneDoubt, Started, Paying, Recording, Unpaid, Alone, Shown,
        Evidence, PaidOnce, Accepted, Backed, Confirmed, Truthful, Touch, Rehydrate
  <2>n. \A j \in Calls : Noted(j)' => Noted(j)
    BY <1>t, <1>3, <2>f DEF Noted, TypeOK, Touch, Rehydrate
  <2>1. OneKey'
    BY <1>t, <1>c, <1>3, <2>n, KeyStep DEF OneKey, TypeOK, Started, Recording, Inside,
        Touch, Rehydrate
  <2> QED BY <2>0, <2>1 DEF Core
<1> QED BY <1>1, <1>2, <1>3 DEF WorkerStep

LEMMA ServeCore ==
    ASSUME TInv, TInv', overlaps = 0, Core,
           NEW s \in Settler, NEW w \in Worker,
           ServeStep(s, w)
    PROVE  overlaps' = 0 => Core'
<1> SUFFICES ASSUME overlaps' = 0 PROVE Core'
    OBVIOUS
<1> USE DEF ledger, session, attempt, settles, counts
<1>t. TypeOK /\ Hosted /\ Bound /\ TypeOK'
    BY DEF TInv
<1>c. /\ OneDoubt /\ Started /\ Paying /\ Recording /\ Unpaid /\ OneKey
      /\ Alone /\ Shown /\ Evidence /\ PaidOnce
      /\ Accepted /\ Backed /\ Confirmed /\ Truthful
    BY DEF Core
<1>1. CASE Post(s, w)
  <2>0. OneDoubt' /\ Started' /\ Paying' /\ Recording' /\ Unpaid' /\ OneKey' /\ Shown' /\
      PaidOnce' /\ Accepted' /\ Backed' /\ Truthful'
    BY <1>c, <1>1 DEF OneDoubt, Started, Paying, Recording, Unpaid, OneKey, Shown,
        PaidOnce, Accepted, Backed, Truthful, Noted, Post, Join, Goto
  <2>1. Alone'
    BY <1>t, <1>c, <1>1 DEF Alone, Quiet, TypeOK, Inside, Serving, Post, Join, Goto
  <2>2. Evidence'
    <3>1. /\ shown # None /\ paid[shown] \in Nat
          /\ charged' = [charged EXCEPT ![s] = paid[shown] > 0]
        BY <1>t, <1>1 DEF Post, TypeOK
    <3>2. /\ pc' = [pc EXCEPT ![s] = "flags"] /\ UNCHANGED <<shown, paid, tool, effect, flags>>
          /\ \A t \in Settler : pc[t] = "idle"
        BY <1>t, <1>1 DEF Post, Goto, Join, Quiet, TypeOK
    <3>3. \A t \in Settler : pc'[t] # "idle" => t = s /\ pc'[t] = "flags"
        BY <1>t, <3>2 DEF TypeOK
    <3>4. ~charged'[s] => paid[shown] = 0
        <4>1. charged'[s] = (paid[shown] > 0)
            BY <1>t, <3>1, Zenon DEF TypeOK
        <4>2. ~charged'[s] => ~(paid[shown] > 0)
            BY <4>1, Zenon
        <4> QED BY <3>1, <4>2
    <3> QED BY <3>1, <3>2, <3>3, <3>4 DEF Evidence
  <2>3. Confirmed'
    <3>1. charged' = [charged EXCEPT ![s] = paid[shown] > 0] /\ UNCHANGED <<shown, paid, flags>>
        BY <1>1 DEF Post
    <3>2. \A t \in Settler : pc'[t] # "idle" => t = s /\ pc'[t] = "flags"
        BY <1>t, <1>1 DEF Post, Goto, Join, Quiet, TypeOK
    <3>3. charged'[s] => paid[shown] > 0
        BY <1>t, <3>1, Zenon DEF TypeOK
    <3> QED BY <3>1, <3>2, <3>3 DEF Confirmed
  <2> QED BY <2>0, <2>1, <2>2, <2>3 DEF Core
<1>2. CASE ReadFlags(s)
  <2>f. \A k \in Calls : _session(serves[s]).effect = k => Noted(k)
    BY <1>t DEF _session, Noted, TypeOK
  <2>0. OneDoubt' /\ Started' /\ Paying' /\ Recording' /\ Unpaid' /\ Shown' /\ PaidOnce'
      /\ Accepted' /\ Backed' /\ Truthful'
    BY <1>c, <1>2 DEF OneDoubt, Started, Paying, Recording, Unpaid, Shown, PaidOnce,
        Accepted, Backed, Truthful, ReadFlags, Rehydrate, Goto
  <2>n. \A j \in Calls : Noted(j)' => Noted(j)
    BY <1>t, <1>2, <2>f DEF Noted, TypeOK, ReadFlags, Rehydrate, Goto
  <2>1. OneKey'
    BY <1>t, <1>c, <1>2, <2>n, KeyStep DEF OneKey, TypeOK, Started, Recording, Inside,
        ReadFlags, Rehydrate, Goto
  <2>2. Alone'
    BY <1>t, <1>c, <1>2 DEF Alone, TypeOK, Inside, Serving, ReadFlags, Rehydrate, Goto
  <2>3. Evidence'
    BY <1>t, <1>c, <1>2 DEF Evidence, TypeOK, Inside, Serving, ReadFlags, Rehydrate, Goto
  <2>4. Confirmed'
    BY <1>t, <1>c, <1>2 DEF Confirmed, TypeOK, Inside, ReadFlags, Rehydrate, Goto
  <2> QED BY <2>0, <2>1, <2>2, <2>3, <2>4 DEF Core
<1>3. CASE Unresolved(s)
  <2>0. OneDoubt' /\ Started' /\ Paying' /\ Recording' /\ Unpaid' /\ OneKey' /\ Shown' /\
      PaidOnce' /\ Accepted' /\ Backed' /\ Truthful'
    BY <1>c, <1>3 DEF OneDoubt, Started, Paying, Recording, Unpaid, OneKey, Shown,
        PaidOnce, Accepted, Backed, Truthful, Noted, Unresolved, Goto
  <2>1. Alone'
    BY <1>t, <1>c, <1>3 DEF Alone, TypeOK, Inside, Serving, Unresolved, Goto
  <2>2. Evidence'
    BY <1>t, <1>c, <1>3 DEF Evidence, TypeOK, Inside, Serving, Unresolved, Goto
  <2>3. Confirmed'
    BY <1>t, <1>c, <1>3 DEF Confirmed, TypeOK, Inside, Unresolved, Goto
  <2> QED BY <2>0, <2>1, <2>2, <2>3 DEF Core
<1>4. CASE Acquire(s)
  <2>0. OneDoubt' /\ Started' /\ Paying' /\ Recording' /\ Unpaid' /\ OneKey' /\ Shown' /\
      PaidOnce' /\ Accepted' /\ Backed' /\ Truthful'
    BY <1>c, <1>4 DEF OneDoubt, Started, Paying, Recording, Unpaid, OneKey, Shown,
        PaidOnce, Accepted, Backed, Truthful, Noted, Acquire, Goto
  <2>1. Alone'
    BY <1>t, <1>c, <1>4 DEF Alone, TypeOK, Inside, Serving, Acquire, Goto
  <2>2. Evidence'
    BY <1>t, <1>c, <1>4 DEF Evidence, TypeOK, Inside, Serving, Acquire, Goto
  <2>3. Confirmed'
    BY <1>t, <1>c, <1>4 DEF Confirmed, TypeOK, Inside, Acquire, Goto
  <2> QED BY <2>0, <2>1, <2>2, <2>3 DEF Core
<1>5. CASE WriteEffect(s)
  <2>0. OneDoubt' /\ Started' /\ Shown' /\ PaidOnce' /\ Accepted' /\ Truthful'
    BY <1>c, <1>5 DEF OneDoubt, Started, Shown, PaidOnce, Accepted, Truthful,
        WriteEffect, Goto, Settled
  <2>1. Paying'
    BY <1>t, <1>c, <1>5 DEF Paying, Alone, TypeOK, Inside, WriteEffect, Goto, Settled
  <2>2. Recording'
    BY <1>t, <1>c, <1>5 DEF Recording, Alone, TypeOK, Inside, WriteEffect, Goto, Settled
  <2>3. Unpaid'
    <3> DEFINE e == flags[s].effect
               k == flags[s].step[2]
    <3>1. e \in Calls /\ k \in Calls
        BY <1>t, <1>5 DEF Bound, Serving, Step, WriteEffect
    <3>2. tool[k].state = "running" /\ shown = k /\ (~charged[s] => paid[k] = 0)
        BY <1>c, <1>5, <3>1 DEF Evidence, Shown, WriteEffect
    <3>3. e # k => effect[e] = "done"
        BY <1>c, <3>1, <3>2, OtherKey
    <3>4. effect'[e] = "ready" => paid[e] = 0
        BY <1>t, <1>c, <1>5, <3>1, <3>2, <3>3 DEF WriteEffect, Settled, Unpaid,
            TypeOK, State
    <3> QED BY <1>t, <1>c, <1>5, <3>1, <3>4 DEF WriteEffect, Unpaid, TypeOK
  <2>n. \A j \in Calls : Noted(j)' => Noted(j)
    BY <1>t, <1>5 DEF Noted, TypeOK, WriteEffect, Goto, Settled
  <2>4. OneKey'
    BY <1>t, <1>c, <1>5, <2>n, KeyStep DEF OneKey, TypeOK, Started, Recording, Inside,
        WriteEffect, Goto, Settled
  <2>5. Alone'
    BY <1>t, <1>c, <1>5 DEF Alone, TypeOK, Inside, Serving, WriteEffect, Goto, Settled
  <2>6. Evidence'
    BY <1>t, <1>c, <1>5 DEF Evidence, TypeOK, Inside, Serving, WriteEffect, Goto, Settled
  <2>7. Backed'
    <3> DEFINE e == flags[s].effect
               k == flags[s].step[2]
    <3>1. e \in Calls /\ k \in Calls
        BY <1>t, <1>5 DEF Bound, Serving, Step, WriteEffect
    <3>2. tool[k].state = "running" /\ shown = k /\ (charged[s] => paid[k] > 0)
        BY <1>c, <1>5, <3>1 DEF Evidence, Shown, Confirmed, WriteEffect
    <3>3. e # k => effect[e] = "done"
        BY <1>c, <3>1, <3>2, OtherKey
    <3> QED BY <1>t, <1>c, <1>5, <3>1, <3>2, <3>3 DEF WriteEffect, Settled, Backed, TypeOK, State
  <2>8. Confirmed'
    <3>1. \A t \in Settler : pc'[t] # "idle" => t = s /\ pc'[t] = "resolve"
        BY <1>t, <1>c, <1>5 DEF Alone, WriteEffect, Goto, TypeOK
    <3>2. flags[s].step[2] = shown
        BY <1>t, <1>c, <1>5 DEF Bound, Serving, Step, Evidence, Shown, WriteEffect
    <3> QED BY <1>t, <1>c, <1>5, <3>1, <3>2 DEF Confirmed, WriteEffect, TypeOK
  <2> QED BY <2>0, <2>1, <2>2, <2>3, <2>4, <2>5, <2>6, <2>7, <2>8 DEF Core
<1>6. CASE Resolve(s)
  <2>f. None \notin Calls /\ NoFlags.effect = None
    BY CallAssumption DEF NoFlags
  <2>0. Paying' /\ Recording' /\ Unpaid' /\ PaidOnce' /\ Accepted' /\ Backed'
    BY <1>c, <1>6 DEF Paying, Recording, Unpaid, PaidOnce, Accepted, Backed, Resolve, Goto
  <2>1. OneDoubt'
    BY <1>t, <1>c, <1>6 DEF OneDoubt, TypeOK, Inside, Resolve, Goto
  <2>2. Started'
    BY <1>t, <1>c, <1>6 DEF Started, Alone, TypeOK, Inside, Resolve, Goto
  <2>n. \A j \in Calls : Noted(j)' => Noted(j)
    BY <1>t, <1>6, <2>f DEF Noted, TypeOK, Resolve, Goto
  <2>3. OneKey'
    <3> DEFINE e == flags[s].effect
               k == flags[s].step[2]
    <3>1. e \in Calls /\ k \in Calls /\ Noted(e)
        BY <1>t, <1>6 DEF Bound, Serving, Step, Resolve, Noted
    <3>2. tool'[k].state = "done" => charged[s] /\ effect[e] = "done"
        BY <1>t, <1>c, <1>6, <3>1 DEF Resolve, Evidence, TypeOK
    <3>3. \A j \in Calls : Noted(j) => j = e
        BY <1>c, <3>1 DEF OneKey
    <3>4. \A j \in Calls : Noted(j) /\ tool'[j].state = "done" => effect'[j] = "done"
        BY <1>t, <1>c, <1>6, <3>1, <3>2, <3>3 DEF Resolve, OneKey, TypeOK
    <3>5. \A d \in Calls : tool[d].state = "done" => tool'[d].state = "done"
        BY <1>t, <1>6, <3>1 DEF Resolve, TypeOK
    <3>6. armed' = armed
        BY <1>6 DEF Resolve
    <3> QED BY <1>c, <2>n, <3>4, <3>5, <3>6, KeyStep
  <2>4. Alone'
    BY <1>t, <1>c, <1>6 DEF Alone, TypeOK, Inside, Serving, Resolve, Goto
  <2>5. Shown'
    BY <1>t, <1>c, <1>6 DEF Shown, TypeOK, Inside, Resolve, Goto
  <2>6. Evidence'
    <3>1. \A t \in Settler : pc'[t] # "idle" => t = s
        BY <1>t, <1>c, <1>6 DEF Alone, Resolve, Goto, TypeOK
    <3>2. pc'[s] = "save"
        BY <1>t, <1>6 DEF Resolve, Goto, TypeOK
    <3> QED BY <3>1, <3>2 DEF Evidence
  <2>7. Confirmed'
    BY <1>t, <1>c, <1>6 DEF Confirmed, TypeOK, Inside, Resolve, Goto
  <2>8. Truthful'
    BY <1>t, <1>c, <1>6 DEF Truthful, Confirmed, Bound, Serving, Step, TypeOK, Inside,
        Resolve, Goto
  <2> QED BY <2>0, <2>1, <2>2, <2>3, <2>4, <2>5, <2>6, <2>7, <2>8 DEF Core
<1>7. CASE ResolveStale(s)
  <2>0. OneDoubt' /\ Started' /\ Paying' /\ Recording' /\ Unpaid' /\ OneKey' /\ Shown' /\
      PaidOnce' /\ Accepted' /\ Backed' /\ Truthful'
    BY <1>c, <1>7 DEF OneDoubt, Started, Paying, Recording, Unpaid, OneKey, Shown,
        PaidOnce, Accepted, Backed, Truthful, Noted, ResolveStale, Goto
  <2>1. Alone'
    BY <1>t, <1>c, <1>7 DEF Alone, TypeOK, Inside, Serving, ResolveStale, Goto
  <2>2. Evidence'
    BY <1>t, <1>c, <1>7 DEF Evidence, TypeOK, Inside, Serving, ResolveStale, Goto
  <2>3. Confirmed'
    BY <1>t, <1>c, <1>7 DEF Confirmed, TypeOK, Inside, ResolveStale, Goto
  <2> QED BY <2>0, <2>1, <2>2, <2>3 DEF Core
<1>8. CASE SaveFlags(s)
  <2>f. None \notin Calls /\ NoFlags.effect = None
    BY CallAssumption DEF NoFlags
  <2>0. OneDoubt' /\ Started' /\ Paying' /\ Recording' /\ Unpaid' /\ PaidOnce' /\
      Accepted' /\ Backed' /\ Truthful'
    BY <1>c, <1>8 DEF OneDoubt, Started, Paying, Recording, Unpaid, PaidOnce, Accepted,
        Backed, Truthful, SaveFlags, Goto
  <2>n. \A j \in Calls : Noted(j)' => Noted(j)
    BY <1>t, <1>8, <2>f DEF Noted, TypeOK, SaveFlags, Goto
  <2>1. OneKey'
    BY <1>t, <1>c, <1>8, <2>n, KeyStep DEF OneKey, TypeOK, Started, Recording, Inside,
        SaveFlags, Goto
  <2>2. Alone'
    BY <1>t, <1>c, <1>8 DEF Alone, TypeOK, Inside, Serving, SaveFlags, Goto
  <2>3. Shown'
    BY <1>t, <1>c, <1>8 DEF Shown, TypeOK, Inside, SaveFlags, Goto
  <2>4. Evidence'
    <3>1. \A t \in Settler : pc'[t] = "idle"
        BY <1>t, <1>c, <1>8 DEF Alone, SaveFlags, Goto, TypeOK
    <3> QED BY <3>1 DEF Evidence
  <2>5. Confirmed'
    <3>1. \A t \in Settler : pc'[t] = "idle"
        BY <1>t, <1>c, <1>8 DEF Alone, SaveFlags, Goto, TypeOK
    <3> QED BY <3>1 DEF Confirmed
  <2> QED BY <2>0, <2>1, <2>2, <2>3, <2>4, <2>5 DEF Core
<1> QED BY <1>1, <1>2, <1>3, <1>4, <1>5, <1>6, <1>7, <1>8 DEF ServeStep

-----------------------------------------------------------------------------
(* The theorems. *)

LEMMA NextCases ==
    ASSUME Next, TInv
    PROVE  \/ \E c \in Calls : AttemptStep(c)
           \/ \E w \in Worker : WorkerStep(w)
           \/ \E s \in Settler, w \in Worker : ServeStep(s, w)
<1>1. turn \in Calls /\ host \in Worker
    BY DEF TInv, TypeOK
<1>2. CASE Engine \/ Cancel
    BY <1>1, <1>2 DEF Engine, AttemptStep
<1>3. CASE \E w \in Worker : Recover(w) \/ Die(w) \/ Touch(w)
    BY <1>3 DEF WorkerStep
<1>4. CASE \E s \in Settler : Serve(s) \/ \E w \in Worker : Post(s, w)
    BY <1>1, <1>4 DEF Serve, ServeStep
<1> QED BY <1>2, <1>3, <1>4 DEF Next

LEMMA OverlapsGrow ==
    ASSUME TInv, [Next]_vars, overlaps' = 0
    PROVE  overlaps = 0
<1>0. overlaps \in Nat
    BY BoundAssumption DEF TInv, TypeOK
<1>1. CASE UNCHANGED vars
    BY <1>1 DEF vars, counts
<1>2. ASSUME NEW c \in Calls, AttemptStep(c) PROVE overlaps' = overlaps
    BY <1>2 DEF AttemptStep, counts, ToolRunning, ChargeRunning, Indeterminate,
        Finished, StartTool,
        Contended, Charged, StartCharge, Body, Crash, FinishCharge, FinishTool, Finally, Remember,
        Cancel
<1>3. ASSUME NEW w \in Worker, WorkerStep(w) PROVE overlaps' \in {overlaps, overlaps + 1}
    BY <1>3 DEF WorkerStep, counts, Recover, Join, Die, Touch
<1>4. ASSUME NEW s \in Settler, NEW w \in Worker, ServeStep(s, w)
      PROVE  overlaps' \in {overlaps, overlaps + 1}
    BY <1>4 DEF ServeStep, counts, Post, Join, ReadFlags, Unresolved, Acquire,
        WriteEffect, Resolve,
        ResolveStale, SaveFlags
<1> QED BY <1>0, <1>1, <1>2, <1>3, <1>4, NextCases

LEMMA InitCore == Init => IInv
<1> SUFFICES ASSUME Init PROVE IInv
    OBVIOUS
<1> USE CallAssumption, ActorAssumption
<1>1. ~ \E k \in Calls : Noted(k)
    BY DEF Init, Noted, NoFlags
<1>2. OneDoubt /\ Started /\ Paying /\ Recording /\ Unpaid /\ PaidOnce
    BY DEF Init, OneDoubt, Started, Paying, Recording, Unpaid, PaidOnce
<1>3. OneKey
    BY <1>1 DEF OneKey
<1>4. Alone /\ Shown /\ Evidence
    BY DEF Init, Alone, Shown, Evidence
<1>5. Accepted /\ Backed /\ Confirmed /\ Truthful
    BY DEF Init, Accepted, Backed, Confirmed, Truthful
<1> QED BY <1>2, <1>3, <1>4, <1>5, InitTyped DEF IInv, Core

LEMMA NextTyped == TInv /\ [Next]_vars => TInv'
<1> SUFFICES ASSUME TInv, [Next]_vars PROVE TInv'
    OBVIOUS
<1>1. CASE UNCHANGED vars
    BY <1>1 DEF TInv, TypeOK, Hosted, Bound, vars, ledger, session, attempt, settles, counts
<1>2. CASE Next
    BY <1>2, NextCases, AttemptTyped, WorkerTyped, ServeTyped
<1> QED BY <1>1, <1>2

LEMMA NextCore == IInv /\ [Next]_vars => IInv'
<1> SUFFICES ASSUME IInv, [Next]_vars PROVE IInv'
    OBVIOUS
<1> USE DEF IInv
<1>1. TInv'
    BY NextTyped
<1>2. overlaps' = 0 => overlaps = 0
    BY OverlapsGrow
<1>3. CASE UNCHANGED vars
    BY <1>1, <1>3 DEF Core, OneDoubt, Started, Paying, Recording, Unpaid, OneKey, Noted,
        Alone,
        Shown, Evidence, PaidOnce, Accepted, Backed, Confirmed, Truthful,
        vars, ledger, session, attempt, settles, counts
<1>4. CASE Next
    BY <1>1, <1>2, <1>4, NextCases, AttemptCore, WorkerCore, ServeCore
<1> QED BY <1>3, <1>4

(* The variables of every reachable state have their types; past its first   *)
(* await a settlement has both coordinates, and an attempt has its session.  *)
THEOREM TypeCorrect == Spec => []TypeOK
<1>1. TInv => TypeOK
    BY DEF TInv
<1> QED BY <1>1, InitTyped, NextTyped, PTL DEF Spec

(* While requests are made one at a time, a charge is accepted once at most: *)
(* for any number of workers that cache the session, of calls in the batch,  *)
(* of crashes, cancellations and dead workers, and of answers (settle).      *)
THEOREM ChargesAreUnique == Spec => []ChargedOnce
<1>1. IInv => ChargedOnce
    BY DEF IInv, Core, ChargedOnce
<1> QED BY <1>1, InitCore, NextCore, PTL DEF Spec

(* Under the same condition, a call that has a result has been paid for:     *)
(* whether it ran, was replayed, or was confirmed by a person.               *)
THEOREM TellsAreTrue == Spec => []ToldIsTrue
<1>1. IInv => ToldIsTrue
    BY DEF IInv, Core, ToldIsTrue
<1> QED BY <1>1, InitCore, NextCore, PTL DEF Spec

-----------------------------------------------------------------------------
(* What the session remembers. *)

(* The image runs one worker (Dockerfile:25-28).  A second one that cached   *)
(* the session before the crash would write back its own flags.              *)
OneWorker == \A v, w \in Worker : v = w

(* The write of an attempt carries what its worker has.  What a worker has   *)
(* agrees with the record on the key, but for a settlement that has resolved *)
(* the call and not saved; and there the call of the key is in doubt no more.*)
Written == at = "saving" => snap = cache[host]
Agree   == (\A s \in Settler : pc[s] # "save") =>
    \A w \in Worker : cache[w] # None /\ saved.effect # None => cache[w].effect = saved.effect
Ended   == \A s \in Settler :
    pc[s] = "save" /\ saved.effect # None => tool[saved.effect].state # "running"
Copies == Written /\ Agree /\ Ended
CInv == IInv /\ (overlaps = 0 => Copies)

(* The key that the record of the session holds is noted.                    *)
LEMMA SavedIsNoted ==
    ASSUME TypeOK, saved.effect # None
    PROVE  saved.effect \in Calls /\ Noted(saved.effect)
BY DEF TypeOK, Flags, Noted

(* While a settlement runs no attempt does; while an attempt runs nothing    *)
(* is settled.                                                               *)
LEMMA NoneServed ==
    ASSUME Alone, at # "idle"
    PROVE  \A s \in Settler : pc[s] = "idle"
BY DEF Alone

LEMMA AttemptCopies ==
    ASSUME OneWorker, TInv, Core, Copies, NEW c \in Calls, AttemptStep(c)
    PROVE  Copies'
<1> USE DEF ledger, session, attempt, settles, counts
<1>t. TypeOK /\ Hosted /\ Alone /\ OneKey /\ Written /\ Agree /\ Ended
    BY DEF TInv, Core, Copies
<1>h. host \in Worker /\ \A w \in Worker : w = host
    BY <1>t DEF TypeOK, OneWorker
<1>1. at # "idle" /\ pc' = pc
    BY DEF AttemptStep, Finished, ToolRunning, StartTool, Contended, Charged,
        ChargeRunning, StartCharge, Body, Crash, FinishCharge, FinishTool,
        Finally, Remember, Cancel, Turn, Inside, Indeterminate, Note
<1>2. \A s \in Settler : pc'[s] = "idle" /\ pc[s] = "idle"
    BY <1>t, <1>1, NoneServed
<1>e. Ended'
    BY <1>2 DEF Ended
<1>k. \A w \in Worker : cache[w] # None /\ saved.effect # None => cache[w].effect = saved.effect
    BY <1>t, <1>2 DEF Agree
<1>3. CASE ToolRunning(c) \/ ChargeRunning
  <2>1. /\ at' = "noted" /\ saved' = saved
        /\ cache[host] # None /\ cache'[host].effect = cache[host].effect
    BY <1>t, <1>3 DEF TypeOK, Hosted, Flags, Inside, ToolRunning, ChargeRunning,
        Indeterminate, Note, Turn
  <2>2. Written'
    BY <2>1 DEF Written
  <2>3. Agree'
    BY <1>h, <1>k, <2>1 DEF Agree
  <2> QED BY <1>e, <2>2, <2>3 DEF Copies
<1>4. CASE Crash
  <2>1. armed # None /\ at' = "noted" /\ saved' = saved
    BY <1>t, <1>4, ActorAssumption DEF TypeOK, Crash, Note
  <2>2. saved.effect = None
    BY <1>t, <2>1, SavedIsNoted DEF OneKey
  <2>3. Written' /\ Agree'
    BY <2>1, <2>2 DEF Written, Agree
  <2> QED BY <1>e, <2>3 DEF Copies
<1>5. CASE Finally
  <2>1. cache' = cache /\ saved' = saved /\ snap' = cache[host] /\ host' = host
    BY <1>5 DEF Finally
  <2>2. Written' /\ Agree'
    BY <1>k, <2>1 DEF Written, Agree
  <2> QED BY <1>e, <2>2 DEF Copies
<1>6. CASE Remember
  <2>1. cache' = cache /\ saved' = cache[host] /\ at' \in {"over", "idle"}
    BY <1>t, <1>6 DEF Remember, Written
  <2>2. Written' /\ Agree'
    BY <1>h, <2>1 DEF Written, Agree
  <2> QED BY <1>e, <2>2 DEF Copies
<1>7. CASE Finished \/ StartTool(c) \/ Contended \/ Charged \/ StartCharge \/ Body
           \/ FinishCharge \/ FinishTool \/ Cancel
  <2>1. cache' = cache /\ saved' = saved /\ at' # "saving"
    BY <1>7 DEF Finished, StartTool, Contended, Charged, StartCharge, Body, FinishCharge,
        FinishTool, Cancel
  <2>2. Written' /\ Agree'
    BY <1>k, <2>1 DEF Written, Agree
  <2> QED BY <1>e, <2>2 DEF Copies
<1> QED BY <1>3, <1>4, <1>5, <1>6, <1>7 DEF AttemptStep

LEMMA WorkerCopies ==
    ASSUME OneWorker, TInv, Core, Copies, overlaps = 0, overlaps' = 0,
           NEW w \in Worker, WorkerStep(w)
    PROVE  Copies'
<1> USE DEF ledger, session, attempt, settles, counts
<1>t. TypeOK /\ Hosted /\ Alone /\ Written /\ Agree /\ Ended
    BY DEF TInv, Core, Copies
<1>h. host \in Worker /\ \A v \in Worker : v = w
    BY <1>t DEF TypeOK, OneWorker
<1>1. CASE Recover(w)
  <2>1. /\ at' = "engine" /\ saved' = saved /\ pc' = pc
        /\ cache'[w] = _session(w)
    BY <1>t, <1>1 DEF TypeOK, Recover, Rehydrate
  <2>2. \A s \in Settler : pc[s] = "idle"
    BY <1>1 DEF Recover, Join, Quiet
  <2>3. saved.effect # None => cache'[w].effect = saved.effect
    BY <1>t, <2>1, <2>2 DEF _session, Agree
  <2>4. Written' /\ Ended'
    BY <2>1, <2>2 DEF Written, Ended
  <2>5. Agree'
    BY <1>h, <2>1, <2>3 DEF Agree
  <2> QED BY <2>4, <2>5 DEF Copies
<1>2. CASE Die(w)
  <2>1. /\ at' # "saving" /\ cache'[w] = None
        /\ \A s \in Settler : pc'[s] = "idle"
    BY <1>t, <1>h, <1>2 DEF TypeOK, Die
  <2> QED BY <1>h, <2>1 DEF Copies, Written, Agree, Ended
<1>3. CASE Touch(w)
  <2>1. /\ saved' = saved /\ pc' = pc /\ at' = at /\ tool' = tool /\ snap' = snap /\ host' = host
        /\ cache[w] = None /\ cache'[w] = saved
    BY <1>t, <1>3 DEF TypeOK, Touch, Rehydrate, _session
  <2>2. at # "saving"
    BY <1>t, <1>h, <2>1 DEF Hosted
  <2>3. Written' /\ Ended'
    BY <1>t, <2>1, <2>2 DEF Written, Ended
  <2>4. Agree'
    BY <1>h, <2>1 DEF Agree
  <2> QED BY <2>3, <2>4 DEF Copies
<1> QED BY <1>1, <1>2, <1>3 DEF WorkerStep

(* Of two calls one at most is in doubt.                                     *)
LEMMA OnlyOne ==
    ASSUME OneDoubt, NEW c \in Calls, NEW d \in Calls,
           tool[c].state = "running", tool[d].state = "running"
    PROVE  c = d
<1>1. ~(d < c) /\ ~(c < d)
    BY DEF OneDoubt
<1> QED BY <1>1, CallAssumption DEF Calls

LEMMA ServeCopies ==
    ASSUME OneWorker, TInv, Core, Copies, overlaps = 0, overlaps' = 0,
           NEW s \in Settler, NEW w \in Worker, ServeStep(s, w)
    PROVE  Copies'
<1> USE DEF ledger, session, attempt, settles, counts
<1>t. TypeOK /\ Bound /\ OneDoubt /\ OneKey /\ Alone /\ Agree /\ Ended
    BY DEF TInv, Core, Copies
<1>1. at = "idle" /\ at' = at
    BY <1>t DEF ServeStep, Alone, Post, Join, ReadFlags, Unresolved, Acquire,
        WriteEffect, Resolve, ResolveStale, SaveFlags
<1>2. Written'
    BY <1>1 DEF Written
<1>3. CASE Post(s, w) \/ Unresolved(s) \/ Acquire(s) \/ WriteEffect(s) \/ ResolveStale(s)
  <2>1. /\ cache' = cache /\ saved' = saved /\ tool' = tool
        /\ \A t \in Settler : pc'[t] = "save" <=> pc[t] = "save"
    BY <1>t, <1>3 DEF TypeOK, Post, Unresolved, Acquire, WriteEffect, ResolveStale, Goto
  <2>2. Agree' /\ Ended'
    BY <1>t, <2>1 DEF Agree, Ended
  <2> QED BY <1>2, <2>2 DEF Copies
<1>4. CASE ReadFlags(s)
  <2>1. /\ saved' = saved /\ tool' = tool /\ serves[s] \in Worker
        /\ cache'[serves[s]] = _session(serves[s])
        /\ \A t \in Settler : pc[t] # "save" /\ pc'[t] # "save"
    BY <1>t, <1>4 DEF TypeOK, ReadFlags, Rehydrate, Goto, Alone
  <2>2. saved.effect # None => cache'[serves[s]].effect = saved.effect
    BY <1>t, <2>1 DEF _session, Agree
  <2>3. Agree' /\ Ended'
    BY <2>1, <2>2 DEF Agree, Ended, OneWorker
  <2> QED BY <1>2, <2>3 DEF Copies
<1>5. CASE Resolve(s)
  <2> DEFINE k == flags[s].step[2]
  <2>1. k \in Calls /\ tool[k].state = "running"
    BY <1>t, <1>5 DEF Bound, Serving, Step, Resolve
  <2>2. /\ saved' = saved /\ pc'[s] = "save" /\ tool'[k].state # "running"
        /\ \A d \in Calls : d # k => tool'[d] = tool[d]
    BY <1>t, <1>5, <2>1 DEF TypeOK, Resolve, Goto
  <2>3. saved.effect \in Calls => tool'[saved.effect].state # "running"
    BY <1>t, <2>1, <2>2, OnlyOne
  <2>4. Agree' /\ Ended'
    BY <1>t, <2>2, <2>3, SavedIsNoted DEF Agree, Ended
  <2> QED BY <1>2, <2>4 DEF Copies
<1>6. CASE SaveFlags(s)
  <2>1. saved'.effect = None
    BY <1>6 DEF SaveFlags, NoFlags
  <2> QED BY <1>2, <2>1 DEF Copies, Agree, Ended
<1> QED BY <1>3, <1>4, <1>5, <1>6 DEF ServeStep

LEMMA InitCopies == Init => CInv
<1> SUFFICES ASSUME Init PROVE CInv
    OBVIOUS
<1>1. Copies
    BY DEF Init, Copies, Written, Agree, Ended, NoFlags
<1> QED BY <1>1, InitCore DEF CInv

LEMMA NextCopies == OneWorker /\ CInv /\ [Next]_vars => CInv'
<1> SUFFICES ASSUME OneWorker, CInv, [Next]_vars PROVE CInv'
    OBVIOUS
<1>1. IInv /\ IInv' /\ TInv
    BY NextCore DEF CInv, IInv
<1>2. SUFFICES ASSUME overlaps' = 0 PROVE Copies'
    BY <1>1 DEF CInv
<1>3. overlaps = 0 /\ Core /\ Copies
    BY <1>1, <1>2, OverlapsGrow DEF CInv, IInv
<1>4. CASE UNCHANGED vars
    BY <1>3, <1>4 DEF Copies, Written, Agree, Ended, vars, ledger, session, attempt, settles
<1>5. CASE Next
    BY <1>1, <1>2, <1>3, <1>5, NextCases, AttemptCopies, WorkerCopies, ServeCopies
<1> QED BY <1>4, <1>5

(* A step that takes a key from the record of the session leaves its call    *)
(* out of doubt: the write of an attempt takes none, and a settlement saves  *)
(* after it has resolved.                                                    *)
LEMMA KeptStep ==
    ASSUME CInv, OneWorker, [Next]_vars, NEW c \in Calls,
           saved.effect = c, saved'.effect # c, overlaps = 0
    PROVE  tool'[c].state # "running"
<1>1. TInv /\ TypeOK /\ Hosted /\ Alone /\ Written /\ Agree /\ Ended
    BY DEF CInv, IInv, TInv, Core, Copies
<1>2. saved.effect # None
    BY CallAssumption
<1>3. Next /\ saved' # saved
    BY DEF vars, session
<1>4. CASE Remember
  <2>1. saved' = cache[host] /\ at = "saving" /\ host \in Worker /\ cache[host] # None
    BY <1>1, <1>4 DEF Remember, Written, Hosted, TypeOK
  <2>2. \A s \in Settler : pc[s] # "save"
    BY <1>1, <2>1 DEF Alone
  <2> QED BY <1>1, <1>2, <2>1, <2>2 DEF Agree
<1>5. ASSUME NEW s \in Settler, SaveFlags(s) PROVE tool'[c].state # "running"
    BY <1>1, <1>2, <1>5 DEF SaveFlags, Ended, ledger
<1>6. ASSUME NEW d \in Calls, AttemptStep(d) PROVE Remember
    BY <1>3, <1>6 DEF AttemptStep, ToolRunning, ChargeRunning, Indeterminate, Finished,
        StartTool, Contended, Charged, StartCharge, Body, Crash, FinishCharge, FinishTool,
        Finally, Cancel, session
<1>7. ASSUME NEW w \in Worker, WorkerStep(w) PROVE FALSE
    BY <1>3, <1>7 DEF WorkerStep, Recover, Die, Touch
<1>8. ASSUME NEW s \in Settler, NEW w \in Worker, ServeStep(s, w) PROVE SaveFlags(s)
    BY <1>3, <1>8 DEF ServeStep, Post, ReadFlags, Unresolved, Acquire, WriteEffect,
        Resolve, ResolveStale, session
<1> QED BY <1>1, <1>3, <1>4, <1>5, <1>6, <1>7, <1>8, NextCases

(* On one worker, while requests are made one at a time, the session forgets *)
(* the key of a charge in doubt only when the doubt is over, whichever of    *)
(* its copies is written back by the end of an attempt or by a settlement,   *)
(* and wherever either of them died.                                         *)
THEOREM NotesAreKept == ASSUME OneWorker PROVE Spec => NotedIsKept
<1> DEFINE Keeps == \A c \in Calls : saved.effect = c /\ saved'.effect # c /\ overlaps = 0
                        => tool'[c].state # "running"
<1>1. CInv /\ [Next]_vars => CInv'
    BY NextCopies
<1>2. CInv /\ [Next]_vars => Keeps
    BY KeptStep
<1>3. CInv /\ [Next]_vars => [Keeps]_vars
    BY <1>2
<1>4. Spec => [][Keeps]_vars
    <2> HIDE DEF Keeps
    <2> QED BY <1>1, <1>3, InitCopies, PTL DEF Spec
<1> QED BY <1>4 DEF NotedIsKept

-----------------------------------------------------------------------------
(* What settle keeps of the promise of ChargeOnce. *)

(* The requests of a charge are numbered as the provider accepts them; the   *)
(* attempt that has claimed a charge may make the next one.                  *)
Rights   == IF at = "paying" THEN {<<paid[turn] + 1, turn>>} ELSE {}
Payments == {p \in Nat \X Calls : 1 <= p[1] /\ p[1] <= paid[p[2]]}

Once == INSTANCE ChargeOnce WITH
    Attempt <- Nat, Key <- Calls, state <- effect, rights <- Rights, paid <- Payments

(* A request is made when the last one has been answered. *)
OneRequest == MaxOverlaps = 0

LEMMA OnceInit == Init => Once!Init
<1> SUFFICES ASSUME Init PROVE Once!Init
    OBVIOUS
<1>1. Rights = {} /\ Payments = {}
    BY DEF Init, Rights, Payments
<1> QED BY <1>1 DEF Init, Once!Init

(* An accepted request is one payment more. *)
LEMMA PayAdds ==
    ASSUME TypeOK, Pay
    PROVE  Payments' = Payments \cup {<<paid[turn] + 1, turn>>}
<1>1. turn \in Calls /\ paid \in [Calls -> Nat]
    BY DEF TypeOK
<1>2. /\ paid'[turn] = paid[turn] + 1
      /\ \A c \in Calls \ {turn} : paid'[c] = paid[c]
    BY <1>1 DEF Pay
<1>3. ASSUME NEW n \in Nat, NEW c \in Calls
      PROVE  <<n, c>> \in Payments' <=>
                 <<n, c>> \in Payments \/ <<n, c>> = <<paid[turn] + 1, turn>>
    <2>1. <<n, c>> \in Payments' <=> 1 <= n /\ n <= paid'[c]
        BY DEF Payments
    <2>2. <<n, c>> \in Payments <=> 1 <= n /\ n <= paid[c]
        BY DEF Payments
    <2>3. CASE c = turn
        BY <1>1, <1>2, <2>1, <2>2, <2>3
    <2>4. CASE c # turn
        BY <1>1, <1>2, <2>1, <2>2, <2>4
    <2> QED BY <2>3, <2>4
<1>4. Payments' \subseteq Nat \X Calls /\ Payments \subseteq Nat \X Calls
    BY DEF Payments
<1>5. <<paid[turn] + 1, turn>> \in Nat \X Calls
    BY <1>1
<1> QED BY <1>3, <1>4, <1>5

(* What leaves the records, the provider and the right to ask it alone.      *)
LEMMA OnceStutter ==
    ASSUME UNCHANGED <<effect, paid>>,
           (at' # "paying" /\ at # "paying") \/ UNCHANGED <<at, turn>>
    PROVE  UNCHANGED Once!vars
BY DEF Once!vars, Rights, Payments

(* The right is spent with the request, whether or not it is accepted.       *)
LEMMA OncePay ==
    ASSUME TypeOK, at = "paying", at' # "paying", effect' = effect,
           Pay \/ UNCHANGED paid
    PROVE  Once!Next
<1> DEFINE n == paid[turn] + 1
<1>1. turn \in Calls /\ n \in Nat
    BY DEF TypeOK
<1>2. Rights = {<<n, turn>>} /\ Rights' = {}
    BY DEF Rights
<1>3. Payments' = Payments \cup {<<n, turn>>} \/ UNCHANGED Payments
    BY PayAdds DEF Payments
<1> HIDE DEF n
<1>4. Once!Pay(n, turn)
    BY <1>2, <1>3 DEF Once!Pay
<1> QED BY <1>1, <1>4 DEF Once!Next

LEMMA AttemptOnce ==
    ASSUME TInv, Core, NEW c \in Calls, AttemptStep(c)
    PROVE  [Once!Next]_(Once!vars)
<1> USE DEF ledger, session, attempt, settles, counts
<1>t. TypeOK /\ Unpaid /\ Accepted
    BY DEF TInv, Core
<1>1. CASE StartCharge
  <2> DEFINE n == paid[turn] + 1
  <2>1. turn \in Calls /\ n \in Nat
    BY <1>t DEF TypeOK
  <2>2. Rights = {} /\ Rights' = {<<n, turn>>} /\ Payments' = Payments
    BY <1>1 DEF StartCharge, Rights, Payments
  <2> HIDE DEF n
  <2>3. Once!Claim(n, turn)
    BY <1>1, <2>2 DEF StartCharge, Once!Claim
  <2> QED BY <2>1, <2>3 DEF Once!Next
<1>2. CASE Body \/ Crash
    BY <1>t, <1>2, OncePay DEF Body, Crash, Note
<1>3. CASE FinishCharge
  <2>1. turn \in Calls /\ paid[turn] > 0 /\ effect[turn] \in State /\ paid[turn] \in Nat
    BY <1>t, <1>3 DEF TypeOK, Accepted, FinishCharge
  <2>2. effect[turn] \in {"running", "done"}
    BY <1>t, <2>1 DEF Unpaid, State
  <2>3. Rights' = Rights /\ Payments' = Payments
    BY <1>3 DEF FinishCharge, Rights, Payments
  <2>4. effect' = [effect EXCEPT ![turn] = "done"]
    BY <1>3 DEF FinishCharge
  <2>5. CASE effect[turn] = "running"
    BY <2>1, <2>3, <2>4, <2>5 DEF Once!Record, Once!Next
  <2>6. CASE effect[turn] = "done"
    BY <1>t, <2>1, <2>3, <2>4, <2>6 DEF TypeOK, Once!vars
  <2> QED BY <2>2, <2>5, <2>6
<1>4. CASE Cancel
  <2>1. CASE at = "paying"
    BY <1>t, <1>4, <2>1, OncePay DEF Cancel
  <2>2. CASE at # "paying"
    BY <1>4, <2>2, OnceStutter DEF Cancel
  <2> QED BY <2>1, <2>2
<1>5. CASE Finished \/ ToolRunning(c) \/ StartTool(c) \/ Contended \/ Charged
           \/ ChargeRunning \/ FinishTool \/ Finally \/ Remember
    BY <1>5, OnceStutter DEF Finished, ToolRunning, StartTool, Turn, Contended, Charged,
        ChargeRunning, Indeterminate, Note, FinishTool, Finally, Remember
<1> QED BY <1>1, <1>2, <1>3, <1>4, <1>5 DEF AttemptStep

LEMMA WorkerOnce ==
    ASSUME TInv, NEW w \in Worker, WorkerStep(w)
    PROVE  [Once!Next]_(Once!vars)
<1> USE DEF ledger, session, attempt, settles, counts
<1>1. CASE Recover(w) \/ Touch(w)
    BY <1>1, OnceStutter DEF Recover, Touch
<1>2. CASE Die(w) /\ at' = at
    BY <1>2, OnceStutter DEF Die
<1>3. CASE Die(w) /\ at' # at
  <2>1. at' = "idle" /\ effect' = effect /\ paid' = paid
    BY <1>3 DEF Die
  <2>2. CASE at = "paying"
    BY <2>1, <2>2, OncePay DEF TInv
  <2>3. CASE at # "paying"
    BY <2>1, <2>3, OnceStutter
  <2> QED BY <2>2, <2>3
<1> QED BY <1>1, <1>2, <1>3 DEF WorkerStep

LEMMA ServeOnce ==
    ASSUME TInv, Core, NEW s \in Settler, NEW w \in Worker, ServeStep(s, w)
    PROVE  [Once!Next]_(Once!vars)
<1> USE DEF ledger, session, attempt, settles, counts
<1>t. TypeOK /\ Bound /\ OneDoubt /\ Unpaid /\ OneKey /\ Evidence /\ Shown /\ Confirmed
    BY DEF TInv, Core
<1>1. CASE WriteEffect(s)
  <2> DEFINE e == flags[s].effect
             k == flags[s].step[2]
  <2>1. e \in Calls /\ k \in Calls /\ effect[e] \in State /\ paid[e] \in Nat
    BY <1>t, <1>1 DEF Bound, Serving, Step, WriteEffect, TypeOK
  <2>2. /\ tool[k].state = "running" /\ shown = k
        /\ charged[s] => paid[k] > 0
    BY <1>t, <1>1, <2>1 DEF Evidence, Shown, Confirmed, WriteEffect
  <2>3. e # k => effect[e] = "done"
    BY <1>t, <2>1, <2>2, OtherKey
  <2>4. charged[s] => effect[e] # "ready"
    BY <1>t, <2>1, <2>2, <2>3 DEF Unpaid
  <2>5. effect' = [effect EXCEPT ![e] = Settled(effect[e], charged[s])]
    BY <1>1 DEF WriteEffect
  <2>6. Rights' = Rights /\ Payments' = Payments
    BY <1>1 DEF WriteEffect, Rights, Payments
  <2> HIDE DEF e, k
  <2>7. CASE effect[e] # "running"
    <3>1. Settled(effect[e], charged[s]) = effect[e]
        BY <2>1, <2>4, <2>7 DEF Settled, State
    <3> QED BY <1>t, <2>1, <2>5, <2>6, <3>1 DEF TypeOK, Once!vars
  <2>8. CASE effect[e] = "running" /\ charged[s]
    BY <2>1, <2>5, <2>6, <2>8 DEF Settled, Once!Record, Once!Next
  <2>9. CASE effect[e] = "running" /\ ~charged[s]
    BY <2>1, <2>5, <2>6, <2>9 DEF Settled, Once!Reopen, Once!Next
  <2> QED BY <2>7, <2>8, <2>9
<1>2. CASE Post(s, w) \/ ReadFlags(s) \/ Unresolved(s) \/ Acquire(s) \/ Resolve(s)
           \/ ResolveStale(s) \/ SaveFlags(s)
    BY <1>2, OnceStutter DEF Post, ReadFlags, Unresolved, Acquire, Resolve,
        ResolveStale, SaveFlags
<1> QED BY <1>1, <1>2 DEF ServeStep

(* Requests that do not overlap keep the promise of ChargeOnce over crashes, *)
(* deaths, cancellations and settlements that died half way, on any number   *)
(* of workers: a charge is claimed before it is asked for, asked for once    *)
(* under each claim, and claimed again only when a person has found that     *)
(* nothing was accepted; a recorded charge is never reopened.                *)
THEOREM SettlementKeepsPromise == ASSUME OneRequest PROVE Spec => Once!Spec
<1>1. IInv => overlaps = 0
    BY DEF IInv, TInv, TypeOK, OneRequest
<1>2. IInv /\ [Next]_vars => [Once!Next]_(Once!vars)
  <2> SUFFICES ASSUME IInv, [Next]_vars PROVE [Once!Next]_(Once!vars)
    OBVIOUS
  <2>1. TInv /\ Core
    BY <1>1 DEF IInv
  <2>2. CASE UNCHANGED vars
    BY <2>2, OnceStutter DEF vars, ledger, attempt
  <2>3. CASE Next
    BY <2>1, <2>3, NextCases, AttemptOnce, WorkerOnce, ServeOnce
  <2> QED BY <2>2, <2>3
<1> QED BY <1>2, InitCore, NextCore, OnceInit, PTL DEF Spec, Once!Spec
=============================================================================
