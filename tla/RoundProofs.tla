----------------------------- MODULE RoundProofs -----------------------------
(***************************************************************************)
(* Proofs about Round, for every batch of calls, every selection of units  *)
(* and every bound on attempts and cuts: the gates of the bodies that run, *)
(* the budget, the checkpoints behind the restore points, and what the     *)
(* page is shown of a round against what the server would take.            *)
(***************************************************************************)
EXTENDS Round, FoldProofs

----------------------------------------------------------------------------
(* What the policies said lies between the gate and the body: an attempt    *)
(* may be cut, the units changed, the answer replaced. GatesHold is about   *)
(* the bodies that ran; Let is about those that may.                        *)

(* No call of an attempt is let through before its command is with the      *)
(* engine, and one that is has what the units of this attempt want.         *)
Let ==
  \A c \in Calls :
    at[c] = "let" =>
      /\ mode \notin {"loading", "opening"}
      /\ Permissions(units, made, called(c)) # "deny"
      /\ Permissions(units, made, called(c)) = "suspend" => answer[c] = "approve"

GatesInv == at \in [Calls -> Progress] /\ Let /\ GatesHold

LEMMA GatesInit == Init => GatesInv
BY DEF Init, GatesInv, Progress, Let, GatesHold, Calls

(* A new attempt starts with no call let through. *)
LEMMA BeginForgets ==
  ASSUME NEW k, NEW a, NEW u, NEW h, GatesInv, begin(k, a, u, h),
         made' = made, ran' = ran
  PROVE  GatesInv'
BY DEF GatesInv, Progress, Let, GatesHold, Calls, begin

(* A verdict that is neither a denial nor a suspension lets a call through. *)
LEMMA DecideKeeps ==
  ASSUME NEW c \in Calls, NEW verdict, GatesInv, decide(c, verdict),
         UNCHANGED <<made, amended, ran, mode, units, answer>>,
         mode = "running",
         verdict \notin {"deny", "suspend"} =>
           /\ Permissions(units, made, called(c)) # "deny"
           /\ Permissions(units, made, called(c)) = "suspend" =>
                answer[c] = "approve"
  PROVE  GatesInv'
<1>0. \A d : called(d)' = called(d)
  BY DEF called
<1>1. at' = [at EXCEPT ![c] = CASE verdict = "deny"    -> "denied"
                                [] verdict = "suspend" -> "asked"
                                [] OTHER               -> "let"]
  BY DEF decide
<1>2. at' \in [Calls -> Progress]'
  BY <1>1 DEF GatesInv, Progress, Calls
<1>3. Let'
  <2>1. ASSUME NEW d \in Calls, at'[d] = "let"
        PROVE  d # c => at[d] = "let"
    BY <1>1, <2>1 DEF GatesInv
  <2>2. at'[c] = "let" => verdict \notin {"deny", "suspend"}
    BY <1>1 DEF GatesInv
  <2> QED BY <1>0, <2>1, <2>2 DEF GatesInv, Let, Calls
<1>4. GatesHold'
  BY DEF GatesInv, GatesHold
<1> QED BY <1>2, <1>3, <1>4 DEF GatesInv

LEMMA GatesStep == GatesInv /\ [Next]_vars => GatesInv'
<1> SUFFICES ASSUME GatesInv, [Next]_vars PROVE GatesInv'
  OBVIOUS
<1> USE DEF Calls
<1>1. ASSUME NEW u \in Selections, NEW x \in BOOLEAN, Run(u, x)
      PROVE  GatesInv'
  BY <1>1, BeginForgets DEF Run
<1>2. ASSUME NEW c \in Calls, NEW says \in {"approve", "deny"},
             NEW call, NEW u \in Selections, Resume(c, says, call, u)
      PROVE  GatesInv'
  BY <1>2, BeginForgets DEF Resume
<1>3. ASSUME NEW p \in points, Recover(p)
      PROVE  GatesInv'
  BY <1>3, BeginForgets DEF Recover
<1>4. CASE Open
  BY <1>4 DEF Open, GatesInv, Progress, Let, GatesHold, history
<1>5. ASSUME NEW c \in Calls, PreToolUse(c)
      PROVE  GatesInv'
  <2>1. CASE seam = "gate"
    BY <1>5, <2>1 DEF PreToolUse, outsideHooks, observed, engine, GatesInv,
                      Progress, Let, GatesHold, called
  <2>2. CASE seam # "gate"
    BY <1>5, <2>2, DecideKeeps DEF PreToolUse, outsideHooks, Turn, Ready,
                                   Drained
  <2> QED BY <2>1, <2>2
<1>6. ASSUME NEW c \in Calls, OnResume(c)
      PROVE  GatesInv'
  <2>1. revalidate(units, made, called(c)) \notin {"deny", "suspend"} =>
          Permissions(units, made, called(c)) # "deny"
    BY DEF revalidate
  <2> QED BY <1>6, <2>1, DecideKeeps DEF OnResume, outsideHooks, Turn, Ready,
                                         Drained
<1>7. ASSUME NEW c \in Calls, Execute(c)
      PROVE  GatesInv'
  <2>1. at' \in [Calls -> Progress]' /\ Let'
    BY <1>7 DEF Execute, outsideHooks, GatesInv, Progress, Let, called
  <2>2. GatesHold'
    <3> DEFINE body == [call |-> c, as |-> called(c), units |-> units,
                        approved |-> answer[c] = "approve"]
    <3>1. ran' \subseteq ran \cup {body}
      BY <1>7 DEF Execute
    <3>2. /\ Permissions(units, made, called(c)) # "deny"
          /\ Permissions(units, made, called(c)) = "suspend" =>
               answer[c] = "approve"
      BY <1>7 DEF Execute, GatesInv, Let
    <3>3. made' = made
      BY <1>7 DEF Execute, outsideHooks
    <3>4. /\ body.as = called(c)
          /\ body.units = units
          /\ body.approved = (answer[c] = "approve")
      OBVIOUS
    <3> HIDE DEF body
    <3>5. LET verdict == Permissions(body.units, made, body.as)
          IN  verdict # "deny" /\ (verdict = "suspend" => body.approved)
      BY <3>2, <3>4, Zenon
    <3> QED BY <3>1, <3>3, <3>5 DEF GatesInv, GatesHold
  <2> QED BY <2>1, <2>2 DEF GatesInv
<1>8. ASSUME NEW c \in Calls,
             Replay(c) \/ PostToolUse(c) \/ Mark(c) \/ Bypass(c)
      PROVE  GatesInv'
  BY <1>8 DEF Replay, PostToolUse, Mark, Bypass, outsideHooks, engine,
              GatesInv, Progress, Let, GatesHold, called
<1>9. ASSUME NEW c \in Calls, ProjectMissing(c)
      PROVE  GatesInv'
  BY <1>9 DEF ProjectMissing, outsideHooks, engine, GatesInv, Progress, Let,
              GatesHold, called
<1>10. CASE Suspend \/ StayParked \/ Finish
  BY <1>10 DEF Suspend, StayParked, Finish, outsideHooks, engine, GatesInv,
               Progress, Let, GatesHold, called
<1>11. CASE Put
  BY <1>11 DEF Put, Stamp, Register, Keep, outsidePut, engine, attempt,
               history, GatesInv, Progress, Let, GatesHold, called
<1>12. CASE Outcome \/ Close \/ Cancel \/ CancelOpening \/ Die
  BY <1>12 DEF Outcome, Close, Cancel, CancelOpening, Die, engine, history,
               GatesInv, Progress, Let, GatesHold, called
<1>13. CASE UNCHANGED vars
  BY <1>13 DEF vars, engine, attempt, history, GatesInv, Progress, Let,
               GatesHold, called
<1> QED BY <1>1, <1>2, <1>3, <1>4, <1>5, <1>6, <1>7, <1>8, <1>9, <1>10,
           <1>11, <1>12, <1>13 DEF Next, Request, Hook

(* No body runs that the units of its attempt deny, and none they want      *)
(* approved runs unapproved, whatever the batch, over every park, change of *)
(* units, crash and recovery (revalidate in console/units.py).              *)
THEOREM GatesAreKept == Spec => []GatesHold
<1>1. GatesInv => GatesHold
  BY DEF GatesInv
<1> QED BY GatesInit, GatesStep, <1>1, PTL DEF Spec

----------------------------------------------------------------------------
(* The budget. The verdicts bound the rank of each body that ran and of     *)
(* each call the cap denied; what a rank says of a batch is a fact of its   *)
(* own.                                                                     *)

(* Each request of a batch is a place of it. *)
LEMMA BatchPlaces ==
  ASSUME NEW b \in Batches
  PROVE  /\ DOMAIN b \subseteq Nat /\ IsFiniteSet(DOMAIN b)
         /\ Irreversible(b) \subseteq DOMAIN b /\ IsFiniteSet(Irreversible(b))
<1>1. b \in Seq(CallType({b[i].request : i \in DOMAIN b}))
  BY BatchesAreCalls
<1>2. Len(b) \in Nat /\ DOMAIN b = 1..Len(b)
  BY <1>1
<1>3. IsFiniteSet(DOMAIN b)
  BY <1>2, FS_Interval
<1> QED BY <1>2, <1>3, FS_Subset DEF Irreversible

ahead(b, c) == {i \in Irreversible(b) : i < c}

(* In a batch without equal requests the rank of a call is its place.       *)
LEMMA RankIsThePlace ==
  ASSUME made \in Batches, Distinct, NEW c \in Irreversible(made)
  PROVE  Rank(made, made[c]) = Cardinality(ahead(made, c)) + 1
<1> DEFINE world == Irreversible(made)
           equal == {i \in world : made[i].request = made[c].request}
<1>1. equal = {c}
  BY DEF Distinct
<1>2. {i \in world : \A j \in equal : i < j} = {i \in world : i < c}
  BY <1>1
<1> QED BY <1>2, Zenon DEF Rank, ahead

(* Calls behind one another have different places. *)
LEMMA PlacesDiffer ==
  ASSUME NEW b \in Batches, NEW c \in Irreversible(b), NEW d \in Irreversible(b)
  PROVE  /\ Cardinality(ahead(b, c)) \in Nat
         /\ Cardinality(ahead(b, c)) = Cardinality(ahead(b, d)) => c = d
<1>1. Irreversible(b) \subseteq Nat /\ IsFiniteSet(Irreversible(b))
  BY BatchPlaces
<1>2. \A x : IsFiniteSet(ahead(b, x))
  BY <1>1, FS_Subset DEF ahead
<1>3. \A x : Cardinality(ahead(b, x)) \in Nat
  BY <1>2, FS_CardinalityType
<1>4. ASSUME NEW x \in Irreversible(b), NEW y \in Irreversible(b), x < y
      PROVE  Cardinality(ahead(b, x)) # Cardinality(ahead(b, y))
  <2>1. x \in Nat /\ y \in Nat
    BY <1>1
  <2>2. /\ ahead(b, x) \subseteq ahead(b, y)
        /\ x \in ahead(b, y) /\ x \notin ahead(b, x)
    BY <1>1, <1>4, <2>1 DEF ahead
  <2> QED BY <1>2, <2>2, FS_Subset
<1>5. c \in Nat /\ d \in Nat
  BY <1>1
<1> QED BY <1>3, <1>4, <1>5

(* The bodies that ran and the calls that were denied are of the batch, and *)
(* these were denied by the units of their attempt.                         *)
Ran ==
  /\ made \in Batches /\ \A r \in ran : r.call \in Calls
  /\ \A r \in denials :
       r.call \in Calls /\ Permissions(r.units, made, r.as) = "deny"

LEMMA RanInit == Init => Ran
BY DEF Init, Ran

(* A verdict that denies is noted with the units that gave it. *)
LEMMA DecideNotes ==
  ASSUME NEW c \in Calls, NEW verdict, decide(c, verdict), Ran,
         made' = made, ran' = ran,
         verdict = "deny" => Permissions(units, made, called(c)) = "deny"
  PROVE  Ran'
<1> DEFINE note == [call |-> c, as |-> called(c), units |-> units]
<1>1. CASE verdict # "deny"
  BY <1>1 DEF decide, Ran, Calls
<1>2. CASE verdict = "deny"
  <2>1. denials' = denials \cup {note}
    BY <1>2 DEF decide
  <2>2. note.call = c /\ note.as = called(c) /\ note.units = units
    OBVIOUS
  <2> HIDE DEF note
  <2>3. Permissions(note.units, made, note.as) = "deny"
    BY <1>2, <2>2, Zenon
  <2> QED BY <2>1, <2>2, <2>3 DEF Ran, Calls
<1> QED BY <1>1, <1>2

LEMMA RanStep == Ran /\ [Next]_vars => Ran'
<1> SUFFICES ASSUME Ran, [Next]_vars PROVE Ran'
  OBVIOUS
<1>1. made' = made
  BY DEF Next, Request, Hook, Put, Run, Resume, Recover, Open, PreToolUse,
         OnResume, Execute, Replay, PostToolUse, Mark, Bypass, ProjectMissing,
         Suspend, StayParked, Finish, Stamp, Register, Keep, Outcome, Close,
         Cancel, CancelOpening, Die, outsideHooks, outsidePut, vars
<1>2. ASSUME NEW c \in Calls, Execute(c)
      PROVE  Ran'
  <2>1. \A r \in ran' : r \in ran \/ r.call = c
    BY <1>2 DEF Execute
  <2>2. denials' = denials
    BY <1>2 DEF Execute
  <2> QED BY <1>1, <2>1, <2>2 DEF Ran, Calls
<1>3. ASSUME NEW c \in Calls, PreToolUse(c)
      PROVE  Ran'
  <2>1. ran' = ran
    BY <1>3 DEF PreToolUse
  <2>2. CASE seam = "gate"
    BY <1>1, <1>3, <2>1, <2>2 DEF PreToolUse, Ran, Calls
  <2>3. CASE seam # "gate"
    <3>1. decide(c, Permissions(units, made, called(c)))
      BY <1>3, <2>3 DEF PreToolUse
    <3> QED BY <1>1, <2>1, <3>1, DecideNotes
  <2> QED BY <2>2, <2>3
<1>4. ASSUME NEW c \in Calls, OnResume(c)
      PROVE  Ran'
  <2>1. ran' = ran /\ decide(c, revalidate(units, made, called(c)))
    BY <1>4 DEF OnResume
  <2>2. revalidate(units, made, called(c)) = "deny" =>
          Permissions(units, made, called(c)) = "deny"
    BY DEF revalidate
  <2> QED BY <1>1, <2>1, <2>2, DecideNotes
<1>5. ASSUME ~\E c \in Calls : Execute(c) \/ PreToolUse(c) \/ OnResume(c)
      PROVE  ran' = ran /\ denials' = denials
  BY <1>5
  DEF Next, Request, Hook, Put, Run, Resume, Recover, Open, Replay,
      PostToolUse, Mark, Bypass, ProjectMissing, Suspend, StayParked, Finish,
      Stamp, Register, Keep, Outcome, Close, Cancel, CancelOpening, Die,
      outsidePut, history, vars
<1> QED BY <1>1, <1>2, <1>3, <1>4, <1>5 DEF Ran, Calls

(* A denial of units with the rate cap is one of the cap, or of the rest.   *)
LEMMA CapDenies ==
  ASSUME NEW u, NEW b, NEW call
  PROVE  /\ "rate_cap" \in u /\ Permissions(u, b, call) # "deny" =>
              rate_cap(b, call) # "deny"
         /\ Permissions(u, b, call) = "deny" =>
              \/ rate_cap(b, call) = "deny"
              \/ Permissions(u \ {"rate_cap"}, b, call) = "deny"
<1> DEFINE verdict(v) == CASE v = "approval"  -> approval(call)
                           [] v = "dlp_block" -> dlp_block(call)
                           [] v = "rate_cap"  -> rate_cap(b, call)
<1>1. verdict("rate_cap") = rate_cap(b, call)
  OBVIOUS
<1>2. \A w : Verdicts(w, b, call) = {verdict(v) : v \in w}
  BY Zenon DEF Verdicts
<1>3. \A w : Permissions(w, b, call) = "deny" <=> "deny" \in Verdicts(w, b, call)
  <2> HIDE DEF verdict
  <2> QED BY DEF Permissions
<1> HIDE DEF verdict
<1>4. \A w : Permissions(w, b, call) = "deny" <=> \E v \in w : verdict(v) = "deny"
  BY <1>2, <1>3
<1> QED BY <1>1, <1>4

(* The rate cap counts right where it can, for every batch without equal    *)
(* requests and over every park, change of units, crash and recovery: no    *)
(* more than two irreversible bodies run as they were asked for, and one    *)
(* that the cap alone denies comes behind two others (rate_cap of           *)
(* console/units.py).                                                       *)
THEOREM BudgetIsKept == Spec => []BudgetHolds
<1>1. GatesInv /\ Ran => BudgetHolds
  <2> SUFFICES ASSUME GatesInv, Ran, Distinct
               PROVE  /\ Cardinality({r.call : r \in Unedited(capped)}) <= BUDGET
                      /\ \A r \in Unedited(denials) :
                           Permissions(r.units \ {"rate_cap"}, made, r.as) # "deny" =>
                             Cardinality(ahead(made, r.call)) >= BUDGET
    BY DEF BudgetHolds, ahead
  <2> DEFINE calls == {r.call : r \in Unedited(capped)}
             place == [c \in calls |-> Cardinality(ahead(made, c)) + 1]
  <2>1. ASSUME NEW r \in Unedited(capped)
        PROVE  /\ r.call \in Irreversible(made)
               /\ Cardinality(ahead(made, r.call)) + 1 \in 1..BUDGET
    <3>1. /\ r \in ran /\ "rate_cap" \in r.units /\ r.as = made[r.call]
          /\ r.as.effect = "irreversible" /\ r.call \in Irreversible(made)
      BY DEF Unedited, capped, Ran, Irreversible, Calls
    <3>2. Permissions(r.units, made, r.as) # "deny"
      BY <3>1 DEF GatesInv, GatesHold
    <3>3. ~(Rank(made, r.as) > BUDGET)
      BY <3>1, <3>2, CapDenies DEF rate_cap
    <3>4. /\ Rank(made, r.as) = Cardinality(ahead(made, r.call)) + 1
          /\ Cardinality(ahead(made, r.call)) \in Nat
      BY <3>1, RankIsThePlace, PlacesDiffer DEF Ran
    <3> QED BY <3>1, <3>3, <3>4 DEF BUDGET
  <2>2. \A c \in calls : c \in Irreversible(made) /\ place[c] \in 1..BUDGET
    BY <2>1
  <2>3. ASSUME NEW c \in calls, NEW d \in calls, place[c] = place[d]
        PROVE  c = d
    <3>1. /\ Cardinality(ahead(made, c)) \in Nat
          /\ Cardinality(ahead(made, d)) \in Nat
          /\ Cardinality(ahead(made, c)) = Cardinality(ahead(made, d)) => c = d
      BY <2>2, PlacesDiffer DEF Ran
    <3> HIDE DEF calls
    <3> QED BY <2>3, <3>1
  <2>4. place \in [calls -> 1..BUDGET]
    BY <2>2
  <2> HIDE DEF place
  <2>5. place \in Injection(calls, 1..BUDGET)
    BY <2>3, <2>4 DEF Injection, IsInjective
  <2>6. IsFiniteSet(1..BUDGET) /\ Cardinality(1..BUDGET) = BUDGET
    <3>1. 1 \in Int /\ BUDGET \in Int /\ ~(1 > BUDGET) /\ BUDGET - 1 + 1 = BUDGET
      BY DEF BUDGET
    <3> HIDE DEF BUDGET
    <3> QED BY <3>1, FS_Interval, Zenon
  <2>7. ASSUME NEW r \in Unedited(denials),
               Permissions(r.units \ {"rate_cap"}, made, r.as) # "deny"
        PROVE  Cardinality(ahead(made, r.call)) >= BUDGET
    <3>1. /\ r.call \in Calls /\ r.as = made[r.call]
          /\ Permissions(r.units, made, r.as) = "deny"
      BY DEF Unedited, Ran
    <3>2. rate_cap(made, r.as) = "deny"
      BY <2>7, <3>1, CapDenies
    <3>3. r.as.effect = "irreversible" /\ Rank(made, r.as) > BUDGET
      BY <3>2 DEF rate_cap
    <3>4. r.call \in Irreversible(made)
      BY <3>1, <3>3 DEF Irreversible, Calls
    <3>5. /\ Rank(made, r.as) = Cardinality(ahead(made, r.call)) + 1
          /\ Cardinality(ahead(made, r.call)) \in Nat
      BY <3>1, <3>4, RankIsThePlace, PlacesDiffer DEF Ran
    <3> QED BY <3>3, <3>5 DEF BUDGET
  <2> HIDE DEF calls
  <2>8. Cardinality(calls) <= BUDGET
    BY <2>5, <2>6, FS_Injection
  <2> QED BY <2>7, <2>8 DEF calls
<1> QED BY GatesInit, GatesStep, RanInit, RanStep, <1>1, PTL DEF Spec

----------------------------------------------------------------------------
(* A restore point is registered one step after its checkpoint is written   *)
(* and one before its frame is kept; its gates were written by this worker  *)
(* or by another. So the invariant speaks of the frames still to put, of    *)
(* the write they have reached, and of the gates the projector holds.       *)

(* A frame, or a checkpoint: a gate's history lacks the answer of its call, *)
(* a result's has it.                                                       *)
Fits(f) ==
  /\ f.boundary \in {"tool", "result"} => f.call \in Calls
  /\ f.boundary = "tool" => f.call \notin f.answers
  /\ f.boundary = "result" => f.call \in f.answers

Good == {f \in Frame : Fits(f)}

Framed == todo \in Seq(Good) /\ \A p \in points : Fits(p)

(* A body that ran has its record. *)
Done == \A c \in Calls : at[c] \in {"ran", "posted"} => c \in ledger

(* A call that has yet to have its turn has no result. *)
Fresh == \A c \in Calls : at[c] = "todo" => c \notin base \cup results

(* The checkpoint of the frame in hand is written before it is registered;  *)
(* that of a gate, before the projector holds it.                           *)
Written(id, boundary) ==
  \E p \in points : p.id = id /\ p.boundary = boundary

HeadStored ==
  (todo # <<>> /\ put # "append" /\ Head(todo).boundary # "none")
    => Written(Head(todo).id, Head(todo).boundary)

GatesStored == \A c \in Calls : \A g \in gates[c] : Written(g, "tool")

Stored == (todo = <<>> => put = "append") /\ HeadStored /\ GatesStored

(* Between attempts, and before the first hook of one, nothing is put. *)
Quiet == mode \in {"idle", "loading", "opening"} => todo = <<>>

RoundInv ==
  TypeOK /\ Framed /\ Done /\ Fresh /\ Stored /\ Quiet /\ ForkPointsExist

(* Every call of a batch is a place in a sequence. *)
LEMMA CallsAreNumbers == ASSUME TypeOK PROVE Calls \subseteq Nat /\ None \in Nat
BY BatchesAreCalls DEF TypeOK, Calls, None

(* A round keeps its batch, so its types are those of the next state. *)
LEMMA SameTypes ==
  ASSUME made' = made
  PROVE  /\ Calls' = Calls /\ Point' = Point /\ Frame' = Frame
         /\ Answers' = Answers /\ Good' = Good
         /\ amended' = amended /\ AmendedOK => AmendedOK'
BY DEF Calls, Point, Frame, Answers, Good, Fits, AmendedOK, Edited

(* The queue of frames, taken apart and put together. *)
LEMMA QueueFacts ==
  ASSUME NEW S, NEW s \in Seq(S), s # <<>>
  PROVE  /\ Head(s) \in S
         /\ Tail(s) \in Seq(S)
         /\ \A x \in S : /\ <<x>> \o Tail(s) \in Seq(S)
                        /\ <<x>> \o Tail(s) # <<>>
                        /\ Head(<<x>> \o Tail(s)) = x
OBVIOUS

LEMMA QueueMakes ==
  ASSUME NEW S, NEW x \in S, NEW y \in S, NEW z \in S
  PROVE  <<>> \in Seq(S) /\ <<x>> \in Seq(S) /\ <<x, y, z>> \in Seq(S)
OBVIOUS

LEMMA QueueWeakens ==
  ASSUME NEW S, NEW T, S \subseteq T, NEW s \in Seq(S)
  PROVE  s \in Seq(T)
OBVIOUS

(* The frames of the hooks are well made. *)
LEMMA HookFrames ==
  ASSUME TypeOK, NEW c \in Calls
  PROVE  /\ answerFrame(c) \in Good
         /\ resultPoint(c) \in Good
         /\ c \notin base \cup results => gatePoint(c) \in Good
         /\ coordinateFrame("input", None, {}) \in Good
<1>1. Nobody \in EventId
  BY DEF Nobody, EventId
<1> QED
  BY <1>1 DEF TypeOK, AttemptOK, answerFrame, resultPoint, gatePoint,
              coordinateFrame, checkpoint, Good, Frame, Fits

LEMMA RoundInit == Init => RoundInv
<1> SUFFICES ASSUME Init PROVE RoundInv
  OBVIOUS
<1>1. Nobody \in EventId
  BY DEF Nobody, EventId
<1>2. noAnswer \in Answers
  BY DEF noAnswer, Answers
<1>3. TypeOK
  <2>1. EngineOK
    BY <1>2 DEF Init, EngineOK
  <2>2. AttemptOK
    BY <1>2 DEF Init, AttemptOK, Progress
  <2>3. FramesOK
    BY DEF Init, FramesOK
  <2>4. SessionOK
    BY <1>1 DEF Init, SessionOK
  <2>5. RecordOK
    BY DEF Init, RecordOK
  <2>6. HistoryOK
    <3>1. 0 \in 0..MaxStreams /\ 0 \in 0..MaxCuts
      BY RoundBounds
    <3> QED BY <3>1 DEF Init, HistoryOK
  <2>7. AmendedOK
    <3> DEFINE R == {made[i].request : i \in DOMAIN made}
    <3>1. made \in Seq(CallType(R))
      BY BatchesAreCalls DEF Init
    <3>2. made = [c \in Calls |-> made[c]]
      BY <3>1 DEF Calls
    <3> QED BY <3>2 DEF Init, AmendedOK, Edited
  <2> QED BY <2>1, <2>2, <2>3, <2>4, <2>5, <2>6, <2>7 DEF Init, TypeOK
<1> QED
  BY <1>3 DEF Init, RoundInv, Framed, Done, Fresh, Stored, HeadStored,
              GatesStored, Quiet, ForkPointsExist

----------------------------------------------------------------------------
(* What was written stays written, and what was forkable can be restored.   *)
LEMMA WrittenStays ==
  ASSUME NEW id, NEW boundary, Written(id, boundary), points \subseteq points'
  PROVE  Written(id, boundary)'
BY DEF Written

LEMMA PointsStay ==
  ASSUME ForkPointsExist, points \subseteq points', forkable' = forkable,
         saved' \subseteq forkable \cup saved
  PROVE  ForkPointsExist'
BY DEF ForkPointsExist

(* A hook changes the engine, the attempt and the frames to put, and no     *)
(* restore point.                                                           *)
LEMMA HookKeeps ==
  ASSUME RoundInv, UNCHANGED outsideHooks, todo = <<>>,
         EngineOK', AttemptOK', Done', Fresh', todo' \in Seq(Good),
         mode' \notin {"idle", "loading", "opening"},
         seam' \in {"none", "gate", "commit"}
  PROVE  RoundInv'
<1> USE DEF RoundInv, outsideHooks
<1>1. made' = made
  OBVIOUS
<1>2. TypeOK'
  <2>1. FramesOK'
    <3>1. todo' \in Seq(Frame)
      BY QueueWeakens DEF Good
    <3> QED BY <1>1, <3>1, SameTypes DEF TypeOK, FramesOK
  <2>2. SessionOK'
    BY <1>1, SameTypes DEF TypeOK, SessionOK, projector
  <2>3. RecordOK'
    BY <1>1, SameTypes DEF TypeOK, RecordOK, record, transcript
  <2>4. HistoryOK'
    BY DEF TypeOK, HistoryOK
  <2> QED BY <1>1, <2>1, <2>2, <2>3, <2>4, SameTypes DEF TypeOK
<1>3. Framed'
  BY <1>1, SameTypes DEF Framed, Fits, transcript
<1>4. Stored'
  BY <1>1, SameTypes
  DEF Stored, HeadStored, GatesStored, Written, transcript, projector
<1>5. ForkPointsExist'
  BY PointsStay DEF transcript, record
<1> QED BY <1>2, <1>3, <1>4, <1>5 DEF Quiet

(* An attempt begins with what the session holds, in memory or, after a     *)
(* death, in its record.                                                    *)
LEMMA BeginKeeps ==
  ASSUME RoundInv, NEW k \in {"run", "resume", "recover"},
         NEW a \in Answers, NEW u \in SUBSET Units, NEW h \in SUBSET Calls,
         begin(k, a, u, h), rehydrate,
         UNCHANGED <<made, engine, todo, put, terminal, transcript, closed,
                     cuts, unread>>, AmendedOK',
         selected' \subseteq Units, saved' \subseteq forkable \cup saved,
         seam' \in {"none", "gate", "commit"}
  PROVE  RoundInv'
<1> USE DEF RoundInv
<1>0. todo = <<>>
  BY DEF begin, Quiet
<1>1. TypeOK'
  <2>1. EngineOK'
    BY SameTypes DEF TypeOK, EngineOK, engine
  <2>2. AttemptOK'
    BY SameTypes DEF TypeOK, AttemptOK, begin, Progress
  <2>3. FramesOK'
    BY SameTypes DEF TypeOK, FramesOK
  <2>4. SessionOK'
    <3>1. Nobody \in EventId
      BY DEF Nobody, EventId
    <3> QED BY <3>1, SameTypes DEF TypeOK, SessionOK, RecordOK, rehydrate, begin
  <2>5. RecordOK'
    BY SameTypes DEF TypeOK, RecordOK, SessionOK, begin, transcript
  <2>6. HistoryOK'
    BY RoundBounds DEF TypeOK, HistoryOK, begin
  <2> QED BY <2>1, <2>2, <2>3, <2>4, <2>5, <2>6 DEF TypeOK
<1>2. Framed'
  BY SameTypes DEF Framed, Fits, transcript
<1>3. Done' /\ Fresh'
  BY SameTypes DEF Done, Fresh, begin
<1>4. Stored'
  BY <1>0, SameTypes DEF Stored, HeadStored, GatesStored, Written, rehydrate,
                         transcript
<1>5. ForkPointsExist'
  BY DEF ForkPointsExist, rehydrate, transcript
<1> QED BY <1>0, <1>1, <1>2, <1>3, <1>4, <1>5 DEF Quiet

(* The end of an attempt drops the frames still to put, or has none; the    *)
(* engine keeps what it has.                                                *)
LEMMA EndKeeps ==
  ASSUME RoundInv,
         UNCHANGED <<made, amended, engine, kind, command, units, at, base,
                     observed, forkable, projector, selected, transcript, streams>>,
         mode' \in {"idle", "closing"},
         todo' = <<>>, put' = "append",
         live' \in BOOLEAN, seam' \in {"none", "gate", "commit"},
         saved' \subseteq forkable \cup saved,
         terminal' \in BOOLEAN, broken' \in BOOLEAN, unread' \in BOOLEAN,
         closed' \subseteq closed \cup {streams}, cuts' \in 0..MaxCuts
  PROVE  RoundInv'
<1> USE DEF RoundInv
<1>1. TypeOK'
  <2>1. EngineOK'
    BY SameTypes DEF TypeOK, EngineOK, engine
  <2>2. AttemptOK'
    BY SameTypes DEF TypeOK, AttemptOK, observed
  <2>3. FramesOK'
    BY DEF FramesOK
  <2>4. SessionOK'
    BY SameTypes DEF TypeOK, SessionOK, projector
  <2>5. RecordOK'
    BY SameTypes DEF TypeOK, RecordOK, SessionOK, transcript
  <2>6. HistoryOK'
    BY DEF TypeOK, HistoryOK
  <2> QED BY <2>1, <2>2, <2>3, <2>4, <2>5, <2>6, SameTypes DEF TypeOK
<1>2. Framed'
  BY SameTypes DEF Framed, Fits, transcript
<1>3. Done' /\ Fresh'
  BY SameTypes DEF Done, Fresh, engine, observed
<1>4. Stored'
  BY SameTypes DEF Stored, HeadStored, GatesStored, Written, projector,
                   transcript
<1>5. ForkPointsExist'
  BY PointsStay DEF transcript
<1> QED BY <1>1, <1>2, <1>3, <1>4, <1>5 DEF Quiet

----------------------------------------------------------------------------
(* The steps, one lemma for each kind. *)

LEMMA RequestStep == RoundInv /\ Request => RoundInv'
<1> SUFFICES ASSUME RoundInv, Request PROVE RoundInv'
  OBVIOUS
<1> USE DEF RoundInv
<1>0. noAnswer \in Answers
  BY DEF noAnswer, Answers
<1>1. ASSUME NEW u \in Selections, NEW x \in BOOLEAN, Run(u, x)
      PROVE  RoundInv'
  <2>1. crash_point(x, u) \in {"none", "gate", "commit"}
    BY DEF crash_point
  <2>2. AmendedOK'
    BY <1>1, SameTypes DEF Run, TypeOK
  <2> QED
    BY <1>0, <1>1, <2>1, <2>2, BeginKeeps, SelectionsAreUnits DEF Run
<1>2. ASSUME NEW c \in Calls, NEW says \in {"approve", "deny"},
             NEW call \in Edited(made[c]), NEW u \in Selections,
             Resume(c, says, call, u)
      PROVE  RoundInv'
  <2>1. [answer EXCEPT ![c] = says] \in Answers
    BY DEF TypeOK, EngineOK, Answers
  <2>2. saved' \subseteq forkable \cup saved
    BY <1>2 DEF Resume, _remember_session
  <2>3. seam' \in {"none", "gate", "commit"}
    BY <1>2 DEF Resume, TypeOK, SessionOK
  <2>4. AmendedOK'
    BY <1>2 DEF Resume, TypeOK, AmendedOK, Edited, Calls
  <2> QED
    BY <1>2, <2>1, <2>2, <2>3, <2>4, BeginKeeps, SelectionsAreUnits DEF Resume
<1>3. ASSUME NEW p \in points, Recover(p)
      PROVE  RoundInv'
  <2>1. p.answers \in SUBSET Calls
    BY DEF TypeOK, RecordOK, Point
  <2>2. selected \in SUBSET Units /\ seam \in {"none", "gate", "commit"}
    BY DEF TypeOK, SessionOK, RecordOK
  <2>3. AmendedOK'
    BY <1>3, SameTypes DEF Recover, TypeOK
  <2> QED BY <1>0, <1>3, <2>1, <2>2, <2>3, BeginKeeps DEF Recover
<1> QED BY <1>1, <1>2, <1>3 DEF Request

(* The gates a new projector reads are checkpoints of gates. *)
LEMMA OpenStep == RoundInv /\ Open => RoundInv'
<1> SUFFICES ASSUME RoundInv, Open PROVE RoundInv'
  OBVIOUS
<1> USE DEF RoundInv
<1>1. made' = made /\ todo = <<>>
  BY DEF Open, Quiet
<1>2. todo' \in Seq(Good)
  <2>1. coordinateFrame("input", None, {}) \in Good
    BY DEF TypeOK, AttemptOK, coordinateFrame, Good, Frame, Fits, Nobody,
           EventId
  <2> QED BY <2>1 DEF Open
<1>3. /\ loadedGates \in [Calls -> SUBSET EventId]
      /\ \A c \in Calls : \A g \in loadedGates[c] : Written(g, "tool")
  BY DEF loadedGates, toolPoints, TypeOK, RecordOK, Point, Written
<1>4. TypeOK'
  <2>1. EngineOK'
    BY <1>1, SameTypes DEF Open, TypeOK, EngineOK, AttemptOK
  <2>2. AttemptOK'
    BY <1>1, SameTypes DEF Open, TypeOK, AttemptOK, observed
  <2>3. FramesOK'
    <3>1. todo' \in Seq(Frame)
      BY <1>2, QueueWeakens DEF Good
    <3> QED BY <1>1, <3>1, SameTypes DEF Open, TypeOK, FramesOK
  <2>4. SessionOK'
    BY <1>1, <1>3, SameTypes DEF Open, TypeOK, SessionOK
  <2>5. RecordOK'
    BY <1>1, SameTypes DEF Open, TypeOK, RecordOK, record, transcript
  <2>6. HistoryOK'
    BY DEF Open, TypeOK, HistoryOK, history
  <2>7. AmendedOK'
    BY <1>1, SameTypes DEF Open, TypeOK
  <2> QED BY <1>1, <2>1, <2>2, <2>3, <2>4, <2>5, <2>6, <2>7 DEF TypeOK
<1>5. Framed'
  BY <1>1, <1>2, SameTypes DEF Open, Framed, Fits, transcript
<1>6. Done' /\ Fresh'
  BY <1>1, SameTypes DEF Open, Done, Fresh, observed
<1>7. Stored' /\ Quiet'
  BY <1>1, <1>3, SameTypes DEF Open, Stored, HeadStored, GatesStored, Written,
                               Quiet, transcript
<1>8. ForkPointsExist'
  BY PointsStay DEF Open, transcript, record
<1> QED BY <1>4, <1>5, <1>6, <1>7, <1>8

(* decide lets a call through, parks it, or answers it with a denial. *)
LEMMA DecideFits ==
  ASSUME RoundInv, NEW c \in Calls, NEW verdict, at[c] = "todo",
         decide(c, verdict),
         UNCHANGED <<outsideHooks, ledger, journaled, asked, answer, mode>>
  PROVE  EngineOK' /\ AttemptOK' /\ Done' /\ Fresh' /\ todo' \in Seq(Good)
<1> USE DEF RoundInv
<1>1. made' = made
  BY DEF outsideHooks
<1>2. /\ gatePoint(c) \in Good
      /\ answerFrame(c) \in Good /\ resultPoint(c) \in Good
  BY HookFrames DEF Fresh
<1>3. /\ at' \in [Calls -> Progress]
      /\ at'[c] \in {"denied", "asked", "let"}
      /\ \A d \in Calls \ {c} : at'[d] = at[d]
  BY DEF decide, TypeOK, AttemptOK, Progress
<1>4. EngineOK'
  BY <1>1, SameTypes DEF decide, TypeOK, EngineOK
<1>5. AttemptOK'
  BY <1>1, <1>3, SameTypes DEF decide, TypeOK, AttemptOK, outsideHooks
<1>6. Done'
  BY <1>1, <1>3, SameTypes DEF Done
<1>7. Fresh'
  <2>1. results' \subseteq results \cup {c} /\ base' = base
    BY DEF decide, outsideHooks
  <2> QED BY <1>1, <1>3, <2>1, SameTypes DEF Fresh
<1>8. todo' \in Seq(Good)
  <2>1. \/ todo' = <<gatePoint(c)>>
        \/ todo' = <<gatePoint(c), answerFrame(c), resultPoint(c)>>
    BY Zenon DEF decide
  <2> QED BY <1>2, <2>1, QueueMakes, Zenon
<1> QED BY <1>4, <1>5, <1>6, <1>7, <1>8

LEMMA GateStep ==
  ASSUME RoundInv, NEW c \in Calls, PreToolUse(c) \/ OnResume(c)
  PROVE  RoundInv'
<1> USE DEF RoundInv, Turn, Ready, Drained
<1>1. made' = made /\ todo = <<>> /\ UNCHANGED outsideHooks /\ mode = "running"
  BY DEF PreToolUse, OnResume, outsideHooks
<1>2. CASE PreToolUse(c) /\ seam = "gate"
  <2>1. todo' \in Seq(Good)
    <3>1. gatePoint(c) \in Good
      BY <1>2, HookFrames DEF PreToolUse, Fresh
    <3>2. todo' = <<gatePoint(c)>>
      BY <1>2, Zenon DEF PreToolUse
    <3> QED BY <3>1, <3>2, QueueMakes, Zenon
  <2>2. EngineOK' /\ AttemptOK'
    BY <1>1, <1>2, SameTypes
    DEF PreToolUse, TypeOK, EngineOK, AttemptOK, engine, observed, outsideHooks
  <2>3. Done' /\ Fresh'
    BY <1>1, <1>2, SameTypes
    DEF PreToolUse, Done, Fresh, engine, observed, outsideHooks
  <2> QED BY <1>1, <1>2, <2>1, <2>2, <2>3, HookKeeps DEF PreToolUse
<1>3. CASE PreToolUse(c) /\ seam # "gate"
  <2>1. seam' \in {"none", "gate", "commit"} /\ mode' = "running"
    BY <1>1, <1>3 DEF PreToolUse, TypeOK, SessionOK
  <2> QED BY <1>1, <1>3, <2>1, DecideFits, HookKeeps DEF PreToolUse
<1>4. CASE OnResume(c)
  <2>1. seam' \in {"none", "gate", "commit"} /\ mode' = "running"
    BY <1>1, <1>4 DEF OnResume, TypeOK, SessionOK
  <2> QED BY <1>1, <1>4, <2>1, DecideFits, HookKeeps DEF OnResume
<1> QED BY <1>2, <1>3, <1>4

(* The body and its answer. *)
LEMMA BodyStep ==
  ASSUME RoundInv, NEW c \in Calls,
         Execute(c) \/ Replay(c) \/ PostToolUse(c) \/ Mark(c) \/ Bypass(c)
  PROVE  RoundInv'
<1> USE DEF RoundInv, Turn, Ready, Drained
<1>1. made' = made /\ todo = <<>> /\ UNCHANGED outsideHooks /\ mode = "running"
  BY DEF Execute, Replay, PostToolUse, Mark, Bypass, outsideHooks
<1>2. CASE Execute(c)
  <2>1. EngineOK' /\ AttemptOK'
    BY <1>1, <1>2, SameTypes
    DEF Execute, TypeOK, EngineOK, AttemptOK, Progress, observed, outsideHooks
  <2>2. Done' /\ Fresh'
    <3>1. /\ at' = [at EXCEPT ![c] = "ran"] /\ c \in ledger'
          /\ ledger \subseteq ledger' /\ UNCHANGED <<base, results>>
      BY <1>2 DEF Execute, observed, outsideHooks
    <3>2. \A d \in Calls : d # c => at'[d] = at[d]
      BY <3>1 DEF TypeOK, AttemptOK
    <3>3. at'[c] = "ran"
      BY <3>1 DEF TypeOK, AttemptOK
    <3> QED BY <1>1, <3>1, <3>2, <3>3, SameTypes DEF Done, Fresh
  <2>3. /\ todo' \in Seq(Good)
        /\ seam' \in {"none", "gate", "commit"}
        /\ mode' \in {"running", "crashing"}
    BY <1>1, <1>2 DEF Execute, Framed, TypeOK, SessionOK
  <2> QED BY <1>1, <2>1, <2>2, <2>3, HookKeeps
<1>3. CASE Replay(c) \/ Mark(c) \/ Bypass(c)
  <2>1. EngineOK' /\ AttemptOK'
    BY <1>1, <1>3, SameTypes
    DEF Replay, Mark, Bypass, TypeOK, EngineOK, AttemptOK, Progress, observed,
        engine, outsideHooks, Done
  <2>2. Done' /\ Fresh'
    BY <1>1, <1>3, SameTypes
    DEF Replay, Mark, Bypass, Done, Fresh, observed, engine, outsideHooks,
        TypeOK, AttemptOK
  <2>3. /\ todo' \in Seq(Good)
        /\ seam' \in {"none", "gate", "commit"} /\ mode' = mode
    BY <1>1, <1>3 DEF Replay, Mark, Bypass, observed, Framed, TypeOK, SessionOK
  <2> QED BY <1>1, <2>1, <2>2, <2>3, HookKeeps
<1>4. CASE PostToolUse(c)
  <2>1. EngineOK' /\ AttemptOK'
    BY <1>1, <1>4, SameTypes
    DEF PostToolUse, TypeOK, EngineOK, AttemptOK, Progress, engine, outsideHooks
  <2>2. Done' /\ Fresh'
    BY <1>1, <1>4, SameTypes
    DEF PostToolUse, Done, Fresh, engine, outsideHooks, TypeOK, AttemptOK
  <2>3. todo' \in Seq(Good)
    BY <1>4, HookFrames DEF PostToolUse
  <2>4. seam' \in {"none", "gate", "commit"} /\ mode' = mode
    BY <1>4 DEF PostToolUse, TypeOK, SessionOK
  <2> QED BY <1>1, <2>1, <2>2, <2>3, <2>4, HookKeeps
<1> QED BY <1>2, <1>3, <1>4

(* The batch as a whole, and the answers that no hook has shown. *)
LEMMA BatchStep ==
  ASSUME RoundInv,
         Suspend \/ StayParked \/ Finish \/ \E c \in Calls : ProjectMissing(c)
  PROVE  RoundInv'
<1> USE DEF RoundInv, Ready, Drained
<1>1. CASE Suspend \/ StayParked \/ Finish
  <2>1. /\ made' = made /\ todo = <<>> /\ todo' = <<>> /\ UNCHANGED outsideHooks
        /\ mode' \in {"closing", "finishing"} /\ seam' = seam
    BY <1>1 DEF Suspend, StayParked, Finish, outsideHooks
  <2>2. EngineOK' /\ AttemptOK'
    BY <1>1, <2>1, SameTypes
    DEF Suspend, StayParked, Finish, TypeOK, EngineOK, AttemptOK, engine,
        observed, outsideHooks
  <2>3. Done' /\ Fresh'
    BY <1>1, <2>1, SameTypes
    DEF Suspend, StayParked, Finish, Done, Fresh, engine, observed, outsideHooks
  <2>4. todo' \in Seq(Good) /\ seam' \in {"none", "gate", "commit"}
    BY <2>1 DEF TypeOK, SessionOK
  <2> QED BY <2>1, <2>2, <2>3, <2>4, HookKeeps
<1>2. ASSUME NEW c \in Calls, ProjectMissing(c)
      PROVE  RoundInv'
  <2>1. /\ made' = made /\ todo = <<>> /\ UNCHANGED outsideHooks
        /\ mode' = "finishing" /\ seam' = seam
    BY <1>2 DEF ProjectMissing, outsideHooks
  <2>2. EngineOK' /\ AttemptOK'
    BY <1>2, <2>1, SameTypes
    DEF ProjectMissing, TypeOK, EngineOK, AttemptOK, engine, outsideHooks
  <2>3. Done' /\ Fresh'
    BY <1>2, <2>1, SameTypes
    DEF ProjectMissing, Done, Fresh, engine, outsideHooks
  <2>4. todo' \in Seq(Good) /\ seam' \in {"none", "gate", "commit"}
    BY <1>2, <2>1, HookFrames DEF ProjectMissing, TypeOK, SessionOK
  <2> QED BY <2>1, <2>2, <2>3, <2>4, HookKeeps
<1> QED BY <1>1, <1>2

(* The edge of each boundary. *)
LEMMA Edges ==
  /\ edgeOf("input") = "before" /\ edgeOf("tool") = "before"
  /\ edgeOf("result") = "after" /\ edgeOf("none") = "none"
BY Zenon DEF edgeOf

(* The checkpoint is appended. *)
LEMMA StampStep == RoundInv /\ Stamp => RoundInv'
<1> SUFFICES ASSUME RoundInv, Stamp PROVE RoundInv'
  OBVIOUS
<1> USE DEF RoundInv
<1> DEFINE frame == Head(todo)
           event_id == <<scope, sequence>>
           numbered == [frame EXCEPT !.id = event_id]
           point == [id |-> event_id, boundary |-> frame.boundary,
                     call |-> frame.call, answers |-> frame.answers]
<1>1. /\ made' = made /\ amended' = amended /\ todo # <<>> /\ put' = "register"
      /\ UNCHANGED <<engine, attempt, observed, live, scope, seam, record,
                     history, forkable, gates, rebuild, loaded, kept>>
      /\ sequence' = sequence + 1
      /\ todo' = <<numbered>> \o Tail(todo)
      /\ points' = IF frame.boundary = "none" THEN points
                   ELSE points \cup {point}
  BY DEF Stamp, Stamping, outsidePut
<1>2. event_id \in EventId
  BY DEF TypeOK, SessionOK, EventId
<1>3. frame \in Good
  BY <1>1, QueueFacts DEF Framed
<1>4. numbered \in Good /\ numbered.boundary = frame.boundary
      /\ numbered.id = event_id
  BY <1>2, <1>3 DEF Good, Frame, Fits
<1>5. todo' \in Seq(Good) /\ todo' # <<>> /\ Head(todo') = numbered
  BY <1>1, <1>4, QueueFacts DEF Framed
<1>6. frame.boundary # "none" => point \in Point /\ Fits(point)
  BY <1>2, <1>3 DEF Good, Frame, Fits, Point
<1>7. points \subseteq points' /\ points' \subseteq Point
      /\ \A p \in points' : Fits(p)
  BY <1>1, <1>6 DEF Framed, TypeOK, RecordOK
<1> HIDE DEF numbered, point
<1>8. TypeOK'
  <2>1. EngineOK' /\ AttemptOK'
    BY <1>1, SameTypes
    DEF TypeOK, EngineOK, AttemptOK, engine, attempt, observed
  <2>2. FramesOK'
    <3>1. todo' \in Seq(Frame)
      BY <1>5, QueueWeakens DEF Good
    <3> QED BY <1>1, <3>1, SameTypes DEF FramesOK
  <2>3. SessionOK'
    BY <1>1, SameTypes DEF TypeOK, SessionOK
  <2>4. RecordOK'
    BY <1>1, <1>7, SameTypes DEF TypeOK, RecordOK, record
  <2>5. HistoryOK'
    BY <1>1 DEF TypeOK, HistoryOK, history
  <2>6. AmendedOK'
    BY <1>1, SameTypes DEF TypeOK
  <2> QED BY <1>1, <2>1, <2>2, <2>3, <2>4, <2>5, <2>6 DEF TypeOK
<1>9. Framed'
  BY <1>1, <1>5, <1>7, SameTypes DEF Framed, Fits
<1>10. Done' /\ Fresh'
  BY <1>1, SameTypes DEF Done, Fresh, engine, attempt, observed
<1>11. Stored'
  <2>1. HeadStored'
    <3>1. ASSUME frame.boundary # "none"
          PROVE  point \in points' /\ point.id = event_id
                 /\ point.boundary = frame.boundary
      BY <1>1, <3>1 DEF point
    <3> QED BY <1>4, <1>5, <3>1 DEF HeadStored, Written
  <2>2. GatesStored'
    BY <1>1, <1>7, SameTypes DEF Stored, GatesStored, Written
  <2> QED BY <1>5, <2>1, <2>2 DEF Stored
<1>12. Quiet'
  BY <1>1 DEF Quiet, attempt
<1>13. ForkPointsExist'
  BY <1>1, <1>7, PointsStay DEF record
<1> QED BY <1>8, <1>9, <1>10, <1>11, <1>12, <1>13

(* The frame, and the gates it finalizes, become forkable. *)
LEMMA RegisterStep == RoundInv /\ Register => RoundInv'
<1> SUFFICES ASSUME RoundInv, Register PROVE RoundInv'
  OBVIOUS
<1> USE DEF RoundInv
<1> DEFINE frame == Head(todo)
           c == frame.call
<1>1. /\ made' = made /\ amended' = amended
      /\ todo # <<>> /\ put = "register" /\ put' = "keep"
      /\ UNCHANGED <<engine, attempt, observed, live, scope, seam, record,
                     history, loaded, sequence, transcript>>
      /\ todo' = <<stamped(frame)>> \o Tail(todo)
      /\ forkable' = _register_frame(stamped(frame))
      /\ rebuild' = IF c = None THEN rebuild
                    ELSE [rebuild EXCEPT ![c] = rebuiltFrom(frame)]
  BY DEF Register, Stamping, outsidePut
<1>2. gates' = CASE frame.boundary = "tool" ->
                      [gates EXCEPT ![c] = @ \cup {frame.id}]
                 [] frame.boundary = "result" -> [gates EXCEPT ![c] = {}]
                 [] OTHER -> gates
  BY DEF Register
<1>3. frame \in Good
  BY <1>1, QueueFacts DEF Framed
<1>4. /\ frame.boundary \in {"input", "tool", "result", "none"}
      /\ frame.boundary \in {"tool", "result"} => c \in Calls
      /\ c \in Calls \cup {None} /\ frame.id \in EventId
  BY <1>3 DEF Good, Frame, Fits
<1>5. /\ finalized(frame) \subseteq EventId
      /\ \A g \in finalized(frame) : Written(g, "tool")
  BY <1>4 DEF finalized, TypeOK, SessionOK, Stored, GatesStored
<1>6. c # None => rebuiltFrom(frame) \in EventId
  <2>1. latest(finalized(frame)) \in EventId
    BY <1>5 DEF latest, Nobody, EventId
  <2> QED BY <1>4, <2>1 DEF rebuiltFrom, TypeOK, SessionOK
<1>7. /\ stamped(frame) \in Good
      /\ stamped(frame).boundary = frame.boundary
      /\ stamped(frame).id = frame.id
      /\ stamped(frame).edge = edgeOf(frame.boundary)
      /\ stamped(frame).forkable = (frame.boundary \in {"input", "result"})
      /\ stamped(frame).updates = finalized(frame)
  <2>1. (IF frame.boundary = "result" THEN rebuiltFrom(frame) ELSE Nobody)
          \in EventId
    <3>1. frame.boundary = "result" => c # None
      BY <1>4, CallsAreNumbers, BatchesAreCalls DEF TypeOK, Calls, None
    <3> QED BY <1>6, <3>1 DEF Nobody, EventId
  <2>2. edgeOf(frame.boundary) \in {"before", "after", "none"}
    BY <1>4, Edges
  <2>3. (frame.boundary \in {"input", "result"}) \in BOOLEAN
    OBVIOUS
  <2> HIDE DEF frame
  <2> DEFINE e == edgeOf(frame.boundary)
             b == frame.boundary \in {"input", "result"}
             u == finalized(frame)
             r == IF frame.boundary = "result" THEN rebuiltFrom(frame)
                  ELSE Nobody
  <2>4. /\ e \in {"before", "after", "none"} /\ b \in BOOLEAN
        /\ u \in SUBSET EventId /\ r \in EventId
    BY <1>5, <2>1, <2>2, <2>3
  <2>5. stamped(frame) = [frame EXCEPT !.edge = e, !.forkable = b,
                                       !.updates = u, !.rebuild = r]
    BY Zenon DEF stamped
  <2> HIDE DEF e, b, u, r
  <2>6. /\ stamped(frame) \in Good
        /\ stamped(frame).boundary = frame.boundary
        /\ stamped(frame).id = frame.id
        /\ stamped(frame).edge = e
        /\ stamped(frame).forkable = b
        /\ stamped(frame).updates = u
    <3> DEFINE s == [frame EXCEPT !.edge = e, !.forkable = b,
                                  !.updates = u, !.rebuild = r]
    <3>1. /\ s \in Good
          /\ s.boundary = frame.boundary /\ s.id = frame.id
          /\ s.edge = e /\ s.forkable = b /\ s.updates = u
      BY <1>3, <2>4 DEF Good, Frame, Fits
    <3> QED BY <2>5, <3>1, Zenon
  <2> QED BY <2>6, Zenon DEF e, b, u
<1>8. todo' \in Seq(Good) /\ todo' # <<>> /\ Head(todo') = stamped(frame)
  BY <1>1, <1>7, QueueFacts DEF Framed
<1>9. /\ gates' \in [Calls -> SUBSET EventId]
      /\ \A d \in Calls :
           \/ gates'[d] \subseteq gates[d]
           \/ /\ frame.boundary = "tool"
              /\ gates'[d] \subseteq gates[d] \cup {frame.id}
  <2>1. CASE frame.boundary = "tool"
    <3>1. gates' = [gates EXCEPT ![c] = @ \cup {frame.id}]
      BY <1>2, <2>1, Zenon
    <3> QED BY <1>4, <2>1, <3>1 DEF TypeOK, SessionOK
  <2>2. CASE frame.boundary = "result"
    <3>1. gates' = [gates EXCEPT ![c] = {}]
      BY <1>2, <2>2, Zenon
    <3> QED BY <1>4, <3>1 DEF TypeOK, SessionOK
  <2>3. CASE frame.boundary \notin {"tool", "result"}
    <3>1. gates' = gates
      BY <1>2, <2>3, Zenon
    <3> QED BY <3>1 DEF TypeOK, SessionOK
  <2> QED BY <2>1, <2>2, <2>3
<1>10. frame.boundary # "none" => Written(frame.id, frame.boundary)
  BY <1>1 DEF Stored, HeadStored
<1>11. \A f \in forkable' :
          \/ f \in forkable
          \/ /\ frame.boundary \in {"input", "result"}
             /\ f = [id |-> frame.id, edge |-> edgeOf(frame.boundary)]
          \/ \E g \in finalized(frame) : f = [id |-> g, edge |-> "before"]
  BY <1>1, <1>7 DEF _register_frame
<1>12. forkable' \subseteq ForkPoint
  BY <1>4, <1>5, <1>11, Edges DEF TypeOK, SessionOK, ForkPoint
<1>13. TypeOK'
  <2>1. EngineOK' /\ AttemptOK'
    BY <1>1, SameTypes
    DEF TypeOK, EngineOK, AttemptOK, engine, attempt, observed
  <2>2. FramesOK'
    <3>1. todo' \in Seq(Frame)
      BY <1>8, QueueWeakens DEF Good
    <3> QED BY <1>1, <3>1, SameTypes DEF FramesOK
  <2>3. SessionOK'
    <3>1. rebuild' \in [Calls -> EventId]
      BY <1>1, <1>4, <1>6 DEF TypeOK, SessionOK
    <3> QED BY <1>1, <1>9, <1>12, <3>1, SameTypes DEF TypeOK, SessionOK
  <2>4. RecordOK'
    BY <1>1, SameTypes DEF TypeOK, RecordOK, record, transcript
  <2>5. HistoryOK'
    BY <1>1 DEF TypeOK, HistoryOK, history
  <2>6. AmendedOK'
    BY <1>1, SameTypes DEF TypeOK
  <2> QED BY <1>1, <2>1, <2>2, <2>3, <2>4, <2>5, <2>6 DEF TypeOK
<1>14. Framed'
  BY <1>1, <1>8, SameTypes DEF Framed, Fits, transcript
<1>15. Done' /\ Fresh'
  BY <1>1, SameTypes DEF Done, Fresh, engine, attempt, observed
<1>16. Stored'
  <2>1. HeadStored'
    BY <1>1, <1>7, <1>8, <1>10 DEF HeadStored, Written, transcript
  <2>2. GatesStored'
    BY <1>1, <1>9, <1>10, SameTypes DEF Stored, GatesStored, Written, transcript
  <2> QED BY <1>8, <2>1, <2>2 DEF Stored
<1>17. Quiet'
  BY <1>1 DEF Quiet, attempt
<1>18. ForkPointsExist'
  <2>1. \A f \in forkable' \cup saved' : f \in forkable \cup saved
          \/ \E p \in points : p.id = f.id /\ f.edge = edgeOf(p.boundary)
    BY <1>1, <1>5, <1>10, <1>11, Edges DEF Written, record
  <2>2. \A p \in points : Fits(p)
    BY DEF Framed
  <2> QED BY <1>1, <2>1, <2>2 DEF ForkPointsExist, Fits, transcript
<1> QED BY <1>13, <1>14, <1>15, <1>16, <1>17, <1>18

(* The frame is kept. *)
LEMMA KeepStep == RoundInv /\ Keep => RoundInv'
<1> SUFFICES ASSUME RoundInv, Keep PROVE RoundInv'
  OBVIOUS
<1> USE DEF RoundInv
<1>1. /\ made' = made /\ amended' = amended /\ todo # <<>> /\ put' = "append"
      /\ UNCHANGED <<engine, attempt, observed, live, scope, seam, record,
                     history, forkable, projector, points>>
      /\ todo' = Tail(todo)
      /\ kept' = kept \cup {[stream |-> streams, frame |-> Head(todo)]}
  BY DEF Keep, Stamping, outsidePut
<1>2. todo' \in Seq(Good) /\ Head(todo) \in Good
  BY <1>1, QueueFacts DEF Framed
<1>3. TypeOK'
  <2>1. EngineOK' /\ AttemptOK'
    BY <1>1, SameTypes
    DEF TypeOK, EngineOK, AttemptOK, engine, attempt, observed
  <2>2. FramesOK'
    <3>1. todo' \in Seq(Frame)
      BY <1>2, QueueWeakens DEF Good
    <3> QED BY <1>1, <3>1, SameTypes DEF FramesOK
  <2>3. SessionOK'
    BY <1>1, SameTypes DEF TypeOK, SessionOK, projector
  <2>4. RecordOK'
    BY <1>1, <1>2, SameTypes DEF TypeOK, RecordOK, HistoryOK, record, Good
  <2>5. HistoryOK'
    BY <1>1 DEF TypeOK, HistoryOK, history
  <2>6. AmendedOK'
    BY <1>1, SameTypes DEF TypeOK
  <2> QED BY <1>1, <2>1, <2>2, <2>3, <2>4, <2>5, <2>6 DEF TypeOK
<1>4. Framed' /\ Done' /\ Fresh'
  BY <1>1, <1>2, SameTypes
  DEF Framed, Fits, Done, Fresh, engine, attempt, observed
<1>5. Stored' /\ Quiet'
  BY <1>1, SameTypes
  DEF Stored, HeadStored, GatesStored, Written, Quiet, projector, attempt
<1>6. ForkPointsExist'
  BY <1>1, PointsStay DEF record
<1> QED BY <1>3, <1>4, <1>5, <1>6

LEMMA EndStep ==
  RoundInv /\ (Outcome \/ Close \/ Cancel \/ CancelOpening \/ Die) => RoundInv'
<1> SUFFICES ASSUME RoundInv, Outcome \/ Close \/ Cancel \/ CancelOpening \/ Die
             PROVE  RoundInv'
  OBVIOUS
<1> USE DEF RoundInv
<1>1. /\ live \in BOOLEAN /\ seam \in {"none", "gate", "commit"}
      /\ terminal \in BOOLEAN /\ broken \in BOOLEAN /\ unread \in BOOLEAN
      /\ cuts \in 0..MaxCuts
      /\ todo = <<>> => put = "append"
  BY DEF TypeOK, SessionOK, RecordOK, HistoryOK, Stored
<1>2. cuts < MaxCuts => cuts + 1 \in 0..MaxCuts
  BY <1>1, RoundBounds
<1>3. CASE Outcome
  BY <1>1, <1>3, EndKeeps DEF Outcome, history
<1>4. CASE Close
  BY <1>1, <1>4, EndKeeps DEF Close, _remember_session
<1>5. CASE Cancel
  BY <1>1, <1>2, <1>5, EndKeeps DEF Cancel
<1>6. CASE CancelOpening
  BY <1>1, <1>2, <1>6, EndKeeps DEF CancelOpening, Quiet
<1>7. CASE Die
  BY <1>1, <1>2, <1>7, EndKeeps DEF Die
<1> QED BY <1>3, <1>4, <1>5, <1>6, <1>7

LEMMA StutterStep == RoundInv /\ UNCHANGED vars => RoundInv'
<1> SUFFICES ASSUME RoundInv, UNCHANGED vars PROVE RoundInv'
  OBVIOUS
<1> USE DEF RoundInv, vars
<1>1. TypeOK'
  BY SameTypes
  DEF TypeOK, EngineOK, AttemptOK, FramesOK, SessionOK, RecordOK, HistoryOK,
      engine, attempt, observed, projector, record, transcript, history
<1>2. Framed' /\ Done' /\ Fresh'
  BY SameTypes
  DEF Framed, Fits, Done, Fresh, engine, attempt, observed, transcript
<1>3. Stored' /\ Quiet' /\ ForkPointsExist'
  BY SameTypes
  DEF Stored, HeadStored, GatesStored, Written, Quiet, ForkPointsExist,
      projector, attempt, record, transcript
<1> QED BY <1>1, <1>2, <1>3

LEMMA RoundStep == RoundInv /\ [Next]_vars => RoundInv'
BY RequestStep, OpenStep, GateStep, BodyStep, BatchStep, StampStep,
   RegisterStep, KeepStep, EndStep, StutterStep
DEF Next, Hook, Put

(* The variables keep their shapes: the state of ObservedControls, of the   *)
(* projector, of the session and of its record (runtime.py, fork_demo.py,   *)
(* server.py of console).                                                   *)
THEOREM TypeCorrect == Spec => []TypeOK
<1>1. RoundInv => TypeOK
  BY DEF RoundInv
<1> QED BY RoundInit, RoundStep, <1>1, PTL DEF Spec

(* Every restore point that a session holds, in memory or in its record,    *)
(* has its checkpoint in the transcript, at its edge and with the history   *)
(* of its own call, for every batch and over every cut between the writes   *)
(* of a frame (put, stamp and _register_frame; fork and                     *)
(* read_event_checkpoint).                                                  *)
THEOREM RestoresAreTrue == Spec => []ForkPointsExist
<1>1. RoundInv => ForkPointsExist
  BY DEF RoundInv
<1> QED BY RoundInit, RoundStep, <1>1, PTL DEF Spec

----------------------------------------------------------------------------
(* What the page is shown of a round, against what the server would take:  *)
(* the restore points of a closed stream, the gates that a result settles,  *)
(* and the answer of every call.                                            *)

ids(F) == {f.id : f \in F}

(* Of two events, the one that is not the later. *)
earlier(i, j) == ~later(i, j)

isGate(k, c) == k.frame.boundary = "tool" /\ k.frame.call = c

(* The frame in hand, and the writes of its put that are done. *)
InHand(writes) == todo # <<>> /\ put \in writes

----------------------------------------------------------------------------
(* An attempt runs on a worker that has the session, under a number that    *)
(* no frame and no stream had before; the record lags behind the session.   *)
Numbered ==
  /\ mode # "idle" => live /\ streams \notin closed
  /\ \A s \in closed : s <= streams
  /\ \A k \in kept : k.stream <= streams
  /\ live => saved \subseteq forkable

(* What a call was last rebuilt from is a gate that is still held, or one   *)
(* that is registered; a projector that has read nothing rebuilds nothing.  *)
Rebuilt ==
  /\ \A c \in Calls :
       rebuild[c] # Nobody => rebuild[c] \in gates[c] \cup ids(forkable)
  /\ mode # "idle" => loaded
  /\ mode = "loading" \/ ~loaded => \A c \in Calls : rebuild[c] = Nobody

(* A frame is registered before it is kept, and recorded before its stream  *)
(* is closed.                                                               *)
Offers ==
  /\ InHand({"keep"}) => offered(Head(todo)) \subseteq ids(forkable)
  /\ \A k \in kept :
       /\ mode # "idle" /\ k.stream = streams =>
            offered(k.frame) \subseteq ids(forkable)
       /\ k.stream \in closed => offered(k.frame) \subseteq ids(saved)

(* The projector numbers its events upwards. *)
Clocked ==
  /\ \A k \in kept : earlier(k.frame.id, <<scope, sequence>>)
  /\ InHand({"register", "keep"}) =>
       /\ earlier(Head(todo).id, <<scope, sequence>>)
       /\ \A k \in kept : earlier(k.frame.id, Head(todo).id)

(* A gate that is shown has its checkpoint: a new projector will find it.   *)
GateWritten(frame) ==
  frame.boundary = "tool" =>
    /\ frame.call \in Calls
    /\ \E p \in points :
         p.id = frame.id /\ p.boundary = "tool" /\ p.call = frame.call

Pointed ==
  /\ \A k \in kept : GateWritten(k.frame)
  /\ InHand({"register", "keep"}) => GateWritten(Head(todo))

(* A gate that was shown is held by the projector until a result of its     *)
(* call registers it.                                                       *)
Held ==
  (live /\ mode # "loading" /\ ~unread) =>
    /\ \A g \in kept :
         g.frame.boundary = "tool" =>
           g.frame.id \in gates[g.frame.call] \cup ids(forkable)
    /\ InHand({"keep"}) /\ Head(todo).boundary = "tool" =>
         Head(todo).id \in gates[Head(todo).call]
    /\ InHand({"keep"}) /\ Head(todo).boundary = "result" =>
         \A g \in kept :
           isGate(g, Head(todo).call) => g.frame.id \in ids(forkable)

(* A result settles the gates shown before it: at once in the session, and  *)
(* in the record when its stream is closed.                                 *)
Settled ==
  ~unread => \A k, g \in kept :
    (/\ k.frame.boundary = "result"
     /\ isGate(g, k.frame.call)
     /\ later(k.frame.id, g.frame.id)) =>
       /\ mode # "idle" /\ k.stream = streams => g.frame.id \in ids(forkable)
       /\ k.stream \in closed => g.frame.id \in ids(saved)

RestoreInv ==
  Numbered /\ Rebuilt /\ Offers /\ Clocked /\ Pointed /\ Held /\ Settled

LEMMA RestoreInit == Init => RestoreInv
<1> SUFFICES ASSUME Init PROVE RestoreInv
  OBVIOUS
<1>1. /\ kept = {} /\ todo = <<>> /\ mode = "idle" /\ closed = {} /\ saved = {}
      /\ forkable = {} /\ rebuild = [c \in Calls |-> Nobody]
  BY DEF Init
<1> QED
  BY <1>1 DEF RestoreInv, Numbered, Rebuilt, Offers, Clocked, Pointed, Held,
              Settled, InHand

----------------------------------------------------------------------------
(* Every frame of the queue, and every event, has its type. *)
LEMMA HeadTyped ==
  ASSUME RoundInv, todo # <<>>
  PROVE  /\ Head(todo) \in Frame /\ Fits(Head(todo)) /\ Tail(todo) \in Seq(Good)
         /\ mode \notin {"idle", "loading", "opening"}
BY QueueFacts DEF RoundInv, Framed, Good, Quiet

LEMMA KeptTyped ==
  ASSUME RoundInv, NEW k \in kept
  PROVE  /\ k.stream \in Nat /\ k.frame \in Frame /\ k.frame.id \in EventId
         /\ streams \in Nat
<1>1. kept \subseteq [stream : 0..MaxStreams, frame : Frame]
  BY DEF RoundInv, TypeOK, RecordOK
<1>2. streams \in 0..MaxStreams
  BY DEF RoundInv, TypeOK, HistoryOK
<1> QED BY <1>1, <1>2, RoundBounds DEF Frame

(* A frame that was only numbered keeps the rest; a new one of the queue is *)
(* the one in hand.                                                         *)
LEMMA NumberedFrame ==
  ASSUME NEW f \in Frame, NEW i \in EventId
  PROVE  LET n == [f EXCEPT !.id = i]
         IN  /\ n \in Frame /\ n.id = i /\ n.boundary = f.boundary
             /\ n.call = f.call /\ n.answers = f.answers
BY DEF Frame

(* What stamp adds to a frame. *)
LEMMA StampedFrame ==
  ASSUME NEW f \in Frame
  PROVE  LET s == stamped(f)
         IN  /\ s.id = f.id /\ s.boundary = f.boundary
             /\ s.call = f.call /\ s.answers = f.answers
             /\ s.forkable = (f.boundary \in {"input", "result"})
             /\ s.updates = finalized(f)
             /\ s.rebuild = IF f.boundary = "result" THEN rebuiltFrom(f)
                            ELSE Nobody
<1> DEFINE e == edgeOf(f.boundary)
           b == f.boundary \in {"input", "result"}
           u == finalized(f)
           r == IF f.boundary = "result" THEN rebuiltFrom(f) ELSE Nobody
<1>1. stamped(f) = [f EXCEPT !.edge = e, !.forkable = b, !.updates = u,
                             !.rebuild = r]
  BY Zenon DEF stamped
<1> HIDE DEF e, b, u, r
<1> DEFINE s == [f EXCEPT !.edge = e, !.forkable = b, !.updates = u,
                          !.rebuild = r]
<1>2. /\ s.id = f.id /\ s.boundary = f.boundary
      /\ s.call = f.call /\ s.answers = f.answers
      /\ s.forkable = b /\ s.updates = u /\ s.rebuild = r
  BY DEF Frame
<1> HIDE DEF s
<1>3. stamped(f) = s
  BY <1>1 DEF s
<1> QED BY <1>2, <1>3, Zenon DEF b, u, r

----------------------------------------------------------------------------
(* Hooks, an outcome and a cancellation leave the session, the record and   *)
(* the transcript alone, and no frame is half put after them.               *)
sessionAndRecord ==
  <<made, live, streams, closed, saved, unread, forkable, projector,
    transcript>>

LEMMA LeftAlone ==
  ASSUME RoundInv, RestoreInv, UNCHANGED sessionAndRecord,
         mode \notin {"idle", "loading"}, mode' \notin {"idle", "loading"},
         put' = "append"
  PROVE  RestoreInv'
<1> USE DEF sessionAndRecord, projector, transcript
<1>1. Calls' = Calls
  BY SameTypes
<1>2. ~InHand({"keep"})' /\ ~InHand({"register", "keep"})'
  BY DEF InHand
<1>3. Numbered' /\ Rebuilt' /\ Offers'
  BY <1>1, <1>2 DEF RestoreInv, Numbered, Rebuilt, Offers
<1>4. Clocked' /\ Pointed'
  BY <1>1, <1>2 DEF RestoreInv, Clocked, Pointed, GateWritten
<1>5. Held' /\ Settled'
  BY <1>1, <1>2 DEF RestoreInv, Held, Settled
<1> QED BY <1>3, <1>4, <1>5 DEF RestoreInv

(* What the engine does of a round. *)
EngineStep ==
  Suspend \/ StayParked \/ Finish \/ \E c \in Calls : Hook(c)

LEMMA EngineShape ==
  ASSUME RoundInv, EngineStep
  PROVE  /\ UNCHANGED outsideHooks
         /\ todo = <<>> /\ put = "append"
         /\ mode \in {"running", "finishing"}
         /\ mode' \in {"running", "finishing", "crashing", "closing"}
<1>1. todo = <<>> => put = "append"
  BY DEF RoundInv, Stored
<1>2. CASE Suspend \/ StayParked \/ Finish
  BY <1>1, <1>2 DEF Suspend, StayParked, Finish, Ready, Drained, outsideHooks
<1>3. ASSUME NEW c \in Calls, PreToolUse(c) \/ OnResume(c) \/ Execute(c)
      PROVE  UNCHANGED outsideHooks /\ todo = <<>> /\ mode = "running"
             /\ mode' \in {"running", "crashing"}
  BY <1>3 DEF PreToolUse, OnResume, Execute, Turn, Ready, Drained, outsideHooks
<1>4. ASSUME NEW c \in Calls,
             \/ Replay(c) \/ PostToolUse(c) \/ Mark(c) \/ Bypass(c)
             \/ ProjectMissing(c)
      PROVE  UNCHANGED outsideHooks /\ todo = <<>>
             /\ mode \in {"running", "finishing"} /\ mode' = mode
  BY <1>4 DEF Replay, PostToolUse, Mark, Bypass, ProjectMissing, Turn, Ready,
              Drained, outsideHooks
<1> QED BY <1>1, <1>2, <1>3, <1>4 DEF EngineStep, Hook

LEMMA EngineRestores ==
  ASSUME RoundInv, RestoreInv, EngineStep
  PROVE  RestoreInv'
<1>1. UNCHANGED sessionAndRecord /\ put' = "append"
  BY EngineShape
  DEF outsideHooks, sessionAndRecord, record, projector, transcript
<1> QED BY <1>1, EngineShape, LeftAlone

----------------------------------------------------------------------------
(* An attempt begins: on the projector there is, or on a new one, which     *)
(* reads before it holds anything. No frame has its number yet.             *)
LEMMA BeginRestores ==
  ASSUME RoundInv, RestoreInv, NEW k, NEW a, NEW u, NEW h,
         begin(k, a, u, h), rehydrate,
         UNCHANGED <<made, todo, put, transcript, closed, unread>>,
         saved' = saved \/ (live /\ saved' = forkable)
  PROVE  RestoreInv'
<1> USE DEF RestoreInv, begin, rehydrate
<1>1. Calls' = Calls /\ todo = <<>> /\ todo' = <<>> /\ UNCHANGED <<points, kept>>
  BY SameTypes DEF RoundInv, Quiet, transcript
<1>2. streams \in Nat /\ streams' = streams + 1
  BY RoundBounds DEF RoundInv, TypeOK, HistoryOK
<1>3. \A j \in kept : j.stream \in Nat /\ j.frame.id \in EventId
  BY KeptTyped
<1>4. closed \subseteq Nat
  BY RoundBounds DEF RoundInv, TypeOK, HistoryOK
<1>5. ids(saved) \subseteq ids(saved')
  BY DEF Numbered, ids
<1>6. Numbered'
  <2>1. live' /\ saved' \subseteq forkable'
    BY DEF Numbered
  <2>2. /\ \A s \in closed : s <= streams
        /\ \A j \in kept : j.stream <= streams
    BY DEF Numbered
  <2> QED BY <1>1, <1>2, <1>3, <1>4, <2>1, <2>2 DEF Numbered
<1>7. Rebuilt'
  BY <1>1 DEF Rebuilt
<1>8. Offers'
  BY <1>1, <1>2, <1>3, <1>5 DEF Offers, Numbered, InHand
<1>9. Clocked'
  <2>1. scope \in Nat /\ sequence \in Nat
    BY DEF RoundInv, TypeOK, SessionOK
  <2>2. ASSUME NEW j \in kept, ~live
        PROVE  earlier(j.frame.id, <<scope + 1, 0>>)
    <3>1. earlier(j.frame.id, <<scope, sequence>>) /\ j.frame.id \in Nat \X Nat
      BY <1>3 DEF Clocked, EventId
    <3> QED BY <2>1, <3>1 DEF earlier, later
  <2> QED BY <1>1, <2>2 DEF Clocked, InHand
<1>10. Pointed'
  BY <1>1 DEF Pointed, GateWritten, InHand
<1>11. Held'
  <2>1. CASE live /\ loaded
    BY <1>1, <2>1 DEF Held, InHand
  <2>2. CASE ~(live /\ loaded)
    BY <2>2 DEF Held
  <2> QED BY <2>1, <2>2
<1>12. Settled'
  BY <1>1, <1>2, <1>3, <1>5 DEF Settled, Numbered
<1> QED BY <1>6, <1>7, <1>8, <1>9, <1>10, <1>11, <1>12

LEMMA RequestRestores ==
  ASSUME RoundInv, RestoreInv, Request
  PROVE  RestoreInv'
<1>1. ASSUME NEW u \in Selections, NEW x \in BOOLEAN, Run(u, x)
      PROVE  RestoreInv'
  BY <1>1, BeginRestores DEF Run
<1>2. ASSUME NEW c \in Calls, NEW says \in {"approve", "deny"},
             NEW call \in Edited(made[c]), NEW u \in Selections,
             Resume(c, says, call, u)
      PROVE  RestoreInv'
  BY <1>2, BeginRestores DEF Resume, _remember_session
<1>3. ASSUME NEW p \in points, Recover(p)
      PROVE  RestoreInv'
  BY <1>3, BeginRestores DEF Recover
<1> QED BY <1>1, <1>2, <1>3 DEF Request

(* A projector reads the gates of the transcript: all that were shown.      *)
LEMMA OpenRestores ==
  ASSUME RoundInv, RestoreInv, Open
  PROVE  RestoreInv'
<1> USE DEF RestoreInv, Open
<1>1. /\ Calls' = Calls /\ todo = <<>> /\ put' = "append"
      /\ UNCHANGED <<points, kept, streams, closed, saved, live, unread>>
  BY SameTypes DEF RoundInv, Quiet, Stored, transcript, history, record
<1>2. ~InHand({"keep"})' /\ ~InHand({"register", "keep"})'
  BY <1>1 DEF InHand
<1>3. Numbered' /\ Offers' /\ Clocked' /\ Pointed' /\ Settled'
  BY <1>1, <1>2
  DEF Numbered, Offers, Clocked, Pointed, GateWritten, Settled
<1>4. Rebuilt'
  BY <1>1 DEF Rebuilt
<1>5. Held'
  <2>1. CASE mode = "opening"
    BY <1>1, <1>2, <2>1 DEF Held
  <2>2. CASE mode = "loading"
    <3>1. gates' = loadedGates
      BY <2>2
    <3>2. ASSUME NEW g \in kept, g.frame.boundary = "tool"
          PROVE  g.frame.id \in loadedGates[g.frame.call]
      BY <3>2 DEF Pointed, GateWritten, loadedGates, toolPoints
    <3> QED BY <1>1, <1>2, <3>1, <3>2 DEF Held
  <2> QED BY <2>1, <2>2
<1> QED BY <1>3, <1>4, <1>5

----------------------------------------------------------------------------
(* The three writes of a frame. The checkpoint gives it its number.         *)
LEMMA StampRestores ==
  ASSUME RoundInv, RestoreInv, Stamp
  PROVE  RestoreInv'
<1> USE DEF RestoreInv
<1> DEFINE frame == Head(todo)
           now == <<scope, sequence>>
           numbered == [frame EXCEPT !.id = now]
           point == [id |-> now, boundary |-> frame.boundary,
                     call |-> frame.call, answers |-> frame.answers]
<1>1. /\ made' = made /\ todo # <<>> /\ put' = "register"
      /\ UNCHANGED <<mode, live, scope, saved, streams, closed, unread,
                     forkable, gates, rebuild, loaded, kept>>
      /\ sequence' = sequence + 1
      /\ todo' = <<numbered>> \o Tail(todo)
      /\ points' = IF frame.boundary = "none" THEN points
                   ELSE points \cup {point}
  BY DEF Stamp, Stamping, outsidePut, attempt, record, history
<1>2. Calls' = Calls
  BY <1>1, SameTypes
<1>3. now \in EventId /\ scope \in Nat /\ sequence \in Nat
  BY DEF RoundInv, TypeOK, SessionOK, EventId
<1>4. frame \in Frame /\ Fits(frame) /\ Tail(todo) \in Seq(Good)
      /\ mode \notin {"idle", "loading", "opening"}
  BY <1>1, HeadTyped
<1>5. /\ numbered.id = now /\ numbered.boundary = frame.boundary
      /\ numbered.call = frame.call
  BY <1>3, <1>4, NumberedFrame
<1> HIDE DEF numbered
<1>6. Head(todo') = numbered /\ todo' # <<>>
  BY <1>1, <1>4
<1>7. ~InHand({"keep"})'
  BY <1>1 DEF InHand
<1>8. Numbered' /\ Rebuilt' /\ Offers' /\ Held' /\ Settled'
  BY <1>1, <1>2, <1>7 DEF Numbered, Rebuilt, Offers, Held, Settled
<1>9. Clocked'
  <2>1. earlier(now, <<scope, sequence + 1>>)
    BY <1>3 DEF earlier, later
  <2>2. ASSUME NEW k \in kept
        PROVE  earlier(k.frame.id, now)
               /\ earlier(k.frame.id, <<scope, sequence + 1>>)
    <3>1. k.frame.id \in Nat \X Nat
      BY KeptTyped DEF EventId
    <3> QED BY <1>3, <3>1 DEF Clocked, earlier, later
  <2> QED BY <1>1, <1>5, <1>6, <2>1, <2>2 DEF Clocked
<1>10. Pointed'
  <2>1. \A k \in kept : GateWritten(k.frame)'
    BY <1>1, <1>2 DEF Pointed, GateWritten
  <2>2. ASSUME frame.boundary = "tool"
        PROVE  /\ frame.call \in Calls
               /\ \E p \in points' :
                    p.id = now /\ p.boundary = "tool" /\ p.call = frame.call
    <3>1. point \in points' /\ frame.call \in Calls
      BY <1>1, <1>4, <2>2 DEF Fits
    <3>2. point.id = now /\ point.boundary = "tool" /\ point.call = frame.call
      BY <2>2
    <3> HIDE DEF point
    <3> QED BY <3>1, <3>2
  <2>3. GateWritten(Head(todo))'
    BY <1>2, <1>5, <1>6, <2>2 DEF GateWritten
  <2> QED BY <1>1, <2>1, <2>3 DEF Pointed
<1> QED BY <1>8, <1>9, <1>10

(* Register: the projector takes up a gate, or a result settles its gates.  *)
LEMMA RegisterRestores ==
  ASSUME RoundInv, RestoreInv, Register
  PROVE  RestoreInv'
<1> USE DEF RestoreInv
<1> DEFINE frame == Head(todo)
           c == frame.call
           s == stamped(frame)
<1>1. /\ made' = made /\ todo # <<>> /\ put = "register" /\ put' = "keep"
      /\ UNCHANGED <<mode, live, scope, sequence, saved, streams, closed,
                     unread, loaded, kept, points>>
      /\ todo' = <<s>> \o Tail(todo)
      /\ forkable' = _register_frame(s)
      /\ rebuild' = IF c = None THEN rebuild
                    ELSE [rebuild EXCEPT ![c] = rebuiltFrom(frame)]
  BY DEF Register, Stamping, outsidePut, attempt, record, history, transcript
<1>2. gates' = CASE frame.boundary = "tool" ->
                      [gates EXCEPT ![c] = @ \cup {frame.id}]
                 [] frame.boundary = "result" -> [gates EXCEPT ![c] = {}]
                 [] OTHER -> gates
  BY DEF Register
<1>3. Calls' = Calls
  BY <1>1, SameTypes
<1>4. frame \in Frame /\ Fits(frame) /\ Tail(todo) \in Seq(Good)
      /\ mode \notin {"idle", "loading", "opening"}
  BY <1>1, HeadTyped
<1>5. /\ s.id = frame.id /\ s.boundary = frame.boundary
      /\ s.call = c /\ s.answers = frame.answers
      /\ s.forkable = (frame.boundary \in {"input", "result"})
      /\ s.updates = finalized(frame)
      /\ s.rebuild = IF frame.boundary = "result" THEN rebuiltFrom(frame)
                     ELSE Nobody
  BY <1>4, StampedFrame
<1> HIDE DEF s
<1>6. Head(todo') = s /\ todo' # <<>>
  BY <1>1, <1>4
<1>7. /\ frame.boundary \in {"tool", "result"} => c \in Calls
      /\ gates \in [Calls -> SUBSET EventId] /\ rebuild \in [Calls -> EventId]
      /\ \A d \in Calls : d # None
  BY <1>4, CallsAreNumbers, BatchesAreCalls
  DEF Fits, RoundInv, TypeOK, SessionOK, Calls, None
<1>8. /\ ids(forkable) \subseteq ids(forkable')
      /\ forkable \subseteq forkable'
      /\ finalized(frame) \subseteq ids(forkable')
      /\ frame.boundary \in {"input", "result"} => frame.id \in ids(forkable')
  <2>1. forkable' = forkable
          \cup (IF s.forkable THEN {[id |-> s.id, edge |-> s.edge]} ELSE {})
          \cup {[id |-> g, edge |-> "before"] : g \in s.updates}
    BY <1>1, Zenon DEF _register_frame
  <2>2. forkable \subseteq forkable'
    BY <2>1
  <2>3. ASSUME NEW g \in finalized(frame)
        PROVE  g \in ids(forkable')
    <3>1. [id |-> g, edge |-> "before"] \in forkable'
      BY <1>5, <2>1
    <3>2. [id |-> g, edge |-> "before"].id = g
      OBVIOUS
    <3> QED BY <3>1, <3>2, Zenon DEF ids
  <2>4. ASSUME frame.boundary \in {"input", "result"}
        PROVE  frame.id \in ids(forkable')
    <3>1. [id |-> s.id, edge |-> s.edge] \in forkable'
      BY <1>5, <2>1, <2>4
    <3>2. [id |-> s.id, edge |-> s.edge].id = frame.id
      BY <1>5
    <3> QED BY <3>1, <3>2, Zenon DEF ids
  <2> QED BY <2>2, <2>3, <2>4 DEF ids
<1>9. /\ frame.boundary = "tool" =>
           gates' = [gates EXCEPT ![c] = @ \cup {frame.id}]
      /\ frame.boundary = "result" => gates' = [gates EXCEPT ![c] = {}]
      /\ frame.boundary \notin {"tool", "result"} => gates' = gates
  BY <1>2, Zenon
<1>10. \A d \in Calls :
         gates[d] \cup ids(forkable) \subseteq gates'[d] \cup ids(forkable')
  <2>1. CASE frame.boundary = "result"
    BY <1>7, <1>8, <1>9, <2>1 DEF finalized
  <2>2. CASE frame.boundary # "result"
    BY <1>7, <1>8, <1>9, <2>2
  <2> QED BY <2>1, <2>2
<1>11. latest(finalized(frame)) \in finalized(frame) \cup {Nobody}
  BY DEF latest
<1>12. c \in Calls /\ rebuiltFrom(frame) # Nobody =>
         /\ rebuiltFrom(frame) \in gates'[c] \cup ids(forkable')
         /\ frame.boundary = "result" => rebuiltFrom(frame) \in ids(forkable')
  <2>1. CASE frame.boundary = "tool"
    BY <1>7, <1>9, <2>1 DEF rebuiltFrom
  <2>2. CASE frame.boundary # "tool" /\ finalized(frame) # {}
    BY <1>8, <1>11, <2>2 DEF rebuiltFrom
  <2>3. CASE frame.boundary # "tool" /\ finalized(frame) = {}
    BY <1>8, <1>10, <2>3 DEF rebuiltFrom, finalized, Rebuilt
  <2> QED BY <2>1, <2>2, <2>3
<1>13. Numbered'
  BY <1>1, <1>8 DEF Numbered
<1>14. Rebuilt'
  <2>1. ASSUME NEW d \in Calls, rebuild'[d] # Nobody
        PROVE  rebuild'[d] \in gates'[d] \cup ids(forkable')
    <3>1. CASE d = c
      BY <1>1, <1>7, <1>12, <2>1, <3>1
    <3>2. CASE d # c
      <4>1. rebuild'[d] = rebuild[d]
        BY <1>1, <1>7, <3>2
      <4> QED BY <1>10, <2>1, <4>1 DEF Rebuilt
    <3> QED BY <3>1, <3>2
  <2>2. loaded
    BY <1>4 DEF Rebuilt
  <2> QED BY <1>1, <1>3, <1>4, <2>1, <2>2 DEF Rebuilt
<1>15. Offers'
  <2>1. offered(s) \subseteq ids(forkable')
    BY <1>5, <1>7, <1>8, <1>12 DEF offered
  <2> QED BY <1>1, <1>6, <1>8, <2>1 DEF Offers
<1>16. Clocked' /\ Pointed'
  BY <1>1, <1>3, <1>5, <1>6 DEF Clocked, Pointed, GateWritten, InHand
<1>17. Held'
  <2> SUFFICES ASSUME live, ~unread
               PROVE  /\ \A g \in kept :
                           g.frame.boundary = "tool" =>
                             g.frame.id \in gates'[g.frame.call]
                                              \cup ids(forkable')
                      /\ s.boundary = "tool" => s.id \in gates'[s.call]
                      /\ s.boundary = "result" =>
                           \A g \in kept :
                             isGate(g, s.call) => g.frame.id \in ids(forkable')
    BY <1>1, <1>4, <1>6 DEF Held
  <2>1. \A g \in kept :
          g.frame.boundary = "tool" =>
            /\ g.frame.call \in Calls
            /\ g.frame.id \in gates[g.frame.call] \cup ids(forkable)
    BY <1>4 DEF Held, Pointed, GateWritten
  <2>2. \A g \in kept :
          g.frame.boundary = "tool" =>
            g.frame.id \in gates'[g.frame.call] \cup ids(forkable')
    BY <1>10, <2>1
  <2>3. s.boundary = "tool" => s.id \in gates'[s.call]
    BY <1>5, <1>7, <1>9
  <2>4. ASSUME s.boundary = "result", NEW g \in kept, isGate(g, s.call)
        PROVE  g.frame.id \in ids(forkable')
    <3>1. gates[c] = finalized(frame)
      BY <1>5, <2>4 DEF finalized
    <3>2. g.frame.id \in gates[c] \cup ids(forkable)
      BY <1>5, <2>1, <2>4 DEF isGate
    <3> QED BY <1>8, <3>1, <3>2
  <2> QED BY <2>2, <2>3, <2>4
<1>18. Settled'
  BY <1>1, <1>8 DEF Settled
<1> QED BY <1>13, <1>14, <1>15, <1>16, <1>17, <1>18

(* Keep: what the frame shows is registered, and the gates of a result are  *)
(* settled; no result was shown after a gate that is new.                   *)
LEMMA KeepRestores ==
  ASSUME RoundInv, RestoreInv, Keep
  PROVE  RestoreInv'
<1> USE DEF RestoreInv
<1> DEFINE frame == Head(todo)
           new == [stream |-> streams, frame |-> frame]
<1>1. /\ made' = made /\ todo # <<>> /\ put = "keep" /\ put' = "append"
      /\ UNCHANGED <<mode, live, scope, sequence, saved, streams, closed,
                     unread, forkable, gates, rebuild, loaded, points>>
      /\ kept' = kept \cup {new}
  BY DEF Keep, Stamping, outsidePut, attempt, record, history, projector
<1>2. Calls' = Calls
  BY <1>1, SameTypes
<1>3. /\ mode \notin {"idle", "loading", "opening"}
      /\ live /\ streams \notin closed /\ streams \in Nat
  BY <1>1, HeadTyped, RoundBounds DEF Numbered, RoundInv, TypeOK, HistoryOK
<1>4. ~InHand({"keep"})' /\ ~InHand({"register", "keep"})' /\ InHand({"keep"})
      /\ InHand({"register", "keep"})
  BY <1>1 DEF InHand
<1>5. new.stream = streams /\ new.frame = frame
  OBVIOUS
<1> HIDE DEF new, frame
<1>6. Numbered' /\ Rebuilt'
  BY <1>1, <1>2, <1>3, <1>5 DEF Numbered, Rebuilt
<1>7. Offers'
  BY <1>1, <1>3, <1>4, <1>5 DEF Offers, frame
<1>8. Clocked' /\ Pointed'
  <2>1. \A k \in kept' : earlier(k.frame.id, <<scope, sequence>>)
    BY <1>1, <1>4, <1>5 DEF Clocked, frame
  <2>2. \A k \in kept' : GateWritten(k.frame)
    BY <1>1, <1>4, <1>5 DEF Pointed, frame
  <2> QED BY <1>1, <1>2, <1>4, <2>1, <2>2 DEF Clocked, Pointed, GateWritten
<1>9. Held'
  <2>1. ~unread /\ new.frame.boundary = "tool" =>
          new.frame.id \in gates[new.frame.call]
    BY <1>3, <1>4, <1>5 DEF Held, frame
  <2> QED BY <1>1, <1>3, <1>4, <2>1 DEF Held
<1>10. Settled'
  <2> SUFFICES ASSUME ~unread, NEW k \in kept', NEW g \in kept',
                      k.frame.boundary = "result", isGate(g, k.frame.call),
                      later(k.frame.id, g.frame.id)
               PROVE  /\ k.stream = streams => g.frame.id \in ids(forkable)
                      /\ k.stream \in closed => g.frame.id \in ids(saved)
    BY <1>1 DEF Settled
  <2>1. CASE k \in kept /\ g \in kept
    BY <1>3, <2>1 DEF Settled
  <2>2. CASE g = new
    <3>1. k \in kept
      BY <1>1, <2>2 DEF isGate
    <3>2. earlier(k.frame.id, g.frame.id)
      BY <1>4, <1>5, <2>2, <3>1 DEF Clocked, frame
    <3> QED BY <3>2 DEF earlier
  <2>3. CASE k = new /\ g \in kept
    BY <1>3, <1>4, <1>5, <2>3 DEF Held, frame
  <2> QED BY <1>1, <2>1, <2>2, <2>3
<1> QED BY <1>6, <1>7, <1>8, <1>9, <1>10

LEMMA PutRestores ==
  ASSUME RoundInv, RestoreInv, Put
  PROVE  RestoreInv'
BY StampRestores, RegisterRestores, KeepRestores DEF Put

(* An attempt ends: the session goes to its record, unless it dies first.   *)
LEMMA EndRestores ==
  ASSUME RoundInv, RestoreInv,
         Outcome \/ Close \/ Cancel \/ CancelOpening \/ Die
  PROVE  RestoreInv'
<1> USE DEF RestoreInv
<1>0. todo = <<>> => put = "append"
  BY DEF RoundInv, Stored
<1>1. CASE Outcome \/ Cancel
  <2>1. /\ UNCHANGED sessionAndRecord /\ put' = "append"
        /\ mode \in {"running", "finishing"} /\ mode' = "closing"
    BY <1>0, <1>1 DEF Outcome, Cancel, sessionAndRecord, history
  <2> QED BY <2>1, LeftAlone
<1>2. CASE Close
  <2>1. /\ Calls' = Calls /\ mode \in {"closing", "crashing"} /\ mode' = "idle"
        /\ put' = "append" /\ saved' = forkable
        /\ closed' = closed \cup {streams}
        /\ UNCHANGED <<live, streams, kept, forkable, gates, rebuild, loaded,
                       scope, sequence, points, unread>>
    BY <1>0, <1>2, SameTypes
    DEF Close, _remember_session, projector, transcript
  <2>2. live /\ saved \subseteq forkable /\ ids(saved) \subseteq ids(forkable)
    BY <2>1 DEF Numbered, ids
  <2>3. ~InHand({"keep"})' /\ ~InHand({"register", "keep"})'
    BY <2>1 DEF InHand
  <2>4. streams <= streams
    BY RoundBounds DEF RoundInv, TypeOK, HistoryOK
  <2>5. Numbered' /\ Rebuilt' /\ Clocked' /\ Pointed' /\ Held'
    BY <2>1, <2>2, <2>3, <2>4
    DEF Numbered, Rebuilt, Clocked, Pointed, GateWritten, Held
  <2>6. Offers' /\ Settled'
    BY <2>1, <2>2, <2>3 DEF Offers, Settled
  <2> QED BY <2>5, <2>6
<1>3. CASE CancelOpening \/ Die
  <2>1. /\ Calls' = Calls /\ mode' = "idle" /\ put' = "append"
        /\ live' => live
        /\ live' /\ ~unread' => mode # "loading"
        /\ ~unread' => ~unread
        /\ UNCHANGED <<saved, closed, streams, kept, forkable, gates, rebuild,
                       loaded, scope, sequence, points>>
    <3>1. CASE CancelOpening
      <4>1. /\ made' = made /\ mode' = "idle"
            /\ unread' = (unread \/ mode = "loading")
            /\ UNCHANGED <<put, live, saved, closed, streams, forkable, projector,
                           transcript>>
        BY <3>1 DEF CancelOpening
      <4>2. put = "append"
        BY <1>0, <3>1 DEF CancelOpening, RoundInv, Quiet
      <4> QED BY <4>1, <4>2, SameTypes DEF projector, transcript
    <3>2. CASE Die
      BY <3>2, SameTypes DEF Die, projector, transcript
    <3> QED BY <1>3, <3>1, <3>2
  <2>2. ~InHand({"keep"})' /\ ~InHand({"register", "keep"})'
    BY <2>1 DEF InHand
  <2>3. Numbered' /\ Rebuilt' /\ Offers' /\ Clocked' /\ Pointed'
    BY <2>1, <2>2
    DEF Numbered, Rebuilt, Offers, Clocked, Pointed, GateWritten
  <2>4. Held' /\ Settled'
    BY <2>1, <2>2 DEF Held, Settled
  <2> QED BY <2>3, <2>4
<1> QED BY <1>1, <1>2, <1>3

LEMMA RestoreStep == RoundInv /\ RestoreInv /\ [Next]_vars => RestoreInv'
<1> SUFFICES ASSUME RoundInv, RestoreInv, [Next]_vars PROVE RestoreInv'
  OBVIOUS
<1>1. CASE UNCHANGED vars
  <2>1. Calls' = Calls
    BY <1>1, SameTypes DEF vars
  <2> QED
    BY <1>1, <2>1
    DEF vars, attempt, projector, record, transcript, history, RestoreInv,
        Numbered, Rebuilt, Offers, Clocked, Pointed, GateWritten, Held,
        Settled, InHand
<1> QED
  BY <1>1, RequestRestores, OpenRestores, EngineRestores, PutRestores,
     EndRestores
  DEF Next, EngineStep

(* What the page offers, the server accepts: every restore point that a     *)
(* kept frame of a closed stream shows is in the session, or in the record  *)
(* that the next worker makes it from, over every cut between the writes    *)
(* of a frame and every loss of the worker (put, _register_frame,           *)
(* _remember_session and fork of console/server.py).                        *)
THEOREM OffersAreTaken == Spec => []OfferedIsAccepted
<1>1. RestoreInv => OfferedIsAccepted
  <2> SUFFICES ASSUME RestoreInv, NEW k \in kept, k.stream \in closed
               PROVE  offered(k.frame) \subseteq {f.id : f \in accepted}
    BY DEF OfferedIsAccepted
  <2>1. saved \subseteq accepted
    BY DEF RestoreInv, Numbered, accepted
  <2>2. offered(k.frame) \subseteq ids(saved)
    BY DEF RestoreInv, Offers
  <2> QED BY <2>1, <2>2 DEF ids
<1> QED BY RoundInit, RoundStep, RestoreInit, RestoreStep, <1>1, PTL DEF Spec

(* A call that got its result leaves no gate behind: each gate of it that   *)
(* was shown before can be forked from, whatever worker showed it, unless   *)
(* a projector was cut off in reading the gates (stamp and its loaded flag  *)
(* in console/fork_demo.py).                                                *)
THEOREM GatesAreSettled == Spec => []GatesSettle
<1>1. RestoreInv => GatesSettle
  <2> SUFFICES ASSUME RestoreInv, ~unread, NEW k \in kept, NEW g \in kept,
                      k.stream \in closed, k.frame.boundary = "result",
                      isGate(g, k.frame.call), later(k.frame.id, g.frame.id)
               PROVE  g.frame.id \in {f.id : f \in accepted}
    BY DEF GatesSettle, GatesFound, isGate
  <2>1. saved \subseteq accepted
    BY DEF RestoreInv, Numbered, accepted
  <2>2. g.frame.id \in ids(saved)
    BY DEF RestoreInv, Settled
  <2> QED BY <2>1, <2>2 DEF ids
<1> QED BY RoundInit, RoundStep, RestoreInit, RestoreStep, <1>1, PTL DEF Spec

----------------------------------------------------------------------------
(* The answers. A result that a hook has noted is shown, or its frame is    *)
(* among those still to put; a coordinate is taken when all of them have    *)
(* been, so a history holds only answers that are shown.                    *)
shown(c) == \E k \in kept : answersShown(k) /\ k.frame.call = c

Queued(c) == \E i \in DOMAIN todo : todo[i].boundary = "none" /\ todo[i].call = c

AllShown(calls) == \A c \in calls : shown(c)

Underway == mode \in {"loading", "opening", "running", "finishing"}

Answered ==
  /\ AllShown(base)
  /\ results \subseteq answered
  /\ Underway => \A c \in answered : shown(c) \/ Queued(c)
  /\ \A p \in toolPoints : AllShown(p.answers)
  /\ \A i \in DOMAIN todo :
       todo[i].boundary = "tool" => AllShown(todo[i].answers)
  /\ EveryAnswerIsShown

LEMMA AnsweredInit == Init => Answered
BY DEF Init, Answered, AllShown, toolPoints, EveryAnswerIsShown

(* Places of the queue, when its first frame is replaced or put.            *)
LEMMA QueuePlaces ==
  ASSUME NEW S, NEW s \in Seq(S), s # <<>>, NEW x
  PROVE  /\ 1 \in DOMAIN s /\ s[1] = Head(s)
         /\ DOMAIN (<<x>> \o Tail(s)) = DOMAIN s
         /\ (<<x>> \o Tail(s))[1] = x
         /\ \A i \in DOMAIN s : i # 1 => (<<x>> \o Tail(s))[i] = s[i]
         /\ \A i \in DOMAIN s : i # 1 =>
              i - 1 \in DOMAIN Tail(s) /\ Tail(s)[i - 1] = s[i]
         /\ \A i \in DOMAIN Tail(s) :
              i + 1 \in DOMAIN s /\ Tail(s)[i] = s[i + 1]
OBVIOUS

(* What was shown stays shown. *)
LEMMA ShownStays ==
  ASSUME kept \subseteq kept', NEW calls, AllShown(calls)
  PROVE  AllShown(calls)'
BY DEF AllShown, shown, answersShown

(* The request, the end of an attempt, and every hook that emits nothing.   *)
LEMMA NothingEmitted ==
  ASSUME Answered, UNCHANGED <<made, transcript>>,
         AllShown(base'), results' \subseteq answered',
         \/ UNCHANGED <<todo, answered>> /\ (Underway' => Underway)
         \/ todo' = <<>> /\ (Underway' => answered' = {}),
         terminal' => terminal \/ AllShown(Calls)
  PROVE  Answered'
<1>1. UNCHANGED <<points, kept, Calls>>
  BY SameTypes DEF transcript
<1>2. AllShown(base)'
  BY <1>1 DEF AllShown, shown, answersShown
<1>3. \A p \in toolPoints' : AllShown(p.answers)'
  BY <1>1 DEF Answered, AllShown, shown, answersShown, toolPoints
<1>4. EveryAnswerIsShown'
  BY <1>1 DEF Answered, EveryAnswerIsShown, AllShown, shown, answersShown
<1>5. (\A i \in DOMAIN todo :
         todo[i].boundary = "tool" => AllShown(todo[i].answers))'
  <2>1. CASE todo' = todo
    BY <1>1, <2>1 DEF Answered, AllShown, shown, answersShown
  <2>2. CASE todo' = <<>>
    BY <2>2
  <2> QED BY <2>1, <2>2
<1>6. Underway' => (\A c \in answered : shown(c) \/ Queued(c))'
  <2>1. CASE UNCHANGED <<todo, answered>> /\ (Underway' => Underway)
    BY <1>1, <2>1 DEF Answered, shown, answersShown, Queued
  <2>2. CASE Underway' => answered' = {}
    BY <2>2
  <2> QED BY <2>1, <2>2
<1> QED BY <1>2, <1>3, <1>4, <1>5, <1>6 DEF Answered

(* A gate is emitted with the answers there are, all of them shown; an      *)
(* answer is noted together with the frame that shows it.                   *)
LEMMA AnswersEmitted ==
  ASSUME RoundInv, Answered, UNCHANGED outsideHooks, todo = <<>>,
         mode \in {"running", "finishing"}, NEW c \in Calls,
         results' \subseteq answered',
         \/ todo' = <<gatePoint(c)>> /\ answered' = answered
         \/ /\ \/ todo' = <<gatePoint(c), answerFrame(c), resultPoint(c)>>
               \/ todo' = <<resultPoint(c), answerFrame(c), resultPoint(c)>>
               \/ todo' = <<answerFrame(c)>>
            /\ answered' = answered \cup {c}
  PROVE  Answered'
<1>1. UNCHANGED <<points, kept, base, terminal, Calls>>
  BY SameTypes DEF outsideHooks, transcript, record
<1>2. \A d \in base \cup answered : shown(d)
  BY DEF Answered, AllShown, Underway, Queued
<1>3. /\ gatePoint(c).boundary = "tool"
      /\ gatePoint(c).answers = base \cup results
      /\ resultPoint(c).boundary = "result"
      /\ answerFrame(c).boundary = "none" /\ answerFrame(c).call = c
  BY DEF gatePoint, resultPoint, answerFrame, coordinateFrame, checkpoint
<1>4. AllShown(base)' /\ (\A p \in toolPoints : AllShown(p.answers))'
  BY <1>1 DEF Answered, AllShown, shown, answersShown, toolPoints
<1>5. EveryAnswerIsShown'
  BY <1>1 DEF Answered, EveryAnswerIsShown, answersShown
<1>6. \A i \in DOMAIN todo' :
        todo'[i].boundary = "tool" => todo'[i].answers \subseteq base \cup answered
  BY <1>3 DEF Answered
<1>7. (\A i \in DOMAIN todo :
         todo[i].boundary = "tool" => AllShown(todo[i].answers))'
  BY <1>1, <1>2, <1>6 DEF AllShown, shown, answersShown
<1>8. answered' = answered \/ (answered' = answered \cup {c} /\ Queued(c)')
  BY <1>3 DEF Queued
<1>9. (\A d \in answered : shown(d) \/ Queued(d))'
  BY <1>1, <1>2, <1>8 DEF shown, answersShown
<1> QED BY <1>4, <1>5, <1>7, <1>9 DEF Answered

LEMMA EngineAnswers ==
  ASSUME RoundInv, Answered, EngineStep
  PROVE  Answered'
<1>1. /\ UNCHANGED outsideHooks /\ todo = <<>>
      /\ mode \in {"running", "finishing"}
      /\ UNCHANGED <<made, transcript, base, terminal>>
      /\ results \subseteq answered /\ Underway
  BY EngineShape DEF outsideHooks, record, Answered, Underway
<1>2. AllShown(base')
  BY <1>1 DEF Answered
<1>3. ASSUME NEW c \in Calls, PreToolUse(c) \/ OnResume(c)
      PROVE  Answered'
  <2>1. CASE PreToolUse(c) /\ seam = "gate"
    <3>1. todo' = <<gatePoint(c)>> /\ UNCHANGED <<results, answered>>
      BY <2>1 DEF PreToolUse, observed
    <3> QED BY <1>1, <3>1, AnswersEmitted
  <2>2. ASSUME NEW verdict, decide(c, verdict)
        PROVE  Answered'
    <3>1. CASE verdict = "deny"
      <4>1. /\ todo' = <<gatePoint(c), answerFrame(c), resultPoint(c)>>
            /\ results' = results \cup {c} /\ answered' = answered \cup {c}
        BY <2>2, <3>1, Zenon DEF decide
      <4> QED BY <1>1, <4>1, AnswersEmitted
    <3>2. CASE verdict # "deny"
      <4>1. todo' = <<gatePoint(c)>> /\ UNCHANGED <<results, answered>>
        BY <2>2, <3>2, Zenon DEF decide
      <4> QED BY <1>1, <4>1, AnswersEmitted
    <3> QED BY <3>1, <3>2
  <2> QED BY <1>3, <2>1, <2>2 DEF PreToolUse, OnResume
<1>4. ASSUME NEW c \in Calls, PostToolUse(c)
      PROVE  Answered'
  <2>1. /\ todo' = <<resultPoint(c), answerFrame(c), resultPoint(c)>>
        /\ results' = results \cup {c} /\ answered' = answered \cup {c}
    BY <1>4 DEF PostToolUse
  <2> QED BY <1>1, <2>1, AnswersEmitted
<1>5. ASSUME NEW c \in Calls, ProjectMissing(c)
      PROVE  Answered'
  <2>1. /\ todo' = <<answerFrame(c)>>
        /\ results' = results /\ answered' = answered \cup {c}
    BY <1>5 DEF ProjectMissing
  <2> QED BY <1>1, <2>1, AnswersEmitted
<1>6. ASSUME \/ Suspend \/ StayParked \/ Finish
             \/ \E c \in Calls :
                  Execute(c) \/ Replay(c) \/ Mark(c) \/ Bypass(c)
      PROVE  Answered'
  <2>1. UNCHANGED <<todo, results, answered>>
    BY <1>6 DEF Suspend, StayParked, Finish, Execute, Replay, Mark, Bypass,
                observed
  <2> QED BY <1>1, <1>2, <2>1, NothingEmitted, ShownStays
<1> QED BY <1>3, <1>4, <1>5, <1>6 DEF EngineStep, Hook

(* A recovery starts from the history of a gate, which is all shown.        *)
LEMMA RequestAnswers ==
  ASSUME RoundInv, Answered, Request
  PROVE  Answered'
<1>1. ASSUME NEW k, NEW a, NEW u, NEW h, AllShown(h), begin(k, a, u, h),
             UNCHANGED <<made, todo, transcript, terminal>>
      PROVE  Answered'
  <2>1. /\ todo' = <<>> /\ base' = h /\ results' = {} /\ answered' = {}
    BY <1>1 DEF begin, RoundInv, Quiet
  <2> QED BY <1>1, <2>1, NothingEmitted DEF Answered
<1>2. AllShown({})
  BY DEF AllShown
<1>3. \A p \in toolPoints : AllShown(p.answers)
  BY DEF Answered
<1> QED
  BY <1>1, <1>2, <1>3 DEF Request, Run, Resume, Recover, _interrupted_history

LEMMA OpenAnswers ==
  ASSUME RoundInv, Answered, Open
  PROVE  Answered'
<1>1. /\ UNCHANGED <<made, base, results, answered, terminal, points, kept, Calls>>
      /\ todo = <<>> /\ Underway
  BY SameTypes
  DEF Open, RoundInv, Quiet, observed, record, transcript, Underway
<1>2. todo' = <<>> \/ todo' = <<coordinateFrame("input", None, {})>>
  BY DEF Open
<1>3. \A i \in DOMAIN todo' : todo'[i].boundary # "tool"
  BY <1>2 DEF coordinateFrame
<1>4. \A c \in answered : shown(c)
  BY <1>1 DEF Answered, Queued
<1>5. AllShown(base)' /\ (\A p \in toolPoints : AllShown(p.answers))'
  BY <1>1 DEF Answered, AllShown, shown, answersShown, toolPoints
<1>6. EveryAnswerIsShown'
  BY <1>1 DEF Answered, EveryAnswerIsShown, answersShown
<1>7. (\A c \in answered : shown(c))'
  BY <1>1, <1>4 DEF shown, answersShown
<1> QED BY <1>1, <1>3, <1>5, <1>6, <1>7 DEF Answered

(* A frame that is stamped or registered is still put with what it says.    *)
LEMMA HeadReplaced ==
  ASSUME RoundInv, Answered, todo # <<>>, NEW f,
         f.boundary = Head(todo).boundary, f.call = Head(todo).call,
         f.answers = Head(todo).answers, todo' = <<f>> \o Tail(todo),
         UNCHANGED <<made, mode, base, results, answered, kept, terminal>>,
         \A p \in points' : p \in points
                             \/ (p.boundary = f.boundary /\ p.answers = f.answers)
  PROVE  Answered'
<1>1. Calls' = Calls /\ todo \in Seq(Good)
  BY SameTypes DEF RoundInv, Framed
<1>2. /\ 1 \in DOMAIN todo /\ todo[1] = Head(todo)
      /\ DOMAIN todo' = DOMAIN todo /\ todo'[1] = f
      /\ \A i \in DOMAIN todo : i # 1 => todo'[i] = todo[i]
  BY <1>1, QueuePlaces
<1>3. \A i \in DOMAIN todo :
        /\ todo'[i].boundary = todo[i].boundary
        /\ todo'[i].call = todo[i].call /\ todo'[i].answers = todo[i].answers
  BY <1>2
<1>4. f.boundary = "tool" => AllShown(f.answers)
  BY <1>2 DEF Answered
<1>5. \A p \in points' : p.boundary = "tool" => AllShown(p.answers)
  BY <1>4 DEF Answered, toolPoints
<1>6. AllShown(base)' /\ (\A p \in toolPoints : AllShown(p.answers))'
  BY <1>5 DEF Answered, AllShown, shown, answersShown, toolPoints
<1>7. (\A i \in DOMAIN todo :
         todo[i].boundary = "tool" => AllShown(todo[i].answers))'
  BY <1>2, <1>3 DEF Answered, AllShown, shown, answersShown
<1>8. Underway' => (\A c \in answered : shown(c) \/ Queued(c))'
  <2> SUFFICES ASSUME Underway, NEW c \in answered
               PROVE  shown(c)' \/ Queued(c)'
    BY DEF Underway
  <2>1. CASE shown(c)
    BY <2>1 DEF shown, answersShown
  <2>2. CASE Queued(c)
    BY <1>2, <1>3, <2>2 DEF Queued
  <2> QED BY <2>1, <2>2 DEF Answered
<1>9. EveryAnswerIsShown'
  BY <1>1 DEF Answered, EveryAnswerIsShown, answersShown
<1> QED BY <1>6, <1>7, <1>8, <1>9 DEF Answered

LEMMA StampAnswers ==
  ASSUME RoundInv, Answered, Stamp
  PROVE  Answered'
<1> DEFINE frame == Head(todo)
           f == [frame EXCEPT !.id = <<scope, sequence>>]
           point == [id |-> <<scope, sequence>>, boundary |-> frame.boundary,
                     call |-> frame.call, answers |-> frame.answers]
<1>1. /\ todo # <<>> /\ todo' = <<f>> \o Tail(todo)
      /\ UNCHANGED <<made, mode, base, results, answered, kept, terminal>>
      /\ points' = IF frame.boundary = "none" THEN points
                   ELSE points \cup {point}
  BY DEF Stamp, Stamping, outsidePut, attempt, observed, record
<1>2. <<scope, sequence>> \in EventId /\ frame \in Frame
  BY <1>1, HeadTyped DEF RoundInv, TypeOK, SessionOK, EventId
<1>3. /\ f.boundary = frame.boundary /\ f.call = frame.call
      /\ f.answers = frame.answers
  BY <1>2, NumberedFrame
<1>4. point.boundary = frame.boundary /\ point.answers = frame.answers
  OBVIOUS
<1> HIDE DEF f, point
<1>5. \A p \in points' : p \in points
                          \/ (p.boundary = f.boundary /\ p.answers = f.answers)
  <2> SUFFICES ASSUME NEW p \in points', p \notin points
               PROVE  p.boundary = f.boundary /\ p.answers = f.answers
    OBVIOUS
  <2>1. p = point
    BY <1>1
  <2> QED BY <1>3, <1>4, <2>1
<1> QED BY <1>1, <1>3, <1>5, HeadReplaced

LEMMA RegisterAnswers ==
  ASSUME RoundInv, Answered, Register
  PROVE  Answered'
<1> DEFINE f == stamped(Head(todo))
<1>1. /\ todo # <<>> /\ todo' = <<f>> \o Tail(todo)
      /\ UNCHANGED <<made, mode, base, results, answered, kept, terminal, points>>
  BY DEF Register, Stamping, outsidePut, attempt, observed, record, transcript
<1>2. Head(todo) \in Frame
  BY <1>1, HeadTyped
<1>3. /\ f.boundary = Head(todo).boundary /\ f.call = Head(todo).call
      /\ f.answers = Head(todo).answers
  BY <1>2, StampedFrame
<1> HIDE DEF f
<1> QED BY <1>1, <1>3, HeadReplaced

(* An answer whose frame is kept is shown. *)
LEMMA KeepAnswers ==
  ASSUME RoundInv, Answered, Keep
  PROVE  Answered'
<1> DEFINE new == [stream |-> streams, frame |-> Head(todo)]
<1>1. /\ todo # <<>> /\ todo' = Tail(todo)
      /\ UNCHANGED <<made, mode, base, results, answered, terminal, points>>
      /\ kept' = kept \cup {new}
  BY DEF Keep, Stamping, outsidePut, attempt, observed, record
<1>2. new.frame = Head(todo)
  OBVIOUS
<1> HIDE DEF new
<1>3. Calls' = Calls /\ todo \in Seq(Good) /\ kept \subseteq kept'
  BY <1>1, SameTypes DEF RoundInv, Framed
<1>4. /\ todo[1] = Head(todo)
      /\ \A i \in DOMAIN todo : i # 1 =>
           i - 1 \in DOMAIN todo' /\ todo'[i - 1] = todo[i]
      /\ \A i \in DOMAIN todo' :
           i + 1 \in DOMAIN todo /\ todo'[i] = todo[i + 1]
  BY <1>1, <1>3, QueuePlaces
<1>5. AllShown(base)' /\ (\A p \in toolPoints : AllShown(p.answers))'
  BY <1>1, <1>3 DEF Answered, AllShown, shown, answersShown, toolPoints
<1>6. (\A i \in DOMAIN todo :
         todo[i].boundary = "tool" => AllShown(todo[i].answers))'
  BY <1>3, <1>4 DEF Answered, AllShown, shown, answersShown
<1>7. Underway' => (\A c \in answered : shown(c) \/ Queued(c))'
  <2> SUFFICES ASSUME Underway, NEW c \in answered
               PROVE  shown(c)' \/ Queued(c)'
    BY <1>1 DEF Underway
  <2>1. CASE shown(c)
    BY <1>3, <2>1 DEF shown, answersShown
  <2>2. ASSUME NEW i \in DOMAIN todo, todo[i].boundary = "none",
               todo[i].call = c
        PROVE  shown(c)' \/ Queued(c)'
    <3>1. CASE i = 1
      BY <1>1, <1>2, <1>4, <2>2, <3>1 DEF shown, answersShown
    <3>2. CASE i # 1
      BY <1>4, <2>2, <3>2 DEF Queued
    <3> QED BY <3>1, <3>2
  <2> QED BY <2>1, <2>2 DEF Answered, Queued
<1>8. EveryAnswerIsShown'
  BY <1>1, <1>3 DEF Answered, EveryAnswerIsShown, answersShown
<1> QED BY <1>1, <1>5, <1>6, <1>7, <1>8 DEF Answered

(* A round is over when nothing is missing and nothing is left to put.      *)
LEMMA EndAnswers ==
  ASSUME RoundInv, Answered,
         Outcome \/ Close \/ Cancel \/ CancelOpening \/ Die
  PROVE  Answered'
<1>1. /\ UNCHANGED <<made, transcript, base, results, answered>>
      /\ AllShown(base') /\ results' \subseteq answered'
      /\ mode' \in {"idle", "closing"}
  BY DEF Outcome, Close, Cancel, CancelOpening, Die, observed, Answered
<1>2. ~Underway'
  BY <1>1 DEF Underway
<1>3. CASE Outcome
  <2>1. todo = <<>> /\ todo' = <<>> /\ Underway /\ Calls \subseteq base \cup answered
    BY <1>3 DEF Outcome, Underway, project_missing
  <2>2. AllShown(Calls)
    BY <2>1 DEF Answered, AllShown, Queued
  <2> QED BY <1>1, <1>2, <2>1, <2>2, NothingEmitted
<1>4. CASE Close \/ Cancel \/ CancelOpening \/ Die
  <2>1. terminal' = terminal /\ (todo' = todo \/ todo' = <<>>)
    BY <1>4 DEF Close, Cancel, CancelOpening, Die
  <2> QED BY <1>1, <1>2, <2>1, NothingEmitted
<1> QED BY <1>3, <1>4

LEMMA AnsweredStep == RoundInv /\ Answered /\ [Next]_vars => Answered'
<1> SUFFICES ASSUME RoundInv, Answered, [Next]_vars PROVE Answered'
  OBVIOUS
<1>1. CASE UNCHANGED vars
  <2>1. /\ UNCHANGED <<made, transcript, base, results, answered, terminal, todo>>
        /\ Underway' = Underway
    BY <1>1 DEF vars, attempt, observed, record, Underway
  <2> QED BY <2>1, NothingEmitted DEF Answered
<1> QED
  BY <1>1, RequestAnswers, OpenAnswers, EngineAnswers, StampAnswers,
     RegisterAnswers, KeepAnswers, EndAnswers
  DEF Next, EngineStep, Put

(* When a round is over the answer of every call has been shown, whichever  *)
(* attempt ran it and however many workers died in between (post_tool_use   *)
(* and project_missing of console/runtime.py).                              *)
THEOREM AnswersAreShown == Spec => []EveryAnswerIsShown
<1>1. Answered => EveryAnswerIsShown
  BY DEF Answered
<1> QED BY RoundInit, RoundStep, AnsweredInit, AnsweredStep, <1>1, PTL DEF Spec
=============================================================================
