------------------------- MODULE SessionStepProofs -------------------------
(***************************************************************************)
(* Theorems about SessionStep, for any number of attempts, settlements,    *)
(* business keys and amounts.                                              *)
(***************************************************************************)
EXTENDS SessionStep, TLAPS

-----------------------------------------------------------------------------
(* The inductive invariant behind OneStartPerEpoch.  A token is granted once, *)
(* so of all that were granted only its holder can still write; what that     *)
(* holder has read of its record is therefore still so.                       *)

TokensIssued == \A p \in Proc : token[p] <= lease.token

TokensUnique == \A p, q \in Proc : token[p] # 0 /\ token[p] = token[q] => p = q

InsideHasToken ==
    /\ \A a \in Attempt : pc[a] \in {"read", "start", "body", "finish"} => token[a] # 0
    /\ \A s \in Settler : pc[s] = "write" => token[s] # 0

NotStarted == \A a \in Attempt : pc[a] \in {"idle", "acquire", "read", "start"} => gen[a] = 0

(* What execute read before start still holds when start takes effect. *)
ReadIsFresh ==
    \A a \in Attempt : pc[a] = "start" /\ Current(a) => status[call[a].key] = "ready"

GenBounded == \A a \in Attempt : gen[a] <= epoch[call[a].key]

ReadyIsUnstarted ==
    \A a \in Attempt : status[call[a].key] = "ready" /\ gen[a] # 0
                           => gen[a] < epoch[call[a].key]

EpochPositive == \A k \in Key : epoch[k] >= 1

Fenced == /\ TokensIssued /\ TokensUnique /\ InsideHasToken /\ NotStarted /\ ReadIsFresh
          /\ GenBounded /\ ReadyIsUnstarted /\ EpochPositive
          /\ OneStartPerEpoch

-----------------------------------------------------------------------------
(* The inductive invariant behind ChargedAtMostOnce, when there is one        *)
(* settlement.  The provider has at most the request of the current epoch,    *)
(* and the epoch of a key ends only by a settlement whose evidence, taken     *)
(* while the key was held by a dead attempt, is still so when it is written.  *)

OneSettler == \A s, t \in Settler : s = t

Undisturbed == \A s \in Settler : pc[s] = "idle"

(* A key that nobody can claim, and that nobody is charging under. *)
Held(k) == /\ status[k] # "ready"
           /\ \A a \in Attempt : pc[a] = "body" => call[a].key # k

BodyInEpoch ==
    \A a \in Attempt : pc[a] = "body" => /\ gen[a] = epoch[call[a].key]
                                         /\ status[call[a].key] # "ready"

AcceptedInEpoch ==
    \A a \in accepted : /\ gen[a] = epoch[call[a].key]
                        /\ status[call[a].key] # "ready"

CrashHeld ==
    Undisturbed => \A a \in Attempt : outcome[a] = "crashed" => Held(call[a].key)

EvidenceHolds ==
    \A s \in Settler : pc[s] \in {"acquire", "write"} =>
        IF evidence[s].charged
        THEN \E a \in accepted : call[a].key = evidence[s].key
        ELSE /\ Held(evidence[s].key)
             /\ \A a \in accepted : call[a].key # evidence[s].key

(* The holder of the last token is the only one to have changed its record. *)
StartedIsRunning ==
    \A a \in Attempt : pc[a] \in {"body", "finish"} /\ Current(a)
                           => status[call[a].key] = "running"

Honest == BodyInEpoch /\ AcceptedInEpoch /\ CrashHeld /\ EvidenceHolds /\ StartedIsRunning

-----------------------------------------------------------------------------
(* The inductive invariant behind ReportedIsTrue, when there is one           *)
(* settlement: a recorded amount is one the provider accepted.                *)

FinishIsPaid == \A a \in Attempt : pc[a] = "finish" => a \in accepted

RecordedIsPaid ==
    \A k \in Key : status[k] = "done" =>
        \E b \in accepted : call[b].key = k /\ call[b].amount = recorded[k]

CrashInEpoch ==
    Undisturbed => \A a \in Attempt : outcome[a] = "crashed" =>
                       gen[a] # 0 /\ gen[a] = epoch[call[a].key]

EvidenceIsPaid ==
    \A s \in Settler : pc[s] \in {"acquire", "write"} /\ evidence[s].charged =>
        \E b \in accepted : /\ call[b].key = evidence[s].key
                            /\ call[b].amount = evidence[s].amount

Truthful == FinishIsPaid /\ RecordedIsPaid /\ CrashInEpoch /\ EvidenceIsPaid /\ ReportedIsTrue

-----------------------------------------------------------------------------
(* Type correctness. *)

LEMMA TypeInit == Init => TypeOK
  <1> SUFFICES ASSUME Init PROVE TypeOK
    OBVIOUS
  <1>1. (CHOOSE m \in Amount : TRUE) \in Amount
    BY DataAssumption
  <1>2. (CHOOSE e \in [key : Key, amount : Amount, charged : BOOLEAN] : TRUE)
            \in [key : Key, amount : Amount, charged : BOOLEAN]
    <2>1. PICK k \in Key, m \in Amount : TRUE
      BY DataAssumption
    <2>2. [key |-> k, amount |-> m, charged |-> TRUE]
              \in [key : Key, amount : Amount, charged : BOOLEAN]
      OBVIOUS
    <2>. QED
      BY <2>2
  <1>. QED
    BY <1>1, <1>2 DEF Init, TypeOK, Proc, Status, PC, Outcome

LEMMA TypeStep == TypeOK /\ [Next]_vars => TypeOK'
  <1> SUFFICES ASSUME TypeOK, [Next]_vars PROVE TypeOK'
    OBVIOUS
  <1> USE DEF TypeOK, Proc, Status, PC, Waiting, Outcome, ledger, attempts, history,
          Goto, Tell, Leave, Grant, SetRunning, SetDone, Free, Body, RenewerEnds
  <1>1. CASE Expire
    BY <1>1 DEF Expire
  <1>2. ASSUME NEW a \in Attempt, Begin(a) PROVE TypeOK'
    BY <1>2 DEF Begin
  <1>3. ASSUME NEW a \in Attempt, AcquireWin(a) PROVE TypeOK'
    BY <1>3 DEF AcquireWin
  <1>4. ASSUME NEW a \in Attempt, AcquireLose(a) PROVE TypeOK'
    BY <1>4 DEF AcquireLose
  <1>5. ASSUME NEW a \in Attempt, ReadDone(a) PROVE TypeOK'
    BY <1>5 DEF ReadDone
  <1>6. ASSUME NEW a \in Attempt, ReadRunning(a) PROVE TypeOK'
    BY <1>6 DEF ReadRunning
  <1>7. ASSUME NEW a \in Attempt, ReadReady(a) PROVE TypeOK'
    BY <1>7 DEF ReadReady
  <1>8. ASSUME NEW a \in Attempt, StartWin(a) PROVE TypeOK'
    BY <1>8 DEF StartWin
  <1>9. ASSUME NEW a \in Attempt, StartLose(a) PROVE TypeOK'
    BY <1>9 DEF StartLose
  <1>10. ASSUME NEW a \in Attempt, BodyReturns(a) PROVE TypeOK'
    BY <1>10 DEF BodyReturns
  <1>11. ASSUME NEW a \in Attempt, BodyCrashes(a) PROVE TypeOK'
    BY <1>11 DEF BodyCrashes
  <1>12. ASSUME NEW a \in Attempt, BodyRaises(a) PROVE TypeOK'
    BY <1>12 DEF BodyRaises
  <1>13. ASSUME NEW a \in Attempt, Finish(a) PROVE TypeOK'
    BY <1>13 DEF Finish
  <1>14. ASSUME NEW a \in Attempt, FinishFenced(a) PROVE TypeOK'
    BY <1>14 DEF FinishFenced
  <1>15. ASSUME NEW a \in Attempt, Release(a) PROVE TypeOK'
    BY <1>15 DEF Release
  <1>16. ASSUME NEW a \in Attempt, CancelAcquire(a) PROVE TypeOK'
    BY <1>16 DEF CancelAcquire
  <1>17. ASSUME NEW a \in Attempt, CancelInside(a) PROVE TypeOK'
    BY <1>17, SMTT(30) DEF CancelInside
  <1>18. ASSUME NEW a \in Attempt, CancelRelease(a) PROVE TypeOK'
    BY <1>18 DEF CancelRelease
  <1>19. ASSUME NEW a \in Attempt, RenewLost(a) PROVE TypeOK'
    BY <1>19 DEF RenewLost
  <1>20. ASSUME NEW a \in Attempt, RenewRetake(a) PROVE TypeOK'
    BY <1>20 DEF RenewRetake
  <1>21. ASSUME NEW a \in Attempt, Cancel(a) PROVE TypeOK'
    BY <1>21 DEF Cancel
  <1>22. ASSUME NEW a \in Attempt, Die(a) PROVE TypeOK'
    BY <1>22 DEF Die
  <1>23. ASSUME NEW s \in Settler, SettleAcquire(s) PROVE TypeOK'
    <2>1. CASE Grant(s) /\ Goto(s, "write")
      BY <1>23, <2>1 DEF SettleAcquire
    <2>2. CASE Goto(s, "done") /\ UNCHANGED <<lease, token>>
      BY <1>23, <2>2 DEF SettleAcquire
    <2>. QED
      BY <1>23, <2>1, <2>2 DEF SettleAcquire
  <1>24. ASSUME NEW s \in Settler, SettleWrite(s) PROVE TypeOK'
    <2> DEFINE k == evidence[s].key
    <2>1. k \in Key /\ evidence[s].amount \in Amount
      OBVIOUS
    <2>2. status' \in [Key -> Status] /\ recorded' \in [Key -> Amount]
      BY <1>24, <2>1 DEF SettleWrite
    <2>3. epoch' \in [Key -> Nat]
      BY <1>24, <2>1 DEF SettleWrite
    <2>4. /\ pc' = [pc EXCEPT ![s] = "release"]
          /\ UNCHANGED <<lease, token, attempts, undecided, evidence, accepted, gen>>
      BY <1>24 DEF SettleWrite
    <2>. QED
      BY <2>2, <2>3, <2>4
  <1>25. ASSUME NEW s \in Settler, SettleRelease(s) PROVE TypeOK'
    BY <1>25 DEF SettleRelease
  <1>26. ASSUME NEW s \in Settler, SettleDies(s) PROVE TypeOK'
    BY <1>26 DEF SettleDies
  <1>27. ASSUME NEW s \in Settler, NEW k \in Key, SettleAsk(s, k) PROVE TypeOK'
    BY <1>27 DEF SettleAsk
  <1>28. CASE UNCHANGED vars
    BY <1>28 DEF vars
  <1>. QED
    BY <1>1, <1>2, <1>3, <1>4, <1>5, <1>6, <1>7, <1>8, <1>9, <1>10, <1>11, <1>12, <1>13, <1>14, <1>15, <1>16, <1>17, <1>18, <1>19, <1>20, <1>21, <1>22, <1>23, <1>24, <1>25, <1>26, <1>27, <1>28 DEF Next, Step, Disturb, Settle

(* Every reachable state is well typed. *)
THEOREM TypeCorrect == Spec => []TypeOK
  <1>. QED
    BY TypeInit, TypeStep, PTL DEF Spec
-----------------------------------------------------------------------------
(* OneStartPerEpoch. *)

LEMMA OneWriter ==
  ASSUME Fenced, NEW p \in Proc, NEW q \in Proc, token[p] # 0, Current(p), Current(q)
  PROVE  p = q
  BY DEF Fenced, TokensUnique, Current

LEMMA FencedInit == Init => Fenced
  BY DEF Init, Fenced, TokensIssued, TokensUnique, InsideHasToken, NotStarted,
         ReadIsFresh, GenBounded, ReadyIsUnstarted, EpochPositive, OneStartPerEpoch, Current, Proc

LEMMA FencedStep == TypeOK /\ Fenced /\ [Next]_vars => Fenced'
  <1> SUFFICES ASSUME TypeOK, Fenced, [Next]_vars PROVE Fenced'
    OBVIOUS
  <1> USE ProcAssumption
      DEF TypeOK, Proc, ledger, attempts, history, Goto, Tell, Leave, Grant, Current,
          SetRunning, SetDone, Free, Body, RenewerEnds, Fenced, TokensIssued, TokensUnique,
          InsideHasToken, NotStarted, ReadIsFresh, GenBounded, ReadyIsUnstarted,
          EpochPositive, OneStartPerEpoch
  <1>1. CASE Expire
    BY <1>1 DEF Expire
  <1>2. ASSUME NEW a \in Attempt, Begin(a) PROVE Fenced'
    BY <1>2 DEF Begin
  <1>3. ASSUME NEW a \in Attempt, AcquireWin(a) PROVE Fenced'
    BY <1>3 DEF AcquireWin
  <1>4. ASSUME NEW a \in Attempt, AcquireLose(a) PROVE Fenced'
    BY <1>4 DEF AcquireLose
  <1>5. ASSUME NEW a \in Attempt, ReadDone(a) PROVE Fenced'
    BY <1>5 DEF ReadDone
  <1>6. ASSUME NEW a \in Attempt, ReadRunning(a) PROVE Fenced'
    BY <1>6 DEF ReadRunning
  <1>7. ASSUME NEW a \in Attempt, ReadReady(a) PROVE Fenced'
    BY <1>7 DEF ReadReady
  <1>8. ASSUME NEW a \in Attempt, StartWin(a) PROVE Fenced'
    BY <1>8 DEF StartWin
  <1>9. ASSUME NEW a \in Attempt, StartLose(a) PROVE Fenced'
    BY <1>9 DEF StartLose
  <1>10. ASSUME NEW a \in Attempt, BodyReturns(a) PROVE Fenced'
    BY <1>10 DEF BodyReturns
  <1>11. ASSUME NEW a \in Attempt, BodyCrashes(a) PROVE Fenced'
    BY <1>11 DEF BodyCrashes
  <1>12. ASSUME NEW a \in Attempt, BodyRaises(a) PROVE Fenced'
    BY <1>12 DEF BodyRaises
  <1>13. ASSUME NEW a \in Attempt, Finish(a) PROVE Fenced'
    BY <1>13 DEF Finish
  <1>14. ASSUME NEW a \in Attempt, FinishFenced(a) PROVE Fenced'
    BY <1>14 DEF FinishFenced
  <1>15. ASSUME NEW a \in Attempt, Release(a) PROVE Fenced'
    BY <1>15 DEF Release
  <1>16. ASSUME NEW a \in Attempt, CancelAcquire(a) PROVE Fenced'
    <2>1. CASE Grant(a)
      BY <1>16, <2>1 DEF CancelAcquire
    <2>2. CASE UNCHANGED <<lease, token>>
      BY <1>16, <2>2 DEF CancelAcquire
    <2>. QED
      BY <1>16, <2>1, <2>2 DEF CancelAcquire
  <1>17. ASSUME NEW a \in Attempt, CancelInside(a) PROVE Fenced'
    <2>1. CASE pc[a] = "start" /\ Current(a) /\ SetRunning(a) /\ UNCHANGED recorded
      BY <1>17, <2>1 DEF CancelInside
    <2>2. CASE pc[a] = "finish" /\ Current(a) /\ SetDone(call[a].key, call[a].amount)
                 /\ UNCHANGED gen
      BY <1>17, <2>2 DEF CancelInside
    <2>3. CASE UNCHANGED <<status, recorded, gen>>
      BY <1>17, <2>3 DEF CancelInside
    <2>. QED
      BY <1>17, <2>1, <2>2, <2>3 DEF CancelInside
  <1>18. ASSUME NEW a \in Attempt, CancelRelease(a) PROVE Fenced'
    BY <1>18 DEF CancelRelease
  <1>19. ASSUME NEW a \in Attempt, RenewLost(a) PROVE Fenced'
    BY <1>19 DEF RenewLost
  <1>20. ASSUME NEW a \in Attempt, RenewRetake(a) PROVE Fenced'
    BY <1>20 DEF RenewRetake
  <1>21. ASSUME NEW a \in Attempt, Cancel(a) PROVE Fenced'
    BY <1>21 DEF Cancel
  <1>22. ASSUME NEW a \in Attempt, Die(a) PROVE Fenced'
    BY <1>22 DEF Die
  <1>23. ASSUME NEW s \in Settler, SettleAcquire(s) PROVE Fenced'
    <2>1. CASE Grant(s) /\ Goto(s, "write")
      BY <1>23, <2>1 DEF SettleAcquire
    <2>2. CASE Goto(s, "done") /\ UNCHANGED <<lease, token>>
      BY <1>23, <2>2 DEF SettleAcquire
    <2>. QED
      BY <1>23, <2>1, <2>2 DEF SettleAcquire
  <1>24. ASSUME NEW s \in Settler, SettleWrite(s) PROVE Fenced'
    <2>1. CASE Current(s) /\ evidence[s].charged
      BY <1>24, <2>1 DEF SettleWrite
    <2>2. CASE Current(s) /\ ~ evidence[s].charged /\ status[evidence[s].key] = "running"
      <3> DEFINE k == evidence[s].key
      <3>1. /\ k \in Key
            /\ status' = [status EXCEPT ![k] = "ready"]
            /\ epoch' = [epoch EXCEPT ![k] = epoch[k] + 1]
            /\ pc' = [pc EXCEPT ![s] = "release"]
            /\ UNCHANGED <<lease, token, call, gen>>
        BY <1>24, <2>2 DEF SettleWrite
      <3>2. \A a \in Attempt : pc'[a] = pc[a]
        BY <3>1
      <3>3. \A j \in Key : /\ epoch[j] <= epoch'[j]
                           /\ status'[j] = "ready" => status[j] = "ready" \/ j = k
        BY <3>1
      <3>4. TokensIssued' /\ TokensUnique' /\ InsideHasToken' /\ NotStarted'
        BY <3>1, <3>2
      <3>5. ReadIsFresh' /\ EpochPositive' /\ OneStartPerEpoch'
        BY <3>1, <3>2, <3>3
      <3>6. GenBounded'
        BY <3>1, <3>3
      <3>7. ReadyIsUnstarted'
        BY <3>1, <3>3
      <3>. QED
        BY <3>4, <3>5, <3>6, <3>7
    <2>3. CASE ~ Current(s) \/ (~ evidence[s].charged /\ status[evidence[s].key] # "running")
      BY <1>24, <2>3 DEF SettleWrite
    <2>. QED
      BY <1>24, <2>1, <2>2, <2>3 DEF SettleWrite
  <1>25. ASSUME NEW s \in Settler, SettleRelease(s) PROVE Fenced'
    BY <1>25 DEF SettleRelease
  <1>26. ASSUME NEW s \in Settler, SettleDies(s) PROVE Fenced'
    BY <1>26 DEF SettleDies
  <1>27. ASSUME NEW s \in Settler, NEW k \in Key, SettleAsk(s, k) PROVE Fenced'
    BY <1>27 DEF SettleAsk
  <1>28. CASE UNCHANGED vars
    BY <1>28 DEF vars
  <1>. QED
    BY <1>1, <1>2, <1>3, <1>4, <1>5, <1>6, <1>7, <1>8, <1>9, <1>10, <1>11, <1>12, <1>13, <1>14, <1>15, <1>16, <1>17, <1>18, <1>19, <1>20, <1>21, <1>22, <1>23, <1>24, <1>25, <1>26, <1>27, <1>28 DEF Next, Step, Disturb, Settle

(* Each time a key is opened, at first or by a person, at most one attempt    *)
(* gets past start into the charge, for any number of attempts and settlements. *)
THEOREM StartsAreUnique == Spec => []OneStartPerEpoch
  <1>1. Fenced => OneStartPerEpoch
    BY DEF Fenced
  <1>. QED
    BY <1>1, TypeInit, TypeStep, FencedInit, FencedStep, PTL DEF Spec

-----------------------------------------------------------------------------
(* ChargedAtMostOnce. *)

LEMMA HonestInit == Init => Honest
  BY DEF Init, Honest, BodyInEpoch, AcceptedInEpoch, CrashHeld, EvidenceHolds,
         StartedIsRunning, Proc

LEMMA HonestStep == OneSettler /\ TypeOK /\ Fenced /\ Honest /\ [Next]_vars => Honest'
  <1> SUFFICES ASSUME OneSettler, TypeOK, Fenced, Honest, [Next]_vars PROVE Honest'
    OBVIOUS
  <1>a. /\ TokensIssued /\ TokensUnique /\ InsideHasToken /\ NotStarted /\ ReadIsFresh
        /\ OneStartPerEpoch /\ EpochPositive
    BY DEF Fenced
  <1> USE ProcAssumption
      DEF TypeOK, Proc, ledger, attempts, history, Goto, Tell, Leave, Grant, Current,
          SetRunning, SetDone, Free, Body, RenewerEnds,
          TokensIssued, TokensUnique, InsideHasToken, NotStarted, ReadIsFresh,
          OneStartPerEpoch, EpochPositive, OneSettler,
          Honest, BodyInEpoch, AcceptedInEpoch, CrashHeld, EvidenceHolds, StartedIsRunning,
          Undisturbed, Held
  <1>1. CASE Expire
    BY <1>1, <1>a DEF Expire
  <1>2. ASSUME NEW a \in Attempt, Begin(a) PROVE Honest'
    BY <1>2, <1>a DEF Begin
  <1>3. ASSUME NEW a \in Attempt, AcquireWin(a) PROVE Honest'
    BY <1>3, <1>a DEF AcquireWin
  <1>4. ASSUME NEW a \in Attempt, AcquireLose(a) PROVE Honest'
    BY <1>4, <1>a DEF AcquireLose
  <1>5. ASSUME NEW a \in Attempt, ReadDone(a) PROVE Honest'
    BY <1>5, <1>a DEF ReadDone
  <1>6. ASSUME NEW a \in Attempt, ReadRunning(a) PROVE Honest'
    BY <1>6, <1>a DEF ReadRunning
  <1>7. ASSUME NEW a \in Attempt, ReadReady(a) PROVE Honest'
    BY <1>7, <1>a DEF ReadReady
  <1>8. ASSUME NEW a \in Attempt, StartWin(a) PROVE Honest'
    BY <1>8, <1>a DEF StartWin
  <1>9. ASSUME NEW a \in Attempt, StartLose(a) PROVE Honest'
    BY <1>9, <1>a DEF StartLose
  <1>10. ASSUME NEW a \in Attempt, BodyReturns(a) PROVE Honest'
    BY <1>10, <1>a DEF BodyReturns
  <1>11. ASSUME NEW a \in Attempt, BodyCrashes(a) PROVE Honest'
    BY <1>11, <1>a DEF BodyCrashes
  <1>12. ASSUME NEW a \in Attempt, BodyRaises(a) PROVE Honest'
    BY <1>12, <1>a DEF BodyRaises
  <1>13. ASSUME NEW a \in Attempt, Finish(a) PROVE Honest'
    BY <1>13, <1>a DEF Finish
  <1>14. ASSUME NEW a \in Attempt, FinishFenced(a) PROVE Honest'
    BY <1>14, <1>a DEF FinishFenced
  <1>15. ASSUME NEW a \in Attempt, Release(a) PROVE Honest'
    BY <1>15, <1>a DEF Release
  <1>16. ASSUME NEW a \in Attempt, CancelAcquire(a) PROVE Honest'
    <2>1. CASE Grant(a)
      BY <1>16, <2>1, <1>a DEF CancelAcquire
    <2>2. CASE UNCHANGED <<lease, token>>
      BY <1>16, <2>2, <1>a DEF CancelAcquire
    <2>. QED
      BY <1>16, <2>1, <2>2 DEF CancelAcquire
  <1>17. ASSUME NEW a \in Attempt, CancelInside(a) PROVE Honest'
    <2>1. CASE pc[a] = "start" /\ Current(a) /\ SetRunning(a) /\ UNCHANGED recorded
      BY <1>17, <2>1, <1>a DEF CancelInside
    <2>2. CASE pc[a] = "finish" /\ Current(a) /\ SetDone(call[a].key, call[a].amount)
                 /\ UNCHANGED gen
      BY <1>17, <2>2, <1>a DEF CancelInside
    <2>3. CASE UNCHANGED <<status, recorded, gen>>
      BY <1>17, <2>3, <1>a DEF CancelInside
    <2>. QED
      BY <1>17, <2>1, <2>2, <2>3 DEF CancelInside
  <1>18. ASSUME NEW a \in Attempt, CancelRelease(a) PROVE Honest'
    BY <1>18, <1>a DEF CancelRelease
  <1>19. ASSUME NEW a \in Attempt, RenewLost(a) PROVE Honest'
    BY <1>19, <1>a DEF RenewLost
  <1>20. ASSUME NEW a \in Attempt, RenewRetake(a) PROVE Honest'
    BY <1>20, <1>a DEF RenewRetake
  <1>21. ASSUME NEW a \in Attempt, Cancel(a) PROVE Honest'
    BY <1>21, <1>a DEF Cancel
  <1>22. ASSUME NEW a \in Attempt, Die(a) PROVE Honest'
    BY <1>22, <1>a DEF Die
  <1>23. ASSUME NEW s \in Settler, SettleAcquire(s) PROVE Honest'
    <2>1. CASE Grant(s) /\ Goto(s, "write")
      BY <1>23, <2>1, <1>a DEF SettleAcquire
    <2>2. CASE Goto(s, "done") /\ UNCHANGED <<lease, token>>
      BY <1>23, <2>2, <1>a DEF SettleAcquire
    <2>. QED
      BY <1>23, <2>1, <2>2 DEF SettleAcquire
  <1>24. ASSUME NEW s \in Settler, SettleWrite(s) PROVE Honest'
    <2>1. CASE Current(s) /\ evidence[s].charged
      BY <1>24, <2>1, <1>a DEF SettleWrite
    <2>2. CASE Current(s) /\ ~ evidence[s].charged /\ status[evidence[s].key] = "running"
      BY <1>24, <2>2, <1>a DEF SettleWrite
    <2>3. CASE ~ Current(s) \/ (~ evidence[s].charged /\ status[evidence[s].key] # "running")
      BY <1>24, <2>3, <1>a DEF SettleWrite
    <2>. QED
      BY <1>24, <2>1, <2>2, <2>3 DEF SettleWrite
  <1>25. ASSUME NEW s \in Settler, SettleRelease(s) PROVE Honest'
    BY <1>25, <1>a DEF SettleRelease
  <1>26. ASSUME NEW s \in Settler, SettleDies(s) PROVE Honest'
    BY <1>26, <1>a DEF SettleDies
  <1>27. ASSUME NEW s \in Settler, NEW k \in Key, SettleAsk(s, k) PROVE Honest'
    BY <1>27, <1>a DEF SettleAsk
  <1>28. CASE UNCHANGED vars
    BY <1>28 DEF vars
  <1>. QED
    BY <1>1, <1>2, <1>3, <1>4, <1>5, <1>6, <1>7, <1>8, <1>9, <1>10, <1>11, <1>12, <1>13, <1>14, <1>15, <1>16, <1>17, <1>18, <1>19, <1>20, <1>21, <1>22, <1>23, <1>24, <1>25, <1>26, <1>27, <1>28 DEF Next, Step, Disturb, Settle

(* The provider accepts at most one request for a business key, for any number *)
(* of executions, crashes, cancellations and lapses, when one settlement is    *)
(* made.                                                                        *)
THEOREM ChargesAreUnique == OneSettler => (Spec => []ChargedAtMostOnce)
  <1> SUFFICES ASSUME OneSettler PROVE Spec => []ChargedAtMostOnce
    OBVIOUS
  <1>1. TypeOK /\ Fenced /\ Honest => ChargedAtMostOnce
    BY DEF TypeOK, Fenced, OneStartPerEpoch, EpochPositive, Honest, AcceptedInEpoch,
           ChargedAtMostOnce
  <1>2. TypeOK /\ Fenced /\ Honest /\ [Next]_vars => Honest'
    BY HonestStep
  <1>. QED
    BY <1>1, <1>2, TypeInit, TypeStep, FencedInit, FencedStep, HonestInit, PTL DEF Spec

-----------------------------------------------------------------------------
(* ReportedIsTrue and RecordedIsFinal. *)

(* What no step does to a recorded result. *)
LEMMA FinalStep ==
  OneSettler /\ TypeOK /\ Fenced /\ Honest /\ Truthful /\ [Next]_vars =>
    \A k \in Key : status[k] = "done" => status'[k] = "done" /\ recorded'[k] = recorded[k]
  <1> SUFFICES ASSUME OneSettler, TypeOK, Fenced, Honest, Truthful, [Next]_vars,
                      NEW k \in Key, status[k] = "done"
               PROVE  status'[k] = "done" /\ recorded'[k] = recorded[k]
    OBVIOUS
  <1> USE ProcAssumption
      DEF TypeOK, Proc, ledger, attempts, history, Goto, Tell, Leave, Grant, Current,
          SetRunning, SetDone, Free, Body, RenewerEnds
  <1>1. CASE UNCHANGED <<status, recorded>>
    BY <1>1
  <1>2. ASSUME NEW a \in Attempt, pc[a] = "start", Current(a), SetRunning(a),
               UNCHANGED recorded
        PROVE  status'[k] = "done" /\ recorded'[k] = recorded[k]
    BY <1>2 DEF Fenced, ReadIsFresh
  <1>3. ASSUME NEW a \in Attempt, pc[a] = "finish", Current(a),
               SetDone(call[a].key, call[a].amount)
        PROVE  status'[k] = "done" /\ recorded'[k] = recorded[k]
    BY <1>3 DEF Honest, StartedIsRunning
  <1>4. ASSUME NEW s \in Settler, SettleWrite(s)
        PROVE  status'[k] = "done" /\ recorded'[k] = recorded[k]
    <2>1. CASE evidence[s].charged /\ Current(s) /\ evidence[s].key = k
      <3>1. PICK b \in accepted : call[b].key = k /\ call[b].amount = recorded[k]
        BY DEF Truthful, RecordedIsPaid
      <3>2. PICK c \in accepted : call[c].key = k /\ call[c].amount = evidence[s].amount
        BY <1>4, <2>1 DEF Truthful, EvidenceIsPaid, SettleWrite
      <3>3. b = c
        BY <3>1, <3>2 DEF Honest, AcceptedInEpoch, Fenced, OneStartPerEpoch, EpochPositive
      <3>. QED
        BY <1>4, <2>1, <3>1, <3>2, <3>3 DEF SettleWrite
    <2>2. CASE ~ (evidence[s].charged /\ Current(s) /\ evidence[s].key = k)
      BY <1>4, <2>2 DEF SettleWrite
    <2>. QED
      BY <2>1, <2>2
  <1>. QED
    BY <1>1, <1>2, <1>3, <1>4
    DEF Next, Step, Disturb, Settle, vars, Expire, Begin, AcquireWin, AcquireLose, ReadDone,
        ReadRunning, ReadReady, StartWin, StartLose, BodyReturns, BodyCrashes, BodyRaises,
        Finish, FinishFenced, Release, CancelAcquire, CancelInside, CancelRelease, RenewLost,
        RenewRetake, Cancel, Die, SettleAsk, SettleAcquire, SettleRelease, SettleDies

LEMMA TruthfulInit == Init => Truthful
  BY DEF Init, Truthful, FinishIsPaid, RecordedIsPaid, CrashInEpoch, EvidenceIsPaid,
         ReportedIsTrue, Proc

LEMMA TruthfulStep ==
  OneSettler /\ TypeOK /\ Fenced /\ Honest /\ Truthful /\ [Next]_vars => Truthful'
  <1> SUFFICES ASSUME OneSettler, TypeOK, Fenced, Honest, Truthful, [Next]_vars
               PROVE  Truthful'
    OBVIOUS
  <1>a. \A k \in Key : status[k] = "done" => status'[k] = "done" /\ recorded'[k] = recorded[k]
    BY FinalStep
  <1>b. /\ OneStartPerEpoch /\ EpochPositive /\ ReadIsFresh
        /\ BodyInEpoch /\ AcceptedInEpoch /\ StartedIsRunning
    BY DEF Fenced, Honest
  <1> USE ProcAssumption
      DEF TypeOK, Proc, ledger, attempts, history, Goto, Tell, Leave, Grant, Current,
          SetRunning, SetDone, Free, Body, RenewerEnds, OneSettler, Undisturbed,
          OneStartPerEpoch, EpochPositive, ReadIsFresh, BodyInEpoch, AcceptedInEpoch,
          StartedIsRunning,
          Truthful, FinishIsPaid, RecordedIsPaid, CrashInEpoch, EvidenceIsPaid, ReportedIsTrue
  <1>1. CASE Expire
    BY <1>1 DEF Expire
  <1>2. ASSUME NEW a \in Attempt, Begin(a) PROVE Truthful'
    BY <1>2, <1>a, <1>b DEF Begin
  <1>3. ASSUME NEW a \in Attempt, AcquireWin(a) PROVE Truthful'
    BY <1>3, <1>a, <1>b DEF AcquireWin
  <1>4. ASSUME NEW a \in Attempt, AcquireLose(a) PROVE Truthful'
    BY <1>4, <1>a, <1>b DEF AcquireLose
  <1>5. ASSUME NEW a \in Attempt, ReadDone(a) PROVE Truthful'
    <2>1. PICK b \in accepted : /\ call[b].key = call[a].key
                               /\ call[b].amount = recorded[call[a].key]
      BY <1>5 DEF ReadDone
    <2>2. recorded[call[a].key] = call[a].amount => call[b] = call[a]
      BY <2>1
    <2>3. /\ UNCHANGED <<ledger, call, evidence, accepted, epoch, gen>>
          /\ outcome' = [outcome EXCEPT ![a] =
                 IF recorded[call[a].key] = call[a].amount THEN "replayed" ELSE "conflict"]
          /\ pc' = [pc EXCEPT ![a] = "release"]
          /\ status[call[a].key] = "done"
      BY <1>5 DEF ReadDone
    <2>4. ReportedIsTrue'
      <3> SUFFICES ASSUME NEW c \in Attempt, outcome'[c] \in {"charged", "replayed"}
                   PROVE  /\ status[call[c].key] = "done"
                          /\ recorded[call[c].key] = call[c].amount
                          /\ \E d \in accepted : call[d] = call[c]
        BY <2>3
      <3>1. CASE c = a
        BY <3>1, <2>2, <2>3
      <3>2. CASE c # a
        BY <3>2, <2>3
      <3>. QED
        BY <3>1, <3>2
    <2>. QED
      BY <2>3, <2>4
  <1>6. ASSUME NEW a \in Attempt, ReadRunning(a) PROVE Truthful'
    BY <1>6, <1>a, <1>b DEF ReadRunning
  <1>7. ASSUME NEW a \in Attempt, ReadReady(a) PROVE Truthful'
    BY <1>7, <1>a, <1>b DEF ReadReady
  <1>8. ASSUME NEW a \in Attempt, StartWin(a) PROVE Truthful'
    BY <1>8, <1>a, <1>b DEF StartWin
  <1>9. ASSUME NEW a \in Attempt, StartLose(a) PROVE Truthful'
    BY <1>9, <1>a, <1>b DEF StartLose
  <1>10. ASSUME NEW a \in Attempt, BodyReturns(a) PROVE Truthful'
    BY <1>10, <1>a, <1>b DEF BodyReturns
  <1>11. ASSUME NEW a \in Attempt, BodyCrashes(a) PROVE Truthful'
    BY <1>11, <1>a, <1>b DEF BodyCrashes
  <1>12. ASSUME NEW a \in Attempt, BodyRaises(a) PROVE Truthful'
    BY <1>12, <1>a, <1>b DEF BodyRaises
  <1>13. ASSUME NEW a \in Attempt, Finish(a) PROVE Truthful'
    BY <1>13, <1>a, <1>b DEF Finish
  <1>14. ASSUME NEW a \in Attempt, FinishFenced(a) PROVE Truthful'
    BY <1>14, <1>a, <1>b DEF FinishFenced
  <1>15. ASSUME NEW a \in Attempt, Release(a) PROVE Truthful'
    BY <1>15, <1>a, <1>b DEF Release
  <1>16. ASSUME NEW a \in Attempt, CancelAcquire(a) PROVE Truthful'
    <2>1. CASE Grant(a)
      BY <1>16, <2>1, <1>a, <1>b DEF CancelAcquire
    <2>2. CASE UNCHANGED <<lease, token>>
      BY <1>16, <2>2, <1>a, <1>b DEF CancelAcquire
    <2>. QED
      BY <1>16, <2>1, <2>2 DEF CancelAcquire
  <1>17. ASSUME NEW a \in Attempt, CancelInside(a) PROVE Truthful'
    <2>1. CASE pc[a] = "start" /\ Current(a) /\ SetRunning(a) /\ UNCHANGED recorded
      BY <1>17, <2>1, <1>a, <1>b DEF CancelInside
    <2>2. CASE pc[a] = "finish" /\ Current(a) /\ SetDone(call[a].key, call[a].amount)
                 /\ UNCHANGED gen
      BY <1>17, <2>2, <1>a, <1>b DEF CancelInside
    <2>3. CASE UNCHANGED <<status, recorded, gen>>
      BY <1>17, <2>3, <1>a, <1>b DEF CancelInside
    <2>. QED
      BY <1>17, <2>1, <2>2, <2>3 DEF CancelInside
  <1>18. ASSUME NEW a \in Attempt, CancelRelease(a) PROVE Truthful'
    BY <1>18, <1>a, <1>b DEF CancelRelease
  <1>19. ASSUME NEW a \in Attempt, RenewLost(a) PROVE Truthful'
    BY <1>19, <1>a, <1>b DEF RenewLost
  <1>20. ASSUME NEW a \in Attempt, RenewRetake(a) PROVE Truthful'
    BY <1>20, <1>a, <1>b DEF RenewRetake
  <1>21. ASSUME NEW a \in Attempt, Cancel(a) PROVE Truthful'
    BY <1>21, <1>a, <1>b DEF Cancel
  <1>22. ASSUME NEW a \in Attempt, Die(a) PROVE Truthful'
    BY <1>22, <1>a, <1>b DEF Die
  <1>23. ASSUME NEW s \in Settler, SettleAcquire(s) PROVE Truthful'
    <2>1. CASE Grant(s) /\ Goto(s, "write")
      BY <1>23, <2>1, <1>a, <1>b DEF SettleAcquire
    <2>2. CASE Goto(s, "done") /\ UNCHANGED <<lease, token>>
      BY <1>23, <2>2, <1>a, <1>b DEF SettleAcquire
    <2>. QED
      BY <1>23, <2>1, <2>2 DEF SettleAcquire
  <1>24. ASSUME NEW s \in Settler, SettleWrite(s) PROVE Truthful'
    <2>1. CASE Current(s) /\ evidence[s].charged
      BY <1>24, <2>1, <1>a, <1>b, SMTT(30) DEF SettleWrite
    <2>2. CASE Current(s) /\ ~ evidence[s].charged /\ status[evidence[s].key] = "running"
      BY <1>24, <2>2, <1>a, <1>b DEF SettleWrite
    <2>3. CASE ~ Current(s) \/ (~ evidence[s].charged /\ status[evidence[s].key] # "running")
      BY <1>24, <2>3, <1>a, <1>b DEF SettleWrite
    <2>. QED
      BY <1>24, <2>1, <2>2, <2>3 DEF SettleWrite
  <1>25. ASSUME NEW s \in Settler, SettleRelease(s) PROVE Truthful'
    BY <1>25, <1>a, <1>b DEF SettleRelease
  <1>26. ASSUME NEW s \in Settler, SettleDies(s) PROVE Truthful'
    BY <1>26, <1>a, <1>b DEF SettleDies
  <1>27. ASSUME NEW s \in Settler, NEW k \in Key, SettleAsk(s, k) PROVE Truthful'
    BY <1>27, <1>a, <1>b DEF SettleAsk
  <1>28. CASE UNCHANGED vars
    BY <1>28 DEF vars
  <1>. QED
    BY <1>1, <1>2, <1>3, <1>4, <1>5, <1>6, <1>7, <1>8, <1>9, <1>10, <1>11, <1>12, <1>13, <1>14, <1>15, <1>16, <1>17, <1>18, <1>19, <1>20, <1>21, <1>22, <1>23, <1>24, <1>25, <1>26, <1>27, <1>28 DEF Next, Step, Disturb, Settle

(* What an attempt reports as charged or replayed is on the ledger and was       *)
(* accepted by the provider, for that key and that amount.                        *)
THEOREM ReportsAreTrue == OneSettler => (Spec => []ReportedIsTrue)
  <1> SUFFICES ASSUME OneSettler PROVE Spec => []ReportedIsTrue
    OBVIOUS
  <1>1. TypeOK /\ Fenced /\ Honest /\ [Next]_vars => Honest'
    BY HonestStep
  <1>2. TypeOK /\ Fenced /\ Honest /\ Truthful /\ [Next]_vars => Truthful'
    BY TruthfulStep
  <1>3. Truthful => ReportedIsTrue
    BY DEF Truthful
  <1>. QED
    BY <1>1, <1>2, <1>3, TypeInit, TypeStep, FencedInit, FencedStep, HonestInit,
       TruthfulInit, PTL DEF Spec

(* No step replaces a recorded result. *)
THEOREM RecordsAreFinal == OneSettler => (Spec => RecordedIsFinal)
  <1> SUFFICES ASSUME OneSettler PROVE Spec => RecordedIsFinal
    OBVIOUS
  <1>1. TypeOK /\ Fenced /\ Honest /\ [Next]_vars => Honest'
    BY HonestStep
  <1>2. TypeOK /\ Fenced /\ Honest /\ Truthful /\ [Next]_vars => Truthful'
    BY TruthfulStep
  <1>3. TypeOK /\ Fenced /\ Honest /\ Truthful /\ [Next]_vars =>
          [\A k \in Key : status[k] = "done" =>
              status'[k] = "done" /\ recorded'[k] = recorded[k]]_vars
    BY FinalStep
  <1>. QED
    BY <1>1, <1>2, <1>3, TypeInit, TypeStep, FencedInit, FencedStep, HonestInit,
       TruthfulInit, PTL DEF Spec, RecordedIsFinal

-----------------------------------------------------------------------------
(* The machine implements ChargeOnce. *)

LEMMA PromiseInit == Init => Once!Init
  BY DEF Init, Once!Init, Proc

LEMMA PromiseStep ==
  OneSettler /\ TypeOK /\ Fenced /\ Honest /\ Truthful /\ [Next]_vars => [Once!Next]_(Once!vars)
  <1> SUFFICES ASSUME OneSettler, TypeOK, Fenced, Honest, Truthful, [Next]_vars
               PROVE  [Once!Next]_(Once!vars)
    OBVIOUS
  <1> DEFINE Right == {<<a, call[a].key>> : a \in {b \in Attempt : pc[b] = "body"}}
             Paid  == {<<a, call[a].key>> : a \in accepted}
  <1>k. \A a \in Attempt : call[a].key \in Key
    BY DEF TypeOK
  \* A step that moves nobody into or out of the body.
  <1>q. ASSUME UNCHANGED <<status, call, accepted>>,
               \A a \in Attempt : pc'[a] = "body" <=> pc[a] = "body"
        PROVE  UNCHANGED Once!vars
    BY <1>q DEF Once!vars
  \* A step that only changes the record of one key.
  <1>r. ASSUME UNCHANGED <<call, accepted>>,
               \A a \in Attempt : pc'[a] = "body" <=> pc[a] = "body"
        PROVE  UNCHANGED <<Right, Paid>>
    BY <1>r
  <1> USE ProcAssumption
      DEF TypeOK, Proc, ledger, attempts, history, Goto, Tell, Leave, Grant,
          SetRunning, SetDone, Free, Body, RenewerEnds
  <1>1. ASSUME NEW a \in Attempt, StartWin(a) PROVE Once!Next
    <2>0. PICK k \in Key : k = call[a].key
      BY <1>k
    <2>1. status[call[a].key] = "ready"
      BY <1>1 DEF StartWin, Fenced, ReadIsFresh
    <2>2. status' = [status EXCEPT ![call[a].key] = "running"] /\ UNCHANGED Paid
      BY <1>1 DEF StartWin
    <2>3. Right' = Right \cup {<<a, call[a].key>>}
      BY <1>1 DEF StartWin
    <2>4. Once!Claim(a, k)
      BY <2>0, <2>1, <2>2, <2>3 DEF Once!Claim
    <2>. QED
      BY <2>4 DEF Once!Next
  <1>2. ASSUME NEW a \in Attempt, BodyReturns(a) \/ BodyCrashes(a) \/ BodyRaises(a) \/ Die(a),
               pc[a] = "body"
        PROVE  Once!Next
    <2>0. PICK k \in Key : k = call[a].key
      BY <1>k
    <2>1. Right' = Right \ {<<a, call[a].key>>} /\ <<a, call[a].key>> \in Right
      BY <1>2 DEF BodyReturns, BodyCrashes, BodyRaises, Die
    <2>2. /\ accepted' \in {accepted, accepted \cup {a}}
          /\ UNCHANGED <<call, status>>
      BY <1>2 DEF BodyReturns, BodyCrashes, BodyRaises, Die
    <2>3. Paid' = Paid \cup {<<a, call[a].key>>} \/ UNCHANGED Paid
      BY <2>2
    <2>4. Once!Pay(a, k)
      BY <2>0, <2>1, <2>2, <2>3 DEF Once!Pay
    <2>. QED
      BY <2>4 DEF Once!Next
  <1>3. ASSUME NEW a \in Attempt, pc[a] = "finish", Current(a),
               SetDone(call[a].key, call[a].amount), pc' = [pc EXCEPT ![a] = "release"],
               UNCHANGED <<call, accepted>>
        PROVE  Once!Next
    <2>0. PICK k \in Key : k = call[a].key
      BY <1>k
    <2>1. status[call[a].key] = "running"
      BY <1>3 DEF Honest, StartedIsRunning
    <2>2. Once!Record(k)
      BY <1>3, <1>r, <2>0, <2>1 DEF Once!Record
    <2>. QED
      BY <2>2 DEF Once!Next
  <1>4. ASSUME NEW a \in Attempt, CancelInside(a) PROVE [Once!Next]_(Once!vars)
    <2>1. CASE pc[a] = "start" /\ Current(a) /\ SetRunning(a) /\ UNCHANGED recorded
      <3>0. PICK k \in Key : k = call[a].key
        BY <1>k
      <3>1. status[call[a].key] = "ready"
        BY <2>1 DEF Fenced, ReadIsFresh
      <3>2. Once!Claim(a, k)
        BY <1>4, <1>r, <2>1, <3>0, <3>1 DEF CancelInside, Once!Claim
      <3>. QED
        BY <3>2 DEF Once!Next
    <2>2. CASE pc[a] = "finish" /\ Current(a) /\ SetDone(call[a].key, call[a].amount)
                 /\ UNCHANGED gen
      BY <1>3, <1>4, <2>2 DEF CancelInside
    <2>3. CASE UNCHANGED <<status, recorded, gen>>
      BY <1>4, <1>q, <2>3 DEF CancelInside
    <2>. QED
      BY <1>4, <2>1, <2>2, <2>3 DEF CancelInside
  <1>5. ASSUME NEW s \in Settler, SettleWrite(s) PROVE [Once!Next]_(Once!vars)
    <2>0. PICK k \in Key : k = evidence[s].key
      OBVIOUS
    <2>1. /\ evidence[s].key = k /\ pc[s] = "write"
          /\ UNCHANGED <<call, accepted>>
          /\ \A a \in Attempt : pc'[a] = "body" <=> pc[a] = "body"
      BY <1>5, <2>0 DEF SettleWrite
    <2>2. CASE UNCHANGED status
      BY <1>q, <2>1, <2>2
    <2>3. CASE Current(s) /\ evidence[s].charged /\ status[k] = "running"
      <3>1. Once!Record(k)
        BY <1>5, <1>r, <2>1, <2>3 DEF SettleWrite, Once!Record
      <3>. QED
        BY <2>1, <3>1 DEF Once!Next
    <2>4. CASE Current(s) /\ evidence[s].charged /\ status[k] # "running"
      <3>1. status[k] # "ready"
        BY <2>1, <2>4 DEF Honest, EvidenceHolds, AcceptedInEpoch
      <3>2. status[k] = "done"
        BY <2>1, <2>4, <3>1 DEF Status
      <3>3. status' = [status EXCEPT ![k] = "done"]
        BY <1>5, <2>1, <2>4 DEF SettleWrite
      <3>. QED
        BY <2>2, <3>2, <3>3
    <2>5. CASE Current(s) /\ ~ evidence[s].charged /\ status[k] = "running"
      <3>1. Once!Reopen(k)
        BY <1>5, <1>r, <2>1, <2>5 DEF SettleWrite, Once!Reopen
      <3>. QED
        BY <2>1, <3>1 DEF Once!Next
    <2>6. CASE ~ Current(s) \/ (~ evidence[s].charged /\ status[k] # "running")
      <3>1. UNCHANGED status
        BY <1>5, <2>1, <2>6 DEF SettleWrite
      <3>. QED
        BY <2>2, <3>1
    <2>. QED
      BY <2>3, <2>4, <2>5, <2>6
  <1>6. ASSUME NEW a \in Attempt,
               \/ Begin(a) \/ AcquireWin(a) \/ AcquireLose(a) \/ ReadDone(a) \/ ReadRunning(a)
               \/ ReadReady(a) \/ StartLose(a) \/ FinishFenced(a) \/ Release(a)
               \/ CancelAcquire(a) \/ CancelRelease(a) \/ RenewLost(a) \/ RenewRetake(a)
               \/ Cancel(a) \/ (Die(a) /\ pc[a] # "body")
        PROVE  UNCHANGED Once!vars
    BY <1>6, <1>q
    DEF Begin, AcquireWin, AcquireLose, ReadDone, ReadRunning, ReadReady, StartLose,
        FinishFenced, Release, CancelAcquire, CancelRelease, RenewLost, RenewRetake, Cancel, Die
  <1>7. ASSUME NEW s \in Settler,
               \/ \E k \in Key : SettleAsk(s, k)
               \/ SettleAcquire(s) \/ SettleRelease(s) \/ SettleDies(s)
        PROVE  UNCHANGED Once!vars
    BY <1>7, <1>q DEF SettleAsk, SettleAcquire, SettleRelease, SettleDies
  <1>8. CASE Expire \/ UNCHANGED vars
    BY <1>8, <1>q DEF Expire, vars
  <1>9. ASSUME NEW a \in Attempt, Finish(a) PROVE Once!Next
    BY <1>9, <1>3 DEF Finish
  <1>10. ASSUME NEW a \in Attempt, BodyReturns(a) \/ BodyCrashes(a) \/ BodyRaises(a)
         PROVE  Once!Next
    BY <1>10, <1>2 DEF BodyReturns, BodyCrashes, BodyRaises
  <1>11. ASSUME NEW a \in Attempt, Die(a) PROVE [Once!Next]_(Once!vars)
    BY <1>11, <1>2, <1>6
  <1>. QED
    BY <1>1, <1>4, <1>5, <1>6, <1>7, <1>8, <1>9, <1>10, <1>11 DEF Next, Step, Disturb, Settle

(* The leased step keeps the promise of ChargeOnce: a key is claimed by one    *)
(* attempt at a time, paid for only under that claim, and claimed again only   *)
(* after a person reopened it.                                                 *)
THEOREM StepKeepsPromise == OneSettler => (Spec => Promise)
  <1> SUFFICES ASSUME OneSettler PROVE Spec => Promise
    OBVIOUS
  <1>1. TypeOK /\ Fenced /\ Honest /\ [Next]_vars => Honest'
    BY HonestStep
  <1>2. TypeOK /\ Fenced /\ Honest /\ Truthful /\ [Next]_vars => Truthful'
    BY TruthfulStep
  <1>3. TypeOK /\ Fenced /\ Honest /\ Truthful /\ [Next]_vars => [Once!Next]_(Once!vars)
    BY PromiseStep
  <1>. QED
    BY <1>1, <1>2, <1>3, TypeInit, TypeStep, FencedInit, FencedStep, HonestInit,
       TruthfulInit, PromiseInit, PTL DEF Spec, Promise, Once!Spec
=============================================================================
