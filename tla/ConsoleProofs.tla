---------------------------- MODULE ConsoleProofs ----------------------------
(* Theorems about Console: its type invariant, and that a run is terminal    *)
(* only when its engine has come to an outcome, for any number of workers,   *)
(* requests and restarts, however they overlap; and, for one page on one     *)
(* worker, that finished runs are recorded for good and aborts reach.        *)
EXTENDS Console, TLAPS

-----------------------------------------------------------------------------
(* Writing one field of a session object. *)

LEMMA TaskWritten ==
  ASSUME NEW f \in [Request -> Session], NEW o, NEW t \in Drive \cup {None}
  PROVE  [f EXCEPT ![o].task = t] \in [Request -> Session]
  BY DEF Session

LEMMA AbortedWritten ==
  ASSUME NEW f \in [Request -> Session], NEW o, NEW b \in BOOLEAN
  PROVE  [f EXCEPT ![o].aborted = b] \in [Request -> Session]
  BY DEF Session

LEMMA TerminalWritten ==
  ASSUME NEW f \in [Request -> Session], NEW o, NEW b \in BOOLEAN
  PROVE  [f EXCEPT ![o].terminal = b] \in [Request -> Session]
  BY DEF Session

LEMMA FreshTyped == \A b \in BOOLEAN : Fresh(b) \in Session
  BY DEF Fresh, Session

-----------------------------------------------------------------------------
(* The type invariant.  A request past its lookup finds its worker's cache   *)
(* filled, and holds an object itself once it has one to hold.               *)

Unserved == Reading \cup {"idle", "over"}

Served ==
    \A r \in Request :
        /\ pc[r] \notin Unserved => cache[host[r]] \in Request
        /\ pc[r] \notin Unserved \cup {"ready"} => ref[r] \in Request

LEMMA InitTypes == Init => TypeOK /\ Served
  <1> SUFFICES ASSUME Init PROVE TypeOK /\ Served
    OBVIOUS
  <1>1. object \in [Request -> Session]
    BY FreshTyped DEF Init
  <1>2. restarts \in 0..MaxRestarts
    BY SwitchAssumption DEF Init
  <1>3. pc \in [Request -> PC] /\ kind \in [Drive -> {"run", "resume", "recover"}]
    BY DEF Init, PC
  <1>4. TypeOK
    BY <1>1, <1>2, <1>3 DEF Init, TypeOK
  <1>5. Served
    BY DEF Init, Served, Unserved
  <1>6. QED
    BY <1>4, <1>5

LEMMA ProceedTyped ==
  ASSUME TypeOK, NEW r \in Request, NEW o \in Request,
         NEW obj \in [Request -> Session], obj[o].terminal \in BOOLEAN,
         Proceed(r, o, obj)
  PROVE  /\ object' \in [Request -> Session]
         /\ ref' \in [Request -> Request \cup {None}]
         /\ snap' \in [Request -> BOOLEAN]
         /\ pc' \in [Request -> PC]
  <1>1. object' \in [Request -> Session]
    <2>1. [obj EXCEPT ![o].aborted = FALSE] \in [Request -> Session]
      BY AbortedWritten
    <2>2. QED
      BY <2>1 DEF Proceed
  <1>2. pc' \in [Request -> PC]
    BY DEF Proceed, Goto, TypeOK, PC
  <1>3. QED
    BY <1>1, <1>2 DEF Proceed, TypeOK

(* Every step keeps every variable in its type. *)
LEMMA TypesStay == TypeOK /\ Served /\ [Next]_vars => TypeOK'
  <1> USE RequestAssumption, SwitchAssumption
          DEF TypeOK, Request, PC, Attempt, InTry, InExcept, Reading,
              vars, sessions, engine, locals, attempts
  <1> SUFFICES ASSUME TypeOK, Served, [Next]_vars PROVE TypeOK'
    OBVIOUS
  <1>1. ASSUME NEW d \in Drive, Run(d) PROVE TypeOK'
    <2>1. object' \in [Request -> Session]
      BY <1>1, FreshTyped DEF Run, Fresh, Goto
    <2>2. QED
      BY <1>1, <2>1 DEF Run, Fresh, Goto
  <1>2. ASSUME NEW d \in Drive, Remember(d) PROVE TypeOK'
    BY <1>2 DEF Remember, Record, Goto
  <1>3. ASSUME NEW d \in Drive, Stream(d) PROVE TypeOK'
    <2>1. object' \in [Request -> Session] /\ cache[host[d]] \in Request
      BY <1>3, TaskWritten DEF Stream, Goto, Served, Unserved
    <2>2. QED
      BY <1>3, <2>1 DEF Stream, Goto
  <1>4. ASSUME NEW d \in Drive, Meta(d) PROVE TypeOK'
    BY <1>4 DEF Meta, Goto, At
  <1>5. ASSUME NEW d \in Drive, Started(d) PROVE TypeOK'
    BY <1>5 DEF Started, Goto, At
  <1>6. ASSUME NEW d \in Drive, Admit(d) PROVE TypeOK'
    BY <1>6 DEF Admit, Fits, Goto, At
  <1>7. ASSUME NEW d \in Drive, Refuse(d) PROVE TypeOK'
    BY <1>7 DEF Refuse, Goto, At
  <1>8. ASSUME NEW d \in Drive, Fence(d) PROVE TypeOK'
    BY <1>8 DEF Fence, Goto, At
  <1>9. ASSUME NEW d \in Drive, Finish(d) PROVE TypeOK'
    BY <1>9 DEF Finish, LetGo, Goto, At
  <1>10. ASSUME NEW d \in Drive, Park(d) PROVE TypeOK'
    BY <1>10 DEF Park, LetGo, Goto, At
  <1>11. ASSUME NEW d \in Drive, Interrupt(d) PROVE TypeOK'
    BY <1>11 DEF Interrupt, LetGo, Goto, At
  <1>12. ASSUME NEW d \in Drive, Mark(d) PROVE TypeOK'
    <2>1. object' \in [Request -> Session]
      BY <1>12, TerminalWritten DEF Mark, Goto, At
    <2>2. QED
      BY <1>12, <2>1 DEF Mark, Goto, At
  <1>13. ASSUME NEW d \in Drive, Keep(d) PROVE TypeOK'
    BY <1>13 DEF Keep, Record, Goto, At
  <1>14. ASSUME NEW d \in Drive, Report(d) PROVE TypeOK'
    <2>1. ref[d] \in Request
      BY <1>14 DEF Report, Finally, Goto, At, Served, Unserved
    <2>2. object[ref[d]].terminal \in BOOLEAN
      BY <2>1 DEF Session
    <2>3. QED
      BY <1>14, <2>2 DEF Report, Finally, Goto, At
  <1>15. ASSUME NEW d \in Drive, Close(d) PROVE TypeOK'
    BY <1>15 DEF Close, Record, Goto, At
  <1>16. ASSUME NEW d \in Drive, CancelInTry(d) PROVE TypeOK'
    BY <1>16 DEF CancelInTry, MayLand, Record, Goto
  <1>17. ASSUME NEW d \in Drive, Wind(d) PROVE TypeOK'
    <2>1. ref[d] \in Request
      BY <1>17 DEF Wind, Finally, Goto, At, Served, Unserved
    <2>2. object[ref[d]].terminal \in BOOLEAN
      BY <2>1 DEF Session
    <2>3. QED
      BY <1>17, <2>2 DEF Wind, Finally, Goto, At
  <1>18. ASSUME NEW d \in Drive, CancelInExcept(d) PROVE TypeOK'
    <2>1. ref[d] \in Request
      BY <1>18 DEF CancelInExcept, Finally, Goto, Served, Unserved
    <2>2. object[ref[d]].terminal \in BOOLEAN
      BY <2>1 DEF Session
    <2>3. QED
      BY <1>18, <2>2 DEF CancelInExcept, Finally, Goto
  <1>19. ASSUME NEW d \in Drive, CancelOutside(d) PROVE TypeOK'
    BY <1>19 DEF CancelOutside, MayLand, Record, Goto
  <1>20. ASSUME NEW d \in Drive, EndOfStream(d) PROVE TypeOK'
    <2>1. object' \in [Request -> Session]
      BY <1>20, TaskWritten DEF EndOfStream, Shut
    <2>2. QED
      BY <1>20, <2>1 DEF EndOfStream, Shut
  <1>21. ASSUME NEW d \in Drive, Drain(d) PROVE TypeOK'
    BY <1>21 DEF Drain, At
  <1>22. ASSUME NEW d \in Drive, Disconnect(d) PROVE TypeOK'
    <2>1. object' \in [Request -> Session]
      BY <1>22, TaskWritten DEF Disconnect, Shut
    <2>2. QED
      BY <1>22, <2>1 DEF Disconnect, Shut
  <1>23. ASSUME NEW r \in Request, Post(r) PROVE TypeOK'
    BY <1>23 DEF Post, Goto
  <1>24. ASSUME NEW r \in Request, Hit(r) PROVE TypeOK'
    <2>1. cache[host[r]] \in Request
      BY <1>24 DEF Hit
    <2>2. object[cache[host[r]]].terminal \in BOOLEAN
      BY <2>1 DEF Session
    <2>3. object' \in [Request -> Session] /\ ref' \in [Request -> Request \cup {None}]
          /\ snap' \in [Request -> BOOLEAN] /\ pc' \in [Request -> PC]
      BY <1>24, <2>1, <2>2, ProceedTyped DEF Hit
    <2>4. QED
      BY <1>24, <2>3 DEF Hit
  <1>25. ASSUME NEW r \in Request, Miss(r) PROVE TypeOK'
    BY <1>25 DEF Miss, Goto
  <1>26. ASSUME NEW r \in Request, Fill(r) PROVE TypeOK'
    <2> DEFINE obj == [object EXCEPT ![r] = Fresh(snap[r])]
    <2>1. obj \in [Request -> Session] /\ obj[r].terminal \in BOOLEAN
      BY FreshTyped DEF Session
    <2>2. object' \in [Request -> Session] /\ ref' \in [Request -> Request \cup {None}]
          /\ snap' \in [Request -> BOOLEAN] /\ pc' \in [Request -> PC]
      BY <1>26, <2>1, ProceedTyped DEF Fill
    <2>3. QED
      BY <1>26, <2>2 DEF Fill
  <1>27. ASSUME NEW s \in Stop, List(s) PROVE TypeOK'
    BY <1>27 DEF List, Goto
  <1>28. ASSUME NEW s \in Stop, Drop(s) PROVE TypeOK'
    BY <1>28 DEF Drop, Goto
  <1>29. ASSUME NEW s \in Stop, Trip(s) PROVE TypeOK'
    <2>1. object' \in [Request -> Session]
      BY <1>29, AbortedWritten DEF Trip, Goto
    <2>2. QED
      BY <1>29, <2>1 DEF Trip, Goto
  <1>30. ASSUME NEW n \in Nudge, Submit(n) PROVE TypeOK'
    BY <1>30 DEF Submit, Goto
  <1>31. ASSUME NEW w \in Worker, Restart(w) PROVE TypeOK'
    BY <1>31 DEF Restart
  <1>32. ASSUME Lapse PROVE TypeOK'
    BY <1>32 DEF Lapse
  <1>33. CASE UNCHANGED vars
    BY <1>33
  <1> QED
    BY <1>1, <1>2, <1>3, <1>4, <1>5, <1>6, <1>7, <1>8, <1>9, <1>10, <1>11,
       <1>12, <1>13, <1>14, <1>15, <1>16, <1>17, <1>18, <1>19, <1>20,
       <1>21, <1>22, <1>23, <1>24, <1>25, <1>26, <1>27, <1>28, <1>29,
       <1>30, <1>31, <1>32, <1>33
       DEF Next, Progress, Looks

(* Every step serves the requests that are past their lookup. *)
LEMMA ServedStays == TypeOK /\ Served /\ [Next]_vars => Served'
  <1> USE RequestAssumption, SwitchAssumption
          DEF TypeOK, Request, Served, Unserved, Attempt, InTry, InExcept, Reading,
              vars, sessions, engine, locals, attempts
  <1> SUFFICES ASSUME TypeOK, Served, [Next]_vars PROVE Served'
    OBVIOUS
  <1>1. ASSUME NEW d \in Drive, Run(d) PROVE Served'
    BY <1>1 DEF Run, Fresh, Goto
  <1>2. ASSUME NEW d \in Drive, Remember(d) PROVE Served'
    BY <1>2 DEF Remember, Record, Goto
  <1>3. ASSUME NEW d \in Drive, Stream(d) PROVE Served'
    BY <1>3 DEF Stream, Goto
  <1>4. ASSUME NEW d \in Drive, Meta(d) PROVE Served'
    BY <1>4 DEF Meta, Goto, At
  <1>5. ASSUME NEW d \in Drive, Started(d) PROVE Served'
    BY <1>5 DEF Started, Goto, At
  <1>6. ASSUME NEW d \in Drive, Admit(d) PROVE Served'
    BY <1>6 DEF Admit, Fits, Goto, At
  <1>7. ASSUME NEW d \in Drive, Refuse(d) PROVE Served'
    BY <1>7 DEF Refuse, Goto, At
  <1>8. ASSUME NEW d \in Drive, Fence(d) PROVE Served'
    BY <1>8 DEF Fence, Goto, At
  <1>9. ASSUME NEW d \in Drive, Finish(d) PROVE Served'
    BY <1>9 DEF Finish, LetGo, Goto, At
  <1>10. ASSUME NEW d \in Drive, Park(d) PROVE Served'
    BY <1>10 DEF Park, LetGo, Goto, At
  <1>11. ASSUME NEW d \in Drive, Interrupt(d) PROVE Served'
    BY <1>11 DEF Interrupt, LetGo, Goto, At
  <1>12. ASSUME NEW d \in Drive, Mark(d) PROVE Served'
    BY <1>12 DEF Mark, Goto, At
  <1>13. ASSUME NEW d \in Drive, Keep(d) PROVE Served'
    BY <1>13 DEF Keep, Record, Goto, At
  <1>14. ASSUME NEW d \in Drive, Report(d) PROVE Served'
    BY <1>14 DEF Report, Finally, Goto, At
  <1>15. ASSUME NEW d \in Drive, Close(d) PROVE Served'
    BY <1>15 DEF Close, Record, Goto, At
  <1>16. ASSUME NEW d \in Drive, CancelInTry(d) PROVE Served'
    BY <1>16 DEF CancelInTry, MayLand, Record, Goto
  <1>17. ASSUME NEW d \in Drive, Wind(d) PROVE Served'
    BY <1>17 DEF Wind, Finally, Goto, At
  <1>18. ASSUME NEW d \in Drive, CancelInExcept(d) PROVE Served'
    BY <1>18 DEF CancelInExcept, Finally, Goto
  <1>19. ASSUME NEW d \in Drive, CancelOutside(d) PROVE Served'
    BY <1>19 DEF CancelOutside, MayLand, Record, Goto
  <1>20. ASSUME NEW d \in Drive, EndOfStream(d) PROVE Served'
    BY <1>20 DEF EndOfStream, Shut
  <1>21. ASSUME NEW d \in Drive, Drain(d) PROVE Served'
    BY <1>21 DEF Drain, At
  <1>22. ASSUME NEW d \in Drive, Disconnect(d) PROVE Served'
    BY <1>22 DEF Disconnect, Shut
  <1>23. ASSUME NEW r \in Request, Post(r) PROVE Served'
    BY <1>23 DEF Post, Goto
  <1>24. ASSUME NEW r \in Request, Hit(r) PROVE Served'
    BY <1>24 DEF Hit, Proceed, Goto
  <1>25. ASSUME NEW r \in Request, Miss(r) PROVE Served'
    BY <1>25 DEF Miss, Goto
  <1>26. ASSUME NEW r \in Request, Fill(r) PROVE Served'
    BY <1>26 DEF Fill, Proceed, Fresh, Goto
  <1>27. ASSUME NEW s \in Stop, List(s) PROVE Served'
    BY <1>27 DEF List, Goto
  <1>28. ASSUME NEW s \in Stop, Drop(s) PROVE Served'
    BY <1>28 DEF Drop, Goto
  <1>29. ASSUME NEW s \in Stop, Trip(s) PROVE Served'
    BY <1>29 DEF Trip, Goto
  <1>30. ASSUME NEW n \in Nudge, Submit(n) PROVE Served'
    BY <1>30 DEF Submit, Goto
  <1>31. ASSUME NEW w \in Worker, Restart(w) PROVE Served'
    BY <1>31 DEF Restart
  <1>32. ASSUME Lapse PROVE Served'
    BY <1>32 DEF Lapse
  <1>33. CASE UNCHANGED vars
    BY <1>33
  <1> QED
    BY <1>1, <1>2, <1>3, <1>4, <1>5, <1>6, <1>7, <1>8, <1>9, <1>10, <1>11,
       <1>12, <1>13, <1>14, <1>15, <1>16, <1>17, <1>18, <1>19, <1>20,
       <1>21, <1>22, <1>23, <1>24, <1>25, <1>26, <1>27, <1>28, <1>29,
       <1>30, <1>31, <1>32, <1>33
       DEF Next, Progress, Looks

(* Every reachable state of Console is well typed. *)
THEOREM TypeCorrect == Spec => []TypeOK
  <1>1. Init => TypeOK /\ Served
    BY InitTypes
  <1>2. TypeOK /\ Served /\ [Next]_vars => (TypeOK /\ Served)'
    BY TypesStay, ServedStays
  <1>3. QED
    BY <1>1, <1>2, PTL DEF Spec

-----------------------------------------------------------------------------
(* Terminal means finished.  The flag travels: from the outcome into the     *)
(* cached object, from an object into a snapshot, from a snapshot into the   *)
(* record, and from the record into another worker's object.  None of them   *)
(* is ahead of the engine, and the engine never leaves "finished", which     *)
(* only a branch nobody holds can be in.                                     *)

Settled ==
    /\ holder # None => branch = "running"
    /\ saved = "terminal" => branch = "finished"
    /\ \A r \in Request : object[r].terminal => branch = "finished"
    /\ \A r \in Request : snap[r] => branch = "finished"
    /\ \A d \in Drive : pc[d] = "marking" => branch = "finished"

LEMMA InitSettled == Init => Settled
  BY DEF Init, Settled, Fresh, Request

LEMMA SettledStays == TypeOK /\ Served /\ Settled /\ [Next]_vars => Settled'
  <1> USE RequestAssumption, SwitchAssumption
          DEF TypeOK, Request, Settled, Attempt, InTry, InExcept, Reading,
              vars, sessions, engine, locals, attempts
  <1> SUFFICES ASSUME TypeOK, Served, Settled, [Next]_vars PROVE Settled'
    OBVIOUS
  <1>1. ASSUME NEW d \in Drive, Run(d) PROVE Settled'
    BY <1>1 DEF Run, Fresh, Goto
  <1>2. ASSUME NEW d \in Drive, Remember(d) PROVE Settled'
    BY <1>2 DEF Remember, Record, Goto
  <1>3. ASSUME NEW d \in Drive, Stream(d) PROVE Settled'
    BY <1>3 DEF Stream, Goto
  <1>4. ASSUME NEW d \in Drive, Meta(d) PROVE Settled'
    BY <1>4 DEF Meta, Goto, At
  <1>5. ASSUME NEW d \in Drive, Started(d) PROVE Settled'
    BY <1>5 DEF Started, Goto, At
  <1>6. ASSUME NEW d \in Drive, Admit(d) PROVE Settled'
    BY <1>6 DEF Admit, Fits, Goto, At
  <1>7. ASSUME NEW d \in Drive, Refuse(d) PROVE Settled'
    BY <1>7 DEF Refuse, Goto, At
  <1>8. ASSUME NEW d \in Drive, Fence(d) PROVE Settled'
    BY <1>8 DEF Fence, Goto, At
  <1>9. ASSUME NEW d \in Drive, Finish(d) PROVE Settled'
    BY <1>9 DEF Finish, LetGo, Goto, At
  <1>10. ASSUME NEW d \in Drive, Park(d) PROVE Settled'
    BY <1>10 DEF Park, LetGo, Goto, At
  <1>11. ASSUME NEW d \in Drive, Interrupt(d) PROVE Settled'
    BY <1>11 DEF Interrupt, LetGo, Goto, At
  <1>12. ASSUME NEW d \in Drive, Mark(d) PROVE Settled'
    BY <1>12 DEF Mark, Goto, At
  <1>13. ASSUME NEW d \in Drive, Keep(d) PROVE Settled'
    BY <1>13 DEF Keep, Record, Goto, At
  <1>14. ASSUME NEW d \in Drive, Report(d) PROVE Settled'
    <2>1. ref[d] \in Request
      BY <1>14 DEF Report, Finally, Goto, At, Served, Unserved
    <2>2. snap'[d] => branch = "finished"
      BY <1>14, <2>1 DEF Report, Finally, Goto, At
    <2>3. \A r \in Request : snap'[r] => branch = "finished"
      BY <1>14, <2>2 DEF Report, Finally, Goto, At
    <2>4. QED
      BY <1>14, <2>3 DEF Report, Finally, Goto, At
  <1>15. ASSUME NEW d \in Drive, Close(d) PROVE Settled'
    BY <1>15 DEF Close, Record, Goto, At
  <1>16. ASSUME NEW d \in Drive, CancelInTry(d) PROVE Settled'
    BY <1>16 DEF CancelInTry, MayLand, Record, Goto
  <1>17. ASSUME NEW d \in Drive, Wind(d) PROVE Settled'
    <2>1. ref[d] \in Request
      BY <1>17 DEF Wind, Finally, Goto, At, Served, Unserved
    <2>2. snap'[d] => branch = "finished"
      BY <1>17, <2>1 DEF Wind, Finally, Goto, At
    <2>3. \A r \in Request : snap'[r] => branch = "finished"
      BY <1>17, <2>2 DEF Wind, Finally, Goto, At
    <2>4. QED
      BY <1>17, <2>3 DEF Wind, Finally, Goto, At
  <1>18. ASSUME NEW d \in Drive, CancelInExcept(d) PROVE Settled'
    <2>1. ref[d] \in Request
      BY <1>18 DEF CancelInExcept, Finally, Goto, Served, Unserved
    <2>2. snap'[d] => branch = "finished"
      BY <1>18, <2>1 DEF CancelInExcept, Finally, Goto
    <2>3. \A r \in Request : snap'[r] => branch = "finished"
      BY <1>18, <2>2 DEF CancelInExcept, Finally, Goto
    <2>4. QED
      BY <1>18, <2>3 DEF CancelInExcept, Finally, Goto
  <1>19. ASSUME NEW d \in Drive, CancelOutside(d) PROVE Settled'
    BY <1>19 DEF CancelOutside, MayLand, Record, Goto
  <1>20. ASSUME NEW d \in Drive, EndOfStream(d) PROVE Settled'
    BY <1>20 DEF EndOfStream, Shut
  <1>21. ASSUME NEW d \in Drive, Drain(d) PROVE Settled'
    BY <1>21 DEF Drain, At
  <1>22. ASSUME NEW d \in Drive, Disconnect(d) PROVE Settled'
    BY <1>22 DEF Disconnect, Shut
  <1>23. ASSUME NEW r \in Request, Post(r) PROVE Settled'
    BY <1>23 DEF Post, Goto
  <1>24. ASSUME NEW r \in Request, Hit(r) PROVE Settled'
    <2>1. cache[host[r]] \in Request
      BY <1>24 DEF Hit
    <2>2. \A q \in Request : object'[q].terminal => object[q].terminal
      BY <1>24, <2>1 DEF Hit, Proceed, Session
    <2>3. \A q \in Request : snap'[q] => branch = "finished"
      BY <1>24, <2>1 DEF Hit, Proceed
    <2>4. \A d \in Drive : pc'[d] = "marking" => pc[d] = "marking"
      BY <1>24 DEF Hit, Proceed, Goto
    <2>5. QED
      BY <1>24, <2>2, <2>3, <2>4 DEF Hit
  <1>25. ASSUME NEW r \in Request, Miss(r) PROVE Settled'
    BY <1>25 DEF Miss, Goto
  <1>26. ASSUME NEW r \in Request, Fill(r) PROVE Settled'
    BY <1>26 DEF Fill, Proceed, Fresh, Goto
  <1>27. ASSUME NEW s \in Stop, List(s) PROVE Settled'
    BY <1>27 DEF List, Goto
  <1>28. ASSUME NEW s \in Stop, Drop(s) PROVE Settled'
    BY <1>28 DEF Drop, Goto
  <1>29. ASSUME NEW s \in Stop, Trip(s) PROVE Settled'
    BY <1>29 DEF Trip, Goto
  <1>30. ASSUME NEW n \in Nudge, Submit(n) PROVE Settled'
    BY <1>30 DEF Submit, Goto
  <1>31. ASSUME NEW w \in Worker, Restart(w) PROVE Settled'
    BY <1>31 DEF Restart
  <1>32. ASSUME Lapse PROVE Settled'
    BY <1>32 DEF Lapse
  <1>33. CASE UNCHANGED vars
    BY <1>33
  <1> QED
    BY <1>1, <1>2, <1>3, <1>4, <1>5, <1>6, <1>7, <1>8, <1>9, <1>10, <1>11,
       <1>12, <1>13, <1>14, <1>15, <1>16, <1>17, <1>18, <1>19, <1>20,
       <1>21, <1>22, <1>23, <1>24, <1>25, <1>26, <1>27, <1>28, <1>29,
       <1>30, <1>31, <1>32, <1>33
       DEF Next, Progress, Looks

(* A run is terminal, in the record and in every session object, only when   *)
(* the engine has come to an outcome: whichever workers rebuilt, aborted or  *)
(* lost its sessions, and however drives overlapped.                         *)
THEOREM TerminalIsTrue == Spec => []TerminalMeansFinished
  <1>1. Init => TypeOK /\ Served /\ Settled
    BY InitTypes, InitSettled
  <1>2. TypeOK /\ Served /\ Settled /\ [Next]_vars => (TypeOK /\ Served /\ Settled)'
    BY TypesStay, ServedStays, SettledStays
  <1>3. Settled => TerminalMeansFinished
    BY DEF Settled, TerminalMeansFinished
  <1>4. QED
    BY <1>1, <1>2, <1>3, PTL DEF Spec

-----------------------------------------------------------------------------
(* One page on one worker.  What follows holds where a branch is driven by   *)
(* one request at a time, on one worker that does not restart.  The image    *)
(* runs one (Dockerfile:25-28), and one tab drives it.  The runs with        *)
(* overlapping drives, and with two workers, show that it does not hold      *)
(* without.                                                                  *)
OneAtATime ==
    /\ \A v, w \in Worker : v = w
    /\ Overlap = "never" /\ MaxRestarts = 0

Serving == Attempt \cup {"remember", "listing", "dropping", "tripping", "submitting"}

(* Every request after the first finds the object of the first in the cache. *)
OneSession ==
    /\ saved = "none" => \A r \in Request : pc[r] = "idle"
    /\ saved # "none" => \A w \in Worker : cache[w] \in Request
    /\ \A r \in Request :
        /\ pc[r] # "filling"
        /\ pc[r] \in Serving => ref[r] = cache[host[r]]
    /\ \A d \in Drive :
        /\ pc[d] = "idle" => stream[d] = "none"
        /\ stream[d] = "open" => ref[d] = cache[host[d]]

OneDrive == \A d, e \in Drive : Live(d) /\ Live(e) => d = e

(* The object names the task of the open stream, and an attempt that has no  *)
(* cancellation on its way, and has not been stopped by one, has its stream. *)
Reachable ==
    \A d \in Drive :
        /\ stream[d] = "open" => object[cache[host[d]]].task = d
        /\ pc[d] \in Attempt \ {"winding", "closing"} =>
             d \in cancelled \/ stream[d] = "open"

(* The record is not ahead of the object, nor what is about to be written;   *)
(* and what is about to be written is not behind the record.                 *)
Flag(r) == object[cache[host[r]]].terminal

Flagged ==
    /\ saved = "terminal" => \A r \in Request : Flag(r)
    /\ \A d \in Drive :
        /\ pc[d] = "keeping" => snap[d]
        /\ pc[d] \in {"remember", "keeping", "closing"} =>
             /\ snap[d] => Flag(d)
             /\ saved = "terminal" => snap[d]

(* Where nothing was cancelled, an outcome is on its way to the record.      *)
Kept ==
    struck = {} =>
        /\ cancelled = {}
        /\ branch = "finished" =>
             saved = "terminal" \/ \E d \in Drive : pc[d] \in {"marking", "keeping"}

(* The cache is filled once, by the run. *)
LEMMA OneSessionStays ==
  OneAtATime /\ TypeOK /\ OneSession
  /\ [Next]_vars => OneSession'
  <1> USE RequestAssumption, SwitchAssumption
          DEF TypeOK, Request, OneSession, OneAtATime, Serving, Attempt,
              InTry, InExcept, Reading,
              vars, sessions, engine, locals, attempts
  <1> SUFFICES ASSUME OneAtATime, TypeOK, OneSession,
              [Next]_vars PROVE OneSession'
    OBVIOUS
  <1>1. ASSUME NEW d \in Drive, Run(d) PROVE OneSession'
    BY <1>1 DEF Run, Fresh, Goto
  <1>2. ASSUME NEW d \in Drive, Remember(d) PROVE OneSession'
    BY <1>2 DEF Remember, Record, Goto
  <1>3. ASSUME NEW d \in Drive, Stream(d) PROVE OneSession'
    BY <1>3 DEF Stream, Goto
  <1>4. ASSUME NEW d \in Drive, Meta(d) PROVE OneSession'
    BY <1>4 DEF Meta, Goto, At
  <1>5. ASSUME NEW d \in Drive, Started(d) PROVE OneSession'
    BY <1>5 DEF Started, Goto, At
  <1>6. ASSUME NEW d \in Drive, Admit(d) PROVE OneSession'
    BY <1>6 DEF Admit, Fits, Goto, At
  <1>7. ASSUME NEW d \in Drive, Refuse(d) PROVE OneSession'
    BY <1>7 DEF Refuse, Goto, At
  <1>8. ASSUME NEW d \in Drive, Fence(d) PROVE OneSession'
    BY <1>8 DEF Fence, Goto, At
  <1>9. ASSUME NEW d \in Drive, Finish(d) PROVE OneSession'
    BY <1>9 DEF Finish, LetGo, Goto, At
  <1>10. ASSUME NEW d \in Drive, Park(d) PROVE OneSession'
    BY <1>10 DEF Park, LetGo, Goto, At
  <1>11. ASSUME NEW d \in Drive, Interrupt(d) PROVE OneSession'
    BY <1>11 DEF Interrupt, LetGo, Goto, At
  <1>12. ASSUME NEW d \in Drive, Mark(d) PROVE OneSession'
    BY <1>12 DEF Mark, Goto, At
  <1>13. ASSUME NEW d \in Drive, Keep(d) PROVE OneSession'
    BY <1>13 DEF Keep, Record, Goto, At
  <1>14. ASSUME NEW d \in Drive, Report(d) PROVE OneSession'
    BY <1>14 DEF Report, Finally, Goto, At
  <1>15. ASSUME NEW d \in Drive, Close(d) PROVE OneSession'
    BY <1>15 DEF Close, Record, Goto, At
  <1>16. ASSUME NEW d \in Drive, CancelInTry(d) PROVE OneSession'
    BY <1>16 DEF CancelInTry, MayLand, Record, Goto
  <1>17. ASSUME NEW d \in Drive, Wind(d) PROVE OneSession'
    BY <1>17 DEF Wind, Finally, Goto, At
  <1>18. ASSUME NEW d \in Drive, CancelInExcept(d) PROVE OneSession'
    BY <1>18 DEF CancelInExcept, Finally, Goto
  <1>19. ASSUME NEW d \in Drive, CancelOutside(d) PROVE OneSession'
    BY <1>19 DEF CancelOutside, MayLand, Record, Goto
  <1>20. ASSUME NEW d \in Drive, EndOfStream(d) PROVE OneSession'
    BY <1>20 DEF EndOfStream, Shut
  <1>21. ASSUME NEW d \in Drive, Drain(d) PROVE OneSession'
    BY <1>21 DEF Drain, At
  <1>22. ASSUME NEW d \in Drive, Disconnect(d) PROVE OneSession'
    BY <1>22 DEF Disconnect, Shut
  <1>23. ASSUME NEW r \in Request, Post(r) PROVE OneSession'
    BY <1>23 DEF Post, Known, MayDrive, Goto
  <1>24. ASSUME NEW r \in Request, Hit(r) PROVE OneSession'
    BY <1>24 DEF Hit, Proceed, Goto
  <1>25. ASSUME NEW r \in Request, Miss(r) PROVE OneSession'
    BY <1>25 DEF Miss, Goto
  <1>26. ASSUME NEW r \in Request, Fill(r) PROVE OneSession'
    BY <1>26 DEF Fill, Proceed, Fresh, Goto
  <1>27. ASSUME NEW s \in Stop, List(s) PROVE OneSession'
    BY <1>27 DEF List, Goto
  <1>28. ASSUME NEW s \in Stop, Drop(s) PROVE OneSession'
    BY <1>28 DEF Drop, Goto
  <1>29. ASSUME NEW s \in Stop, Trip(s) PROVE OneSession'
    BY <1>29 DEF Trip, Goto
  <1>30. ASSUME NEW n \in Nudge, Submit(n) PROVE OneSession'
    BY <1>30 DEF Submit, Goto
  <1>31. ASSUME NEW w \in Worker, Restart(w) PROVE OneSession'
    BY <1>31 DEF Restart
  <1>32. ASSUME Lapse PROVE OneSession'
    BY <1>32 DEF Lapse
  <1>33. CASE UNCHANGED vars
    BY <1>33
  <1> QED
    BY <1>1, <1>2, <1>3, <1>4, <1>5, <1>6, <1>7, <1>8, <1>9, <1>10, <1>11,
              <1>12, <1>13, <1>14, <1>15, <1>16, <1>17, <1>18, <1>19, <1>20,
              <1>21, <1>22, <1>23, <1>24, <1>25, <1>26, <1>27, <1>28, <1>29,
              <1>30, <1>31, <1>32, <1>33
       DEF Next, Progress, Looks
(* A drive is posted when no other is going on. *)
LEMMA OneDriveStays ==
  OneAtATime /\ TypeOK /\ OneSession /\ OneDrive
  /\ [Next]_vars => OneDrive'
  <1> USE RequestAssumption, SwitchAssumption
          DEF TypeOK, Request, OneDrive, OneAtATime, OneSession, Live,
              Attempt, InTry, InExcept, Reading,
              vars, sessions, engine, locals, attempts
  <1> SUFFICES ASSUME OneAtATime, TypeOK, OneSession, OneDrive,
              [Next]_vars PROVE OneDrive'
    OBVIOUS
  <1>1. ASSUME NEW d \in Drive, Run(d) PROVE OneDrive'
    BY <1>1 DEF Run, Fresh, Goto
  <1>2. ASSUME NEW d \in Drive, Remember(d) PROVE OneDrive'
    BY <1>2 DEF Remember, Record, Goto
  <1>3. ASSUME NEW d \in Drive, Stream(d) PROVE OneDrive'
    BY <1>3 DEF Stream, Goto
  <1>4. ASSUME NEW d \in Drive, Meta(d) PROVE OneDrive'
    BY <1>4 DEF Meta, Goto, At
  <1>5. ASSUME NEW d \in Drive, Started(d) PROVE OneDrive'
    BY <1>5 DEF Started, Goto, At
  <1>6. ASSUME NEW d \in Drive, Admit(d) PROVE OneDrive'
    BY <1>6 DEF Admit, Fits, Goto, At
  <1>7. ASSUME NEW d \in Drive, Refuse(d) PROVE OneDrive'
    BY <1>7 DEF Refuse, Goto, At
  <1>8. ASSUME NEW d \in Drive, Fence(d) PROVE OneDrive'
    BY <1>8 DEF Fence, Goto, At
  <1>9. ASSUME NEW d \in Drive, Finish(d) PROVE OneDrive'
    BY <1>9 DEF Finish, LetGo, Goto, At
  <1>10. ASSUME NEW d \in Drive, Park(d) PROVE OneDrive'
    BY <1>10 DEF Park, LetGo, Goto, At
  <1>11. ASSUME NEW d \in Drive, Interrupt(d) PROVE OneDrive'
    BY <1>11 DEF Interrupt, LetGo, Goto, At
  <1>12. ASSUME NEW d \in Drive, Mark(d) PROVE OneDrive'
    BY <1>12 DEF Mark, Goto, At
  <1>13. ASSUME NEW d \in Drive, Keep(d) PROVE OneDrive'
    BY <1>13 DEF Keep, Record, Goto, At
  <1>14. ASSUME NEW d \in Drive, Report(d) PROVE OneDrive'
    BY <1>14 DEF Report, Finally, Goto, At
  <1>15. ASSUME NEW d \in Drive, Close(d) PROVE OneDrive'
    BY <1>15 DEF Close, Record, Goto, At
  <1>16. ASSUME NEW d \in Drive, CancelInTry(d) PROVE OneDrive'
    BY <1>16 DEF CancelInTry, MayLand, Record, Goto
  <1>17. ASSUME NEW d \in Drive, Wind(d) PROVE OneDrive'
    BY <1>17 DEF Wind, Finally, Goto, At
  <1>18. ASSUME NEW d \in Drive, CancelInExcept(d) PROVE OneDrive'
    BY <1>18 DEF CancelInExcept, Finally, Goto
  <1>19. ASSUME NEW d \in Drive, CancelOutside(d) PROVE OneDrive'
    BY <1>19 DEF CancelOutside, MayLand, Record, Goto
  <1>20. ASSUME NEW d \in Drive, EndOfStream(d) PROVE OneDrive'
    BY <1>20 DEF EndOfStream, Shut
  <1>21. ASSUME NEW d \in Drive, Drain(d) PROVE OneDrive'
    BY <1>21 DEF Drain, At
  <1>22. ASSUME NEW d \in Drive, Disconnect(d) PROVE OneDrive'
    BY <1>22 DEF Disconnect, Shut
  <1>23. ASSUME NEW r \in Request, Post(r) PROVE OneDrive'
    BY <1>23 DEF Post, Known, MayDrive, Goto
  <1>24. ASSUME NEW r \in Request, Hit(r) PROVE OneDrive'
    BY <1>24 DEF Hit, Proceed, Goto
  <1>25. ASSUME NEW r \in Request, Miss(r) PROVE OneDrive'
    BY <1>25 DEF Miss, Goto
  <1>26. ASSUME NEW r \in Request, Fill(r) PROVE OneDrive'
    BY <1>26 DEF Fill, Proceed, Fresh, Goto
  <1>27. ASSUME NEW s \in Stop, List(s) PROVE OneDrive'
    BY <1>27 DEF List, Goto
  <1>28. ASSUME NEW s \in Stop, Drop(s) PROVE OneDrive'
    BY <1>28 DEF Drop, Goto
  <1>29. ASSUME NEW s \in Stop, Trip(s) PROVE OneDrive'
    BY <1>29 DEF Trip, Goto
  <1>30. ASSUME NEW n \in Nudge, Submit(n) PROVE OneDrive'
    BY <1>30 DEF Submit, Goto
  <1>31. ASSUME NEW w \in Worker, Restart(w) PROVE OneDrive'
    BY <1>31 DEF Restart
  <1>32. ASSUME Lapse PROVE OneDrive'
    BY <1>32 DEF Lapse
  <1>33. CASE UNCHANGED vars
    BY <1>33
  <1> QED
    BY <1>1, <1>2, <1>3, <1>4, <1>5, <1>6, <1>7, <1>8, <1>9, <1>10, <1>11,
              <1>12, <1>13, <1>14, <1>15, <1>16, <1>17, <1>18, <1>19, <1>20,
              <1>21, <1>22, <1>23, <1>24, <1>25, <1>26, <1>27, <1>28, <1>29,
              <1>30, <1>31, <1>32, <1>33
       DEF Next, Progress, Looks
(* A stream that closes cancels its own attempt, and there is no other. *)
LEMMA ReachableStays ==
  OneAtATime /\ TypeOK /\ Served /\ OneSession /\ OneDrive /\ Reachable
  /\ [Next]_vars => Reachable'
  <1> USE RequestAssumption, SwitchAssumption
          DEF TypeOK, Request, Reachable, OneAtATime, OneSession, OneDrive,
              Serving, Live, Session, Attempt, InTry, InExcept, Reading,
              vars, sessions, engine, locals, attempts
  <1> SUFFICES ASSUME OneAtATime, TypeOK, Served, OneSession, OneDrive,
              Reachable, [Next]_vars PROVE Reachable'
    OBVIOUS
  <1>1. ASSUME NEW d \in Drive, Run(d) PROVE Reachable'
    BY <1>1 DEF Run, Fresh, Goto
  <1>2. ASSUME NEW d \in Drive, Remember(d) PROVE Reachable'
    BY <1>2 DEF Remember, Record, Goto
  <1>3. ASSUME NEW d \in Drive, Stream(d) PROVE Reachable'
    BY <1>3 DEF Stream, Goto
  <1>4. ASSUME NEW d \in Drive, Meta(d) PROVE Reachable'
    BY <1>4 DEF Meta, Goto, At
  <1>5. ASSUME NEW d \in Drive, Started(d) PROVE Reachable'
    BY <1>5 DEF Started, Goto, At
  <1>6. ASSUME NEW d \in Drive, Admit(d) PROVE Reachable'
    BY <1>6 DEF Admit, Fits, Goto, At
  <1>7. ASSUME NEW d \in Drive, Refuse(d) PROVE Reachable'
    BY <1>7 DEF Refuse, Goto, At
  <1>8. ASSUME NEW d \in Drive, Fence(d) PROVE Reachable'
    BY <1>8 DEF Fence, Goto, At
  <1>9. ASSUME NEW d \in Drive, Finish(d) PROVE Reachable'
    BY <1>9 DEF Finish, LetGo, Goto, At
  <1>10. ASSUME NEW d \in Drive, Park(d) PROVE Reachable'
    BY <1>10 DEF Park, LetGo, Goto, At
  <1>11. ASSUME NEW d \in Drive, Interrupt(d) PROVE Reachable'
    BY <1>11 DEF Interrupt, LetGo, Goto, At
  <1>12. ASSUME NEW d \in Drive, Mark(d) PROVE Reachable'
    BY <1>12 DEF Mark, Goto, At
  <1>13. ASSUME NEW d \in Drive, Keep(d) PROVE Reachable'
    BY <1>13 DEF Keep, Record, Goto, At
  <1>14. ASSUME NEW d \in Drive, Report(d) PROVE Reachable'
    BY <1>14 DEF Report, Finally, Goto, At
  <1>15. ASSUME NEW d \in Drive, Close(d) PROVE Reachable'
    BY <1>15 DEF Close, Record, Goto, At
  <1>16. ASSUME NEW d \in Drive, CancelInTry(d) PROVE Reachable'
    BY <1>16 DEF CancelInTry, MayLand, Record, Goto
  <1>17. ASSUME NEW d \in Drive, Wind(d) PROVE Reachable'
    BY <1>17 DEF Wind, Finally, Goto, At
  <1>18. ASSUME NEW d \in Drive, CancelInExcept(d) PROVE Reachable'
    BY <1>18 DEF CancelInExcept, Finally, Goto
  <1>19. ASSUME NEW d \in Drive, CancelOutside(d) PROVE Reachable'
    BY <1>19 DEF CancelOutside, MayLand, Record, Goto
  <1>20. ASSUME NEW d \in Drive, EndOfStream(d) PROVE Reachable'
    BY <1>20 DEF EndOfStream, Shut
  <1>21. ASSUME NEW d \in Drive, Drain(d) PROVE Reachable'
    BY <1>21 DEF Drain, At
  <1>22. ASSUME NEW d \in Drive, Disconnect(d) PROVE Reachable'
    BY <1>22 DEF Disconnect, Shut
  <1>23. ASSUME NEW r \in Request, Post(r) PROVE Reachable'
    BY <1>23 DEF Post, Known, MayDrive, Goto
  <1>24. ASSUME NEW r \in Request, Hit(r) PROVE Reachable'
    BY <1>24 DEF Hit, Proceed, Goto
  <1>25. ASSUME NEW r \in Request, Miss(r) PROVE Reachable'
    BY <1>25 DEF Miss, Goto
  <1>26. ASSUME NEW r \in Request, Fill(r) PROVE Reachable'
    BY <1>26 DEF Fill, Proceed, Fresh, Goto
  <1>27. ASSUME NEW s \in Stop, List(s) PROVE Reachable'
    BY <1>27 DEF List, Goto
  <1>28. ASSUME NEW s \in Stop, Drop(s) PROVE Reachable'
    BY <1>28 DEF Drop, Goto
  <1>29. ASSUME NEW s \in Stop, Trip(s) PROVE Reachable'
    BY <1>29 DEF Trip, Goto
  <1>30. ASSUME NEW n \in Nudge, Submit(n) PROVE Reachable'
    BY <1>30 DEF Submit, Goto
  <1>31. ASSUME NEW w \in Worker, Restart(w) PROVE Reachable'
    BY <1>31 DEF Restart
  <1>32. ASSUME Lapse PROVE Reachable'
    BY <1>32 DEF Lapse
  <1>33. CASE UNCHANGED vars
    BY <1>33
  <1> QED
    BY <1>1, <1>2, <1>3, <1>4, <1>5, <1>6, <1>7, <1>8, <1>9, <1>10, <1>11,
              <1>12, <1>13, <1>14, <1>15, <1>16, <1>17, <1>18, <1>19, <1>20,
              <1>21, <1>22, <1>23, <1>24, <1>25, <1>26, <1>27, <1>28, <1>29,
              <1>30, <1>31, <1>32, <1>33
       DEF Next, Progress, Looks
(* The flag is read and written by the one drive there is. *)
LEMMA FlaggedStays ==
  OneAtATime /\ TypeOK /\ Served /\ OneSession /\ OneDrive /\ Flagged
  /\ [Next]_vars => Flagged'
  <1> USE RequestAssumption, SwitchAssumption
          DEF TypeOK, Request, Flagged, OneAtATime, Flag, OneSession,
              OneDrive, Serving, Live, Session, Attempt, InTry, InExcept,
              Reading,
              vars, sessions, engine, locals, attempts
  <1> SUFFICES ASSUME OneAtATime, TypeOK, Served, OneSession, OneDrive,
              Flagged, [Next]_vars PROVE Flagged'
    OBVIOUS
  <1>1. ASSUME NEW d \in Drive, Run(d) PROVE Flagged'
    BY <1>1 DEF Run, Fresh, Goto
  <1>2. ASSUME NEW d \in Drive, Remember(d) PROVE Flagged'
    BY <1>2 DEF Remember, Record, Goto
  <1>3. ASSUME NEW d \in Drive, Stream(d) PROVE Flagged'
    BY <1>3 DEF Stream, Goto
  <1>4. ASSUME NEW d \in Drive, Meta(d) PROVE Flagged'
    BY <1>4 DEF Meta, Goto, At
  <1>5. ASSUME NEW d \in Drive, Started(d) PROVE Flagged'
    BY <1>5 DEF Started, Goto, At
  <1>6. ASSUME NEW d \in Drive, Admit(d) PROVE Flagged'
    BY <1>6 DEF Admit, Fits, Goto, At
  <1>7. ASSUME NEW d \in Drive, Refuse(d) PROVE Flagged'
    BY <1>7 DEF Refuse, Goto, At
  <1>8. ASSUME NEW d \in Drive, Fence(d) PROVE Flagged'
    BY <1>8 DEF Fence, Goto, At
  <1>9. ASSUME NEW d \in Drive, Finish(d) PROVE Flagged'
    BY <1>9 DEF Finish, LetGo, Goto, At
  <1>10. ASSUME NEW d \in Drive, Park(d) PROVE Flagged'
    BY <1>10 DEF Park, LetGo, Goto, At
  <1>11. ASSUME NEW d \in Drive, Interrupt(d) PROVE Flagged'
    BY <1>11 DEF Interrupt, LetGo, Goto, At
  <1>12. ASSUME NEW d \in Drive, Mark(d) PROVE Flagged'
    BY <1>12 DEF Mark, Goto, At
  <1>13. ASSUME NEW d \in Drive, Keep(d) PROVE Flagged'
    BY <1>13 DEF Keep, Record, Goto, At
  <1>14. ASSUME NEW d \in Drive, Report(d) PROVE Flagged'
    BY <1>14 DEF Report, Finally, Goto, At
  <1>15. ASSUME NEW d \in Drive, Close(d) PROVE Flagged'
    BY <1>15 DEF Close, Record, Goto, At
  <1>16. ASSUME NEW d \in Drive, CancelInTry(d) PROVE Flagged'
    BY <1>16 DEF CancelInTry, MayLand, Record, Goto
  <1>17. ASSUME NEW d \in Drive, Wind(d) PROVE Flagged'
    BY <1>17 DEF Wind, Finally, Goto, At
  <1>18. ASSUME NEW d \in Drive, CancelInExcept(d) PROVE Flagged'
    BY <1>18 DEF CancelInExcept, Finally, Goto
  <1>19. ASSUME NEW d \in Drive, CancelOutside(d) PROVE Flagged'
    BY <1>19 DEF CancelOutside, MayLand, Record, Goto
  <1>20. ASSUME NEW d \in Drive, EndOfStream(d) PROVE Flagged'
    BY <1>20 DEF EndOfStream, Shut
  <1>21. ASSUME NEW d \in Drive, Drain(d) PROVE Flagged'
    BY <1>21 DEF Drain, At
  <1>22. ASSUME NEW d \in Drive, Disconnect(d) PROVE Flagged'
    BY <1>22 DEF Disconnect, Shut
  <1>23. ASSUME NEW r \in Request, Post(r) PROVE Flagged'
    BY <1>23 DEF Post, Known, MayDrive, Goto
  <1>24. ASSUME NEW r \in Request, Hit(r) PROVE Flagged'
    BY <1>24 DEF Hit, Proceed, Goto
  <1>25. ASSUME NEW r \in Request, Miss(r) PROVE Flagged'
    BY <1>25 DEF Miss, Goto
  <1>26. ASSUME NEW r \in Request, Fill(r) PROVE Flagged'
    BY <1>26 DEF Fill, Proceed, Fresh, Goto
  <1>27. ASSUME NEW s \in Stop, List(s) PROVE Flagged'
    BY <1>27 DEF List, Goto
  <1>28. ASSUME NEW s \in Stop, Drop(s) PROVE Flagged'
    BY <1>28 DEF Drop, Goto
  <1>29. ASSUME NEW s \in Stop, Trip(s) PROVE Flagged'
    BY <1>29 DEF Trip, Goto
  <1>30. ASSUME NEW n \in Nudge, Submit(n) PROVE Flagged'
    BY <1>30 DEF Submit, Goto
  <1>31. ASSUME NEW w \in Worker, Restart(w) PROVE Flagged'
    BY <1>31 DEF Restart
  <1>32. ASSUME Lapse PROVE Flagged'
    BY <1>32 DEF Lapse
  <1>33. CASE UNCHANGED vars
    BY <1>33
  <1> QED
    BY <1>1, <1>2, <1>3, <1>4, <1>5, <1>6, <1>7, <1>8, <1>9, <1>10, <1>11,
              <1>12, <1>13, <1>14, <1>15, <1>16, <1>17, <1>18, <1>19, <1>20,
              <1>21, <1>22, <1>23, <1>24, <1>25, <1>26, <1>27, <1>28, <1>29,
              <1>30, <1>31, <1>32, <1>33
       DEF Next, Progress, Looks
(* An attempt that reached its outcome goes on to write it. *)
LEMMA KeptStays ==
  OneAtATime /\ TypeOK /\ Settled /\ Flagged /\ Kept
  /\ [Next]_vars => Kept'
  <1> USE RequestAssumption, SwitchAssumption
          DEF TypeOK, Request, Kept, OneAtATime, Flag, Settled, Flagged,
              Attempt, InTry, InExcept, Reading,
              vars, sessions, engine, locals, attempts
  <1> SUFFICES ASSUME OneAtATime, TypeOK, Settled, Flagged, Kept,
              [Next]_vars PROVE Kept'
    OBVIOUS
  <1>1. ASSUME NEW d \in Drive, Run(d) PROVE Kept'
    BY <1>1 DEF Run, Fresh, Goto
  <1>2. ASSUME NEW d \in Drive, Remember(d) PROVE Kept'
    BY <1>2 DEF Remember, Record, Goto
  <1>3. ASSUME NEW d \in Drive, Stream(d) PROVE Kept'
    BY <1>3 DEF Stream, Goto
  <1>4. ASSUME NEW d \in Drive, Meta(d) PROVE Kept'
    BY <1>4 DEF Meta, Goto, At
  <1>5. ASSUME NEW d \in Drive, Started(d) PROVE Kept'
    BY <1>5 DEF Started, Goto, At
  <1>6. ASSUME NEW d \in Drive, Admit(d) PROVE Kept'
    BY <1>6 DEF Admit, Fits, Goto, At
  <1>7. ASSUME NEW d \in Drive, Refuse(d) PROVE Kept'
    BY <1>7 DEF Refuse, Goto, At
  <1>8. ASSUME NEW d \in Drive, Fence(d) PROVE Kept'
    BY <1>8 DEF Fence, Goto, At
  <1>9. ASSUME NEW d \in Drive, Finish(d) PROVE Kept'
    BY <1>9 DEF Finish, LetGo, Goto, At
  <1>10. ASSUME NEW d \in Drive, Park(d) PROVE Kept'
    BY <1>10 DEF Park, LetGo, Goto, At
  <1>11. ASSUME NEW d \in Drive, Interrupt(d) PROVE Kept'
    BY <1>11 DEF Interrupt, LetGo, Goto, At
  <1>12. ASSUME NEW d \in Drive, Mark(d) PROVE Kept'
    BY <1>12 DEF Mark, Goto, At
  <1>13. ASSUME NEW d \in Drive, Keep(d) PROVE Kept'
    BY <1>13 DEF Keep, Record, Goto, At
  <1>14. ASSUME NEW d \in Drive, Report(d) PROVE Kept'
    BY <1>14 DEF Report, Finally, Goto, At
  <1>15. ASSUME NEW d \in Drive, Close(d) PROVE Kept'
    BY <1>15 DEF Close, Record, Goto, At
  <1>16. ASSUME NEW d \in Drive, CancelInTry(d) PROVE Kept'
    BY <1>16 DEF CancelInTry, MayLand, Record, Goto
  <1>17. ASSUME NEW d \in Drive, Wind(d) PROVE Kept'
    BY <1>17 DEF Wind, Finally, Goto, At
  <1>18. ASSUME NEW d \in Drive, CancelInExcept(d) PROVE Kept'
    BY <1>18 DEF CancelInExcept, Finally, Goto
  <1>19. ASSUME NEW d \in Drive, CancelOutside(d) PROVE Kept'
    BY <1>19 DEF CancelOutside, MayLand, Record, Goto
  <1>20. ASSUME NEW d \in Drive, EndOfStream(d) PROVE Kept'
    BY <1>20 DEF EndOfStream, Shut
  <1>21. ASSUME NEW d \in Drive, Drain(d) PROVE Kept'
    BY <1>21 DEF Drain, At
  <1>22. ASSUME NEW d \in Drive, Disconnect(d) PROVE Kept'
    BY <1>22 DEF Disconnect, Shut
  <1>23. ASSUME NEW r \in Request, Post(r) PROVE Kept'
    BY <1>23 DEF Post, Known, MayDrive, Goto
  <1>24. ASSUME NEW r \in Request, Hit(r) PROVE Kept'
    BY <1>24 DEF Hit, Proceed, Goto
  <1>25. ASSUME NEW r \in Request, Miss(r) PROVE Kept'
    BY <1>25 DEF Miss, Goto
  <1>26. ASSUME NEW r \in Request, Fill(r) PROVE Kept'
    BY <1>26 DEF Fill, Proceed, Fresh, Goto
  <1>27. ASSUME NEW s \in Stop, List(s) PROVE Kept'
    BY <1>27 DEF List, Goto
  <1>28. ASSUME NEW s \in Stop, Drop(s) PROVE Kept'
    BY <1>28 DEF Drop, Goto
  <1>29. ASSUME NEW s \in Stop, Trip(s) PROVE Kept'
    BY <1>29 DEF Trip, Goto
  <1>30. ASSUME NEW n \in Nudge, Submit(n) PROVE Kept'
    BY <1>30 DEF Submit, Goto
  <1>31. ASSUME NEW w \in Worker, Restart(w) PROVE Kept'
    BY <1>31 DEF Restart
  <1>32. ASSUME Lapse PROVE Kept'
    BY <1>32 DEF Lapse
  <1>33. CASE UNCHANGED vars
    BY <1>33
  <1> QED
    BY <1>1, <1>2, <1>3, <1>4, <1>5, <1>6, <1>7, <1>8, <1>9, <1>10, <1>11,
              <1>12, <1>13, <1>14, <1>15, <1>16, <1>17, <1>18, <1>19, <1>20,
              <1>21, <1>22, <1>23, <1>24, <1>25, <1>26, <1>27, <1>28, <1>29,
              <1>30, <1>31, <1>32, <1>33
       DEF Next, Progress, Looks

-----------------------------------------------------------------------------
(* What follows for one tab on one worker. *)

SoleInv ==
    /\ TypeOK /\ Served /\ Settled
    /\ OneSession /\ OneDrive /\ Reachable /\ Flagged /\ Kept

(* The invariants hold together. *)
LEMMA SoleInit == Init => SoleInv
  <1> SUFFICES ASSUME Init PROVE SoleInv
    OBVIOUS
  <1>1. TypeOK /\ Served /\ Settled
    BY InitTypes, InitSettled
  <1>2. /\ OneSession /\ OneDrive /\ Reachable /\ Flagged /\ Kept
    BY DEF Init, OneSession, OneDrive, Live, Reachable, Flagged, Kept, Serving,
           Attempt, InTry, InExcept, Reading, Request
  <1> QED
    BY <1>1, <1>2 DEF SoleInv

(* Each step keeps them. *)
LEMMA SoleStep == ASSUME OneAtATime PROVE SoleInv /\ [Next]_vars => SoleInv'
  BY TypesStay, ServedStays, SettledStays, OneSessionStays, OneDriveStays,
     ReachableStays, FlaggedStays, KeptStays
     DEF SoleInv

(* No write of the record takes it back. *)
LEMMA RecordOnlyRises ==
  ASSUME OneAtATime, SoleInv, [Next]_vars, saved = "terminal"
  PROVE  saved' = "terminal"
  <1> USE DEF SoleInv, Flagged, Record
  <1>1. ASSUME NEW d \in Drive, Remember(d) \/ Keep(d) \/ Close(d)
        PROVE  saved' = "terminal"
    BY <1>1 DEF Remember, Keep, Close, At
  <1>2. ASSUME NEW d \in Drive, CancelInTry(d) \/ CancelOutside(d)
        PROVE  saved' = "terminal"
    BY <1>2 DEF CancelInTry, CancelOutside, MayLand
  <1>3. ASSUME NEW d \in Drive,
               \/ Run(d) \/ Stream(d) \/ Meta(d) \/ Started(d) \/ Admit(d)
               \/ Refuse(d) \/ Fence(d) \/ Finish(d) \/ Park(d) \/ Interrupt(d)
               \/ Mark(d) \/ Report(d) \/ Wind(d) \/ CancelInExcept(d)
               \/ EndOfStream(d) \/ Drain(d) \/ Disconnect(d)
        PROVE  saved' = "terminal"
    BY <1>3 DEF Run, Stream, Meta, Started, Admit, Refuse, Fence, Finish, Park,
                Interrupt, LetGo, Mark, Report, Wind, CancelInExcept,
                EndOfStream, Drain, Disconnect, Shut, sessions
  <1>4. ASSUME NEW r \in Request, Post(r) \/ Looks(r)
        PROVE  saved' = "terminal"
    BY <1>4 DEF Post, Looks, Hit, Miss, Fill, sessions
  <1>5. ASSUME NEW s \in Stop, List(s) \/ Drop(s) \/ Trip(s)
        PROVE  saved' = "terminal"
    BY <1>5 DEF List, Drop, Trip, sessions
  <1>6. ASSUME \/ \E n \in Nudge : Submit(n)
               \/ Lapse \/ UNCHANGED vars
               \/ \E w \in Worker : Restart(w)
        PROVE  saved' = "terminal"
    BY <1>6 DEF Submit, Lapse, Restart, vars, sessions
  <1> QED
    BY <1>1, <1>2, <1>3, <1>4, <1>5, <1>6 DEF Next, Progress

(* The object the abort holds names the attempt, if nothing else has        *)
(* cancelled it.                                                             *)
LEMMA TripCancels ==
  ASSUME OneAtATime, SoleInv, NEW s \in Stop, Trip(s),
         NEW d \in Drive, pc[d] = "engine"
  PROVE  d \in cancelled'
  <1>1. s \in Request /\ d \in Request
    BY DEF Request
  <1>2. host[s] = host[d] /\ ref[s] = cache[host[d]]
    BY <1>1 DEF SoleInv, TypeOK, OneAtATime, OneSession, Serving, Trip
  <1>3. d \in cancelled \/ object[ref[s]].task = d
    BY <1>2 DEF SoleInv, Reachable, Attempt, InTry
  <1> QED
    BY <1>3 DEF Trip, Attempt, InTry

(* Only the step of an abort takes it from its last await to its end. *)
LEMMA OnlyTripStops ==
  ASSUME TypeOK, [Next]_vars, NEW s \in Stop, Stops(s)
  PROVE  Trip(s)
  <1> USE RequestAssumption DEF TypeOK, Request, Stops, Goto
  <1>1. ASSUME NEW d \in Drive,
               \/ Run(d) \/ Stream(d) \/ Meta(d) \/ Started(d) \/ Admit(d)
               \/ Refuse(d) \/ Fence(d) \/ Finish(d) \/ Park(d) \/ Interrupt(d)
        PROVE  FALSE
    BY <1>1 DEF Run, Stream, Meta, Started, Admit, Refuse, Fence, Finish, Park,
                Interrupt, LetGo
  <1>2. ASSUME NEW d \in Drive,
               \/ Remember(d) \/ Keep(d) \/ Close(d) \/ Mark(d) \/ Report(d)
               \/ CancelInTry(d) \/ CancelOutside(d) \/ CancelInExcept(d)
               \/ Wind(d) \/ EndOfStream(d) \/ Drain(d) \/ Disconnect(d)
        PROVE  FALSE
    BY <1>2 DEF Remember, Keep, Close, Mark, Report, Finally, CancelInTry,
                CancelOutside, CancelInExcept, Wind, EndOfStream, Drain,
                Disconnect, Shut
  <1>3. ASSUME NEW r \in Request, Post(r) \/ Looks(r)
        PROVE  FALSE
    BY <1>3 DEF Post, Looks, Hit, Miss, Fill, Proceed
  <1>4. ASSUME NEW t \in Stop, List(t) \/ Drop(t) \/ Trip(t)
        PROVE  t = s /\ Trip(s)
    BY <1>4 DEF List, Drop, Trip
  <1>5. ASSUME NEW n \in Nudge, Submit(n)
        PROVE  FALSE
    BY <1>5 DEF Submit
  <1>6. ASSUME NEW w \in Worker, Restart(w)
        PROVE  FALSE
    BY <1>6, SwitchAssumption DEF Restart
  <1>7. CASE Lapse \/ UNCHANGED vars
    BY <1>7 DEF Lapse, vars
  <1> QED
    BY <1>1, <1>2, <1>3, <1>4, <1>5, <1>6, <1>7 DEF Next, Progress

(* Where one page drives the branch on one worker that does not restart, a   *)
(* finished run that nobody cancelled is recorded as terminal once every     *)
(* request is over: the outcome is marked on the object that every request   *)
(* shares, and written before its attempt ends (run_attempt).                *)
THEOREM FinishedIsKept == ASSUME OneAtATime PROVE Spec => []UncancelledIsKept
  <1>1. SoleInv => UncancelledIsKept
    BY DEF SoleInv, Kept, UncancelledIsKept
  <1>2. QED
    BY SoleInit, SoleStep, <1>1, PTL DEF Spec

(* There the record of a finished run is never taken back to open: whatever  *)
(* an attempt writes, it has read from the one object after the outcome, or  *)
(* writes before it (_remember_session, run_attempt's finally).              *)
THEOREM RecordIsFinal == ASSUME OneAtATime PROVE Spec => TerminalIsFinal
  <1>1. SoleInv
  /\ [Next]_vars => [saved = "terminal" => saved' = "terminal"]_vars
    BY RecordOnlyRises
  <1>2. QED
    BY SoleInit, SoleStep, <1>1, PTL DEF Spec, TerminalIsFinal

(* There an abort that answers ok has cancelled the attempt the engine is    *)
(* running: its task is on the object the abort looked up (abort, _stream).  *)
THEOREM AbortsReach == ASSUME OneAtATime PROVE Spec => AbortCancels
  <1> DEFINE Cancels == \A s \in Stop : Stops(s) =>
                          \A d \in Drive : pc[d] = "engine" => d \in cancelled'
  <1>1. SoleInv /\ [Next]_vars => [Cancels]_vars
    BY OnlyTripStops, TripCancels DEF SoleInv
  <1>2. QED
    BY SoleInit, SoleStep, <1>1, PTL DEF Spec, AbortCancels
=============================================================================
