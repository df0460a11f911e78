------------------------------- MODULE Console -------------------------------
(***************************************************************************)
(* The server's handling of one branch (server.py): the requests that      *)
(* drive it (/api/run, /api/resume, /api/recover), stop it (/api/abort)    *)
(* and nudge it (/api/steer), over the per-process _sessions cache, the    *)
(* session's durable record, and the stream every drive request answers    *)
(* with.  The ledger is durable (DATABASE_URL); several workers may serve. *)
(*                                                                         *)
(* Each handler is split at its awaits; pc names the await a request is    *)
(* at.  A session is a dict shared by reference, so session objects live   *)
(* on a heap, named by the request that created them, and a request keeps  *)
(* the object it looked up whatever the cache holds later.  The engine     *)
(* (semora) is modelled from how server.py and runtime.py use it.          *)
(***************************************************************************)
EXTENDS Naturals

CONSTANTS
    Worker,        \* server processes
    Drive,         \* calls of /api/run, /api/resume and /api/recover
    Stop,          \* calls of /api/abort
    Nudge,         \* calls of /api/steer
    None,          \* no session object, no task, no holder
    Overlap,       \* when a drive may be posted while another one is going on
    Leave,         \* clients may go away in the middle of a stream
    MaxRestarts    \* bound on the number of times a worker restarts

Request == Drive \cup Stop \cup Nudge

ASSUME RequestAssumption ==
    /\ Drive \cap Stop = {} /\ Drive \cap Nudge = {} /\ Stop \cap Nudge = {}
    /\ None \notin Request
ASSUME SwitchAssumption ==
    Overlap \in {"never", "tail", "always"} /\ Leave \in BOOLEAN /\ MaxRestarts \in Nat

VARIABLES
    object,     \* object[r]: the session dict request r created
    cache,      \* cache[w]: the object in _sessions of worker w
    saved,      \* the durable record: "none", or its terminal flag
    branch,     \* what the engine's ledger says of the branch
    holder,     \* the drive whose attempt holds the branch's lease
    queue,      \* steers waiting in the engine's input queue
    pc,         \* pc[r]: the await request r (or its attempt) is at
    host,       \* host[r]: the worker that serves r
    ref,        \* ref[r]: the session object r holds
    snap,       \* snap[r]: the terminal flag r has read, or is writing
    kind,       \* kind[d]: "run", "resume" or "recover"
    found,      \* found[s]: the steers abort s saw in the queue
    stream,     \* stream[d]: "none", "open" or "closed"
    ended,      \* drives whose attempt has put the end marker on its stream
    told,       \* drives whose stream has had a closing frame
    cancelled,  \* attempts with a cancellation on its way
    struck,     \* attempts that an abort or a leaving client has cancelled (history)
    restarts    \* the number of restarts so far

sessions == <<object, cache, saved>>
engine   == <<branch, holder, queue>>
locals   == <<host, ref, snap, kind, found>>
attempts == <<stream, ended, told, cancelled, struck>>
vars == <<sessions, engine, pc, locals, attempts, restarts>>

Session  == [terminal : BOOLEAN, aborted : BOOLEAN, task : Drive \cup {None}]
InTry    == {"enter", "engine", "marking", "keeping", "outcome"}
InExcept == {"except", "winding"}
Attempt  == {"meta", "start", "closing"} \cup InTry \cup InExcept       \* run_attempt
Reading  == {"reading", "filling"}                            \* _session
PC == Attempt \cup Reading \cup {"idle", "remember", "ready", "over",
                                 "listing", "dropping", "tripping", "submitting"}

(* Every variable has its type. *)
TypeOK ==
    /\ object \in [Request -> Session]
    /\ cache \in [Worker -> Request \cup {None}]
    /\ saved \in {"none", "open", "terminal"}
    /\ branch \in {"new", "running", "parked", "interrupted", "finished"}
    /\ holder \in Drive \cup {None}
    /\ queue \subseteq Nudge
    /\ pc \in [Request -> PC]
    /\ host \in [Request -> Worker]
    /\ ref \in [Request -> Request \cup {None}]
    /\ snap \in [Request -> BOOLEAN]
    /\ kind \in [Drive -> {"run", "resume", "recover"}]
    /\ found \in [Stop -> SUBSET Nudge]
    /\ stream \in [Drive -> {"none", "open", "closed"}]
    /\ ended \subseteq Drive /\ told \subseteq Drive
    /\ cancelled \subseteq Drive /\ struck \subseteq Drive
    /\ restarts \in 0..MaxRestarts

Fresh(t) == [terminal |-> t, aborted |-> FALSE, task |-> None]

Init ==
    /\ object = [r \in Request |-> Fresh(FALSE)]
    /\ cache = [w \in Worker |-> None]
    /\ saved = "none"
    /\ branch = "new" /\ holder = None /\ queue = {}
    /\ pc = [r \in Request |-> "idle"]
    /\ host \in [Request -> Worker]
    /\ ref = [r \in Request |-> None]
    /\ snap = [r \in Request |-> FALSE]
    /\ kind = [d \in Drive |-> "run"]
    /\ found = [s \in Stop |-> {}]
    /\ stream = [d \in Drive |-> "none"]
    /\ ended = {} /\ told = {} /\ cancelled = {} /\ struck = {} /\ restarts = 0

Goto(r, l) == pc' = [pc EXCEPT ![r] = l]

Record(t) == IF t THEN "terminal" ELSE "open"

-----------------------------------------------------------------------------
(* POST /api/run.  Nobody knows the branch before the stream's first frame,  *)
(* which follows the write of the record, so the write is part of the step.  *)

Known == \E d \in Drive : kind[d] = "run" /\ pc[d] \notin {"idle", "ready", "meta"}

(* Drive d, or the stream it answers with, is still going on. *)
Live(d) == stream[d] = "open" \/ pc[d] \in Attempt \cup Reading \cup {"remember", "ready"}

Run(d) ==
    /\ pc[d] = "idle" /\ saved = "none"
    /\ object' = [object EXCEPT ![d] = Fresh(FALSE)]
    /\ cache' = [cache EXCEPT ![host[d]] = d]
    /\ saved' = "open"
    /\ Goto(d, "ready")
    /\ UNCHANGED <<engine, locals, attempts, restarts>>

-----------------------------------------------------------------------------
(* _session: the cached object, or one rebuilt from the record.  Nothing     *)
(* keeps two requests that both miss from building one each.                 *)

(* What a handler does with its session in the step that obtains it.         *)
(* resume and recover clear the abort flag; resume also writes the record,   *)
(* as the page always sends its units; steer refuses a finished run.         *)
Proceed(r, o, obj) ==
    /\ ref' = [ref EXCEPT ![r] = o]
    /\ \/ /\ r \in Drive
          /\ object' = [obj EXCEPT ![o].aborted = FALSE]
          /\ \/ kind[r] = "resume" /\ Goto(r, "remember")
                /\ snap' = [snap EXCEPT ![r] = obj[o].terminal]
             \/ kind[r] = "recover" /\ Goto(r, "ready") /\ UNCHANGED snap
       \/ /\ r \in Stop
          /\ object' = obj /\ Goto(r, "listing") /\ UNCHANGED snap
       \/ /\ r \in Nudge
          /\ object' = obj /\ UNCHANGED snap
          /\ Goto(r, IF obj[o].terminal THEN "over" ELSE "submitting")

(* The page posts a continuation when it has read the closing frame of the   *)
(* attempt before, whose stream is not over yet ("tail"); another tab does   *)
(* not wait ("always").                                                      *)
MayDrive == \A d \in Drive : \/ ~Live(d)
                             \/ Overlap = "tail" /\ d \in told
                             \/ Overlap = "always"

(* A request other than the first arrives. *)
Post(r) ==
    /\ pc[r] = "idle" /\ Known
    /\ r \in Drive => MayDrive
    /\ \/ r \notin Drive /\ UNCHANGED kind
       \/ r \in Drive /\ \E c \in {"resume", "recover"} : kind' = [kind EXCEPT ![r] = c]
    /\ Goto(r, "reading")
    /\ UNCHANGED <<sessions, engine, host, ref, snap, found, attempts, restarts>>

Hit(r) ==
    /\ pc[r] = "reading" /\ cache[host[r]] # None
    /\ Proceed(r, cache[host[r]], object)
    /\ UNCHANGED <<cache, saved, engine, host, kind, found, attempts, restarts>>

Miss(r) ==
    /\ pc[r] = "reading" /\ cache[host[r]] = None
    /\ snap' = [snap EXCEPT ![r] = (saved = "terminal")]
    /\ Goto(r, "filling")
    /\ UNCHANGED <<sessions, engine, host, ref, kind, found, attempts, restarts>>

Fill(r) ==
    /\ pc[r] = "filling"
    /\ cache' = [cache EXCEPT ![host[r]] = r]
    /\ Proceed(r, r, [object EXCEPT ![r] = Fresh(snap[r])])
    /\ UNCHANGED <<saved, engine, host, kind, found, attempts, restarts>>

(* The write of resume's _remember_session lands. *)
Remember(d) ==
    /\ pc[d] = "remember"
    /\ saved' = Record(snap[d])
    /\ Goto(d, "ready")
    /\ UNCHANGED <<object, cache, engine, locals, attempts, restarts>>

-----------------------------------------------------------------------------
(* _stream and run_attempt. *)

(* Mutant of Stream: only a first run registers its task. *)
Stream_FirstOnly(d) ==
    /\ pc[d] = "ready"
    /\ ref' = [ref EXCEPT ![d] = cache[host[d]]]
    /\ object' = IF kind[d] = "run" THEN [object EXCEPT ![cache[host[d]]].task = d] ELSE object
    /\ stream' = [stream EXCEPT ![d] = "open"]
    /\ Goto(d, "meta")
    /\ UNCHANGED <<cache, saved, engine, host, snap, kind, found, ended, told,
                   cancelled, struck, restarts>>

(* The generator starts: it takes the object cached now and makes the task.  *)
Stream(d) ==
    /\ pc[d] = "ready"
    /\ ref' = [ref EXCEPT ![d] = cache[host[d]]]
    /\ object' = [object EXCEPT ![cache[host[d]]].task = d]
    /\ stream' = [stream EXCEPT ![d] = "open"]
    /\ Goto(d, "meta")
    /\ UNCHANGED <<cache, saved, engine, host, snap, kind, found, ended, told,
                   cancelled, struck, restarts>>

(* A cancellation on its way is thrown at the await the attempt is at, so    *)
(* only an attempt without one goes on from there.                           *)
At(d, l) == pc[d] = l /\ d \notin cancelled

(* The meta frame is put; a first run then awaits session_start.             *)
Meta(d) ==
    /\ At(d, "meta")
    /\ Goto(d, IF kind[d] = "run" THEN "start" ELSE "enter")
    /\ UNCHANGED <<sessions, engine, locals, attempts, restarts>>

(* Only now does the attempt enter its try. *)
Started(d) ==
    /\ At(d, "start")
    /\ Goto(d, "enter")
    /\ UNCHANGED <<sessions, engine, locals, attempts, restarts>>

(* The engine admits one attempt at a time, and only where the command fits. *)
Fits(d) == branch = CASE kind[d] = "run"     -> "new"
                      [] kind[d] = "resume"  -> "parked"
                      [] kind[d] = "recover" -> "interrupted"

Admit(d) ==
    /\ At(d, "enter") /\ holder = None /\ Fits(d)
    /\ holder' = d /\ branch' = "running"
    /\ Goto(d, "engine")
    /\ UNCHANGED <<sessions, queue, locals, attempts, restarts>>

(* Mutant of Refuse: a contended attempt returns before the try. *)
Refuse_Early(d) ==
    /\ At(d, "enter") /\ (holder # None \/ ~Fits(d))
    /\ Goto(d, "over")
    /\ UNCHANGED <<sessions, engine, locals, attempts, restarts>>

(* Contended, or any other refusal: a frame, and the attempt is over. *)
Refuse(d) ==
    /\ At(d, "enter") /\ (holder # None \/ ~Fits(d))
    /\ Goto(d, "except")
    /\ UNCHANGED <<sessions, engine, locals, attempts, restarts>>

(* Another attempt has the lease by now: Fenced. *)
Fence(d) ==
    /\ At(d, "engine") /\ holder # d
    /\ Goto(d, "except")
    /\ UNCHANGED <<sessions, engine, locals, attempts, restarts>>

Drain(d) ==
    /\ At(d, "engine") /\ holder = d /\ queue # {}
    /\ queue' = {}
    /\ UNCHANGED <<sessions, branch, holder, pc, locals, attempts, restarts>>

(* The engine lets go of the branch in state b, and the attempt goes on at l. *)
LetGo(d, b, l) ==
    /\ At(d, "engine") /\ holder = d
    /\ branch' = b /\ holder' = None
    /\ Goto(d, l)
    /\ UNCHANGED <<sessions, queue, locals, attempts, restarts>>

Finish(d)    == LetGo(d, "finished", "marking")      \* completed, denied, or halted
Park(d)      == LetGo(d, "parked", "except")         \* AgentSuspended
Interrupt(d) == LetGo(d, "interrupted", "except")    \* a crash, Indeterminate, an error

(* _is_aborted looks at the object cached now, not at the stream's own.      *)
IsAborted(d) == cache[host[d]] # None /\ object[cache[host[d]]].aborted

(* Mutant of Mark: only a first run marks its session. *)
Mark_RunOnly(d) ==
    /\ At(d, "marking")
    /\ object' = [object EXCEPT ![cache[host[d]]].terminal = (@ \/ kind[d] = "run")]
    /\ snap' = [snap EXCEPT ![d] = (kind[d] = "run")]
    /\ Goto(d, "keeping")
    /\ UNCHANGED <<cache, saved, engine, host, ref, kind, found, attempts, restarts>>

(* session_end is done: the object cached now is marked, and written. *)
Mark(d) ==
    /\ At(d, "marking")
    /\ object' = [object EXCEPT ![cache[host[d]]].terminal = TRUE]
    /\ snap' = [snap EXCEPT ![d] = TRUE]
    /\ Goto(d, "keeping")
    /\ UNCHANGED <<cache, saved, engine, host, ref, kind, found, attempts, restarts>>

Keep(d) ==
    /\ At(d, "keeping")
    /\ saved' = Record(snap[d])
    /\ Goto(d, "outcome")
    /\ UNCHANGED <<object, cache, engine, locals, attempts, restarts>>

(* Mutant of Finally: the record as it was when the stream began. *)
Finally_Early(d) ==
    /\ snap' = [snap EXCEPT ![d] = FALSE]
    /\ Goto(d, "closing")

(* Mutant of Finally: every stream that ends is a finished run. *)
Finally_Always(d) ==
    /\ snap' = [snap EXCEPT ![d] = TRUE]
    /\ Goto(d, "closing")

(* The finally clause: what the stream's own object says now is written. *)
Finally(d) ==
    /\ snap' = [snap EXCEPT ![d] = object[ref[d]].terminal]
    /\ Goto(d, "closing")

(* The closing frame has been put: an outcome, or what an except clause puts. *)
Report(d) ==
    /\ At(d, "outcome") \/ At(d, "except")
    /\ told' = told \cup {d}
    /\ Finally(d)
    /\ UNCHANGED <<sessions, engine, host, ref, kind, found, stream, ended, cancelled,
                   struck, restarts>>

(* The record is written, and the end marker put on the stream. *)
Close(d) ==
    /\ At(d, "closing")
    /\ saved' = Record(snap[d])
    /\ ended' = ended \cup {d}
    /\ Goto(d, "over")
    /\ UNCHANGED <<object, cache, engine, locals, stream, told, cancelled, struck, restarts>>

-----------------------------------------------------------------------------
(* Cancellation, by an abort or by the end of the request. *)

(* A write that was being awaited has landed or has not. *)
MayLand(d) == saved' = saved \/ saved' = Record(snap[d])

(* Inside the try: the engine lets go, and session_end is awaited. *)
CancelInTry(d) ==
    /\ d \in cancelled /\ pc[d] \in InTry
    /\ IF pc[d] = "keeping" THEN MayLand(d) ELSE UNCHANGED saved
    /\ IF holder = d THEN holder' = None /\ branch' = "interrupted"
                     ELSE UNCHANGED <<holder, branch>>
    /\ cancelled' = cancelled \ {d}
    /\ Goto(d, "winding")
    /\ UNCHANGED <<object, cache, queue, locals, stream, ended, told, struck, restarts>>

(* An aborted attempt puts an outcome; any other cancelled one puts nothing. *)
Wind(d) ==
    /\ At(d, "winding")
    /\ told' = IF IsAborted(d) THEN told \cup {d} ELSE told
    /\ Finally(d)
    /\ UNCHANGED <<sessions, engine, host, ref, kind, found, stream, ended, cancelled,
                   struck, restarts>>

(* Inside an except clause: the frame is not put, the finally clause runs. *)
CancelInExcept(d) ==
    /\ d \in cancelled /\ pc[d] \in InExcept
    /\ cancelled' = cancelled \ {d}
    /\ Finally(d)
    /\ UNCHANGED <<sessions, engine, host, ref, kind, found, stream, ended, told, struck,
                   restarts>>

(* Before the try, or inside the finally clause: no end marker is put. *)
CancelOutside(d) ==
    /\ d \in cancelled /\ pc[d] \in {"meta", "start", "closing"}
    /\ IF pc[d] = "closing" THEN MayLand(d) ELSE UNCHANGED saved
    /\ cancelled' = cancelled \ {d}
    /\ Goto(d, "over")
    /\ UNCHANGED <<object, cache, engine, locals, stream, ended, told, struck, restarts>>

(* Mutant of Shut: it cancels the task the session names, not its own. *)
Shut_Popped(d) ==
    /\ stream[d] = "open"
    /\ stream' = [stream EXCEPT ![d] = "closed"]
    /\ object' = [object EXCEPT ![ref[d]].task = None]
    /\ cancelled' = IF pc[d] = "over" THEN cancelled ELSE cancelled \cup {object[ref[d]].task}
    /\ UNCHANGED <<cache, saved, engine, pc, locals, ended, told, struck, restarts>>

(* The generator's finally clause, on the end marker or when the client has  *)
(* gone away: the object's task is dropped, whosever it is, and the          *)
(* attempt cancelled if it is not over.                                      *)
Shut(d) ==
    /\ stream[d] = "open"
    /\ stream' = [stream EXCEPT ![d] = "closed"]
    /\ object' = [object EXCEPT ![ref[d]].task = None]
    /\ LET live == {e \in {d} : pc[e] # "over"}
       IN  cancelled' = cancelled \cup live /\ struck' = struck \cup live
    /\ UNCHANGED <<cache, saved, engine, pc, locals, ended, told, restarts>>

EndOfStream(d) == d \in ended /\ Shut(d)
Disconnect(d)  == Leave /\ d \notin ended /\ Shut(d)

-----------------------------------------------------------------------------
(* POST /api/abort: drop what is queued, then trip the flag and cancel. *)

List(s) ==
    /\ pc[s] = "listing"
    /\ found' = [found EXCEPT ![s] = queue]
    /\ Goto(s, "dropping")
    /\ UNCHANGED <<sessions, engine, host, ref, snap, kind, attempts, restarts>>

Drop(s) ==
    /\ pc[s] = "dropping"
    /\ queue' = queue \ found[s]
    /\ Goto(s, "tripping")
    /\ UNCHANGED <<sessions, branch, holder, locals, attempts, restarts>>

Trip(s) ==
    /\ pc[s] = "tripping"
    /\ object' = [object EXCEPT ![ref[s]].aborted = TRUE]
    /\ LET live == {d \in Drive : object[ref[s]].task = d /\ pc[d] \in Attempt}
       IN  cancelled' = cancelled \cup live /\ struck' = struck \cup live
    /\ Goto(s, "over")
    /\ UNCHANGED <<cache, saved, engine, locals, stream, ended, told, restarts>>

(* POST /api/steer, past the check of the flag: the input joins the queue. *)
Submit(n) ==
    /\ pc[n] = "submitting"
    /\ queue' = queue \cup {n}
    /\ Goto(n, "over")
    /\ UNCHANGED <<sessions, branch, holder, locals, attempts, restarts>>

-----------------------------------------------------------------------------
(* The environment. *)

(* The branch's lease runs out, or its holder's worker died. *)
Lapse ==
    /\ holder # None
    /\ holder' = None /\ branch' = "interrupted"
    /\ UNCHANGED <<sessions, queue, pc, locals, attempts, restarts>>

(* A worker restarts: its cache, its requests and its tasks are gone. *)
Restart(w) ==
    /\ restarts < MaxRestarts
    /\ restarts' = restarts + 1
    /\ cache' = [cache EXCEPT ![w] = None]
    /\ pc' = [r \in Request |-> IF host[r] = w /\ pc[r] # "idle" THEN "over" ELSE pc[r]]
    /\ stream' = [d \in Drive |-> IF host[d] = w /\ stream[d] = "open" THEN "closed" ELSE stream[d]]
    /\ cancelled' = {d \in cancelled : host[d] # w}
    /\ UNCHANGED <<object, saved, engine, locals, ended, told, struck>>

Looks(r) == Hit(r) \/ Miss(r) \/ Fill(r)

(* What the code of drive d, its engine included, does without being asked.  *)
Progress(d) ==
    \/ Remember(d) \/ Stream(d) \/ Meta(d) \/ Started(d) \/ Admit(d)
    \/ Refuse(d) \/ Fence(d) \/ Finish(d) \/ Park(d) \/ Interrupt(d)
    \/ Mark(d) \/ Keep(d) \/ Report(d) \/ Close(d)
    \/ CancelInTry(d) \/ Wind(d) \/ CancelInExcept(d) \/ CancelOutside(d)
    \/ EndOfStream(d)

Next ==
    \/ \E r \in Request : Post(r) \/ Looks(r)
    \/ \E d \in Drive : Run(d) \/ Drain(d) \/ Progress(d) \/ Disconnect(d)
    \/ \E s \in Stop : List(s) \/ Drop(s) \/ Trip(s)
    \/ \E n \in Nudge : Submit(n)
    \/ Lapse
    \/ \E w \in Worker : Restart(w)

Spec == Init /\ [][Next]_vars

(* The event loop runs every task that can go on, and the engine comes to an *)
(* end with every attempt: a model call times out after 60 seconds, and      *)
(* before_model stops the eighth turn.  Nobody has to post, leave, lapse.    *)
FairSpec == Spec /\ \A r \in Request : WF_vars(Looks(r))
                 /\ \A d \in Drive : WF_vars(Progress(d))

-----------------------------------------------------------------------------
(* Properties. *)

(* A run is terminal, so open to /api/fork and closed to /api/steer, only    *)
(* when its engine has come to an outcome: in the record and in every        *)
(* session object, whichever workers rebuilt, aborted or lost them.          *)
TerminalMeansFinished ==
    (saved = "terminal" \/ \E r \in Request : object[r].terminal) => branch = "finished"

(* The record of a finished run is never taken back to open, although every  *)
(* stream and every resumption writes the whole record from its own object.  *)
TerminalIsFinal == [][saved = "terminal" => saved' = "terminal"]_vars

(* Abort s answers ok in this step. *)
Stops(s) == pc[s] = "tripping" /\ pc'[s] = "over" /\ restarts' = restarts

(* An abort that answers ok has cancelled the attempt the engine is running. *)
AbortCancels ==
    [][\A s \in Stop : Stops(s) =>
         \A d \in Drive : pc[d] = "engine" => d \in cancelled']_vars

(* Once every request is over, a finished run that nobody aborted and no     *)
(* client left is recorded as terminal: it can be branched, and it refuses   *)
(* steers nobody would drain. No park, crash, refusal or lapse on the way    *)
(* makes the record forget (_session, run_attempt).                          *)
UncancelledIsKept ==
    /\ struck = {}
    /\ branch = "finished"
    /\ \A d \in Drive : pc[d] \in {"idle", "over"}
    => saved = "terminal"

(* Every stream a client stays on comes to its end, however its attempt did: *)
(* refused, fenced, parked, crashed or finished.                             *)
StreamsClose == \A d \in Drive : stream[d] = "open" ~> stream[d] = "closed"
=============================================================================
