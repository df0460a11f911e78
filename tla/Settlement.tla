------------------------------ MODULE Settlement ------------------------------
(***************************************************************************)
(* An undecided charge, from the worker that lost it to the person who     *)
(* settles it (server.py: _stream's except clauses, recover, settle).      *)
(*                                                                         *)
(* A charge has two records: the engine's tool record of the call, in the  *)
(* branch, and the business record under charge:{intent}:{customer}, in    *)
(* the conversation.  The session keeps the two coordinates settle needs:  *)
(* undecided_effect, noted when a simulated crash is caught, and           *)
(* undecided_step, noted when a recovery is Indeterminate.  settle writes  *)
(* the business record, then the tool record, then the session; a worker   *)
(* may die between any two.                                                *)
(*                                                                         *)
(* One attempt of the branch at a time (Console has several), and the      *)
(* steps of session_step inside a lease are one (SessionStep has them      *)
(* apart).  The leases of what died have lapsed when the next step comes.  *)
(***************************************************************************)
EXTENDS Naturals

CONSTANTS
    Worker,      \* server processes
    Settler,     \* calls of POST /api/settle
    Last,        \* the calls of the batch are charges 1..Last of as many customers
    None,        \* no session, no coordinate, no holder
    Touching,    \* other requests (steer, abort) may make a worker cache the session
    MaxOverlaps, \* bound: requests made before the last one is answered
    MaxCuts      \* bound: cancellations of an attempt and deaths of a worker

Calls == 1..Last

ASSUME CallAssumption == Last \in Nat \ {0} /\ None \notin Calls
ASSUME ActorAssumption == None \notin Settler \cup Worker
ASSUME BoundAssumption == Touching \in BOOLEAN /\ MaxOverlaps \in Nat /\ MaxCuts \in Nat

VARIABLES
    \* the ledger
    tool,       \* tool[c]: the engine's record of call c and its version
    effect,     \* effect[c]: the business record of c's charge
    lease,      \* who holds the conversation: a settlement, or the attempt
    \* the session: its cached copies and its record
    cache,      \* cache[w]: the flags in worker w's _sessions
    saved,      \* the flags in the ledger
    \* the attempt
    at,         \* where it is
    host,       \* the worker it runs on
    turn,       \* the call it is at
    snap,       \* the flags its last write carries
    armed,      \* the worker in which the effect seam is armed
    \* the settlements
    pc,         \* pc[s]: the await settlement s is at
    serves,     \* serves[s]: the worker that serves it
    flags,      \* flags[s]: the coordinates it read
    version,    \* version[s]: the version it read
    charged,    \* charged[s]: what the person says
    \* the page, the world, bounds
    shown,      \* the call the page shows as undecided
    paid,       \* paid[c]: the requests the provider accepted
    overlaps,
    cuts

ledger  == <<tool, effect, lease>>
session == <<cache, saved>>
attempt == <<at, host, turn, snap, armed>>
counts  == <<overlaps, cuts>>
settles == <<pc, serves, flags, version, charged>>
vars == <<ledger, session, attempt, settles, shown, paid, counts>>

Attempt == "attempt"
State == {"ready", "running", "done"}

(* undecided_step names a tool step, or the business key when session_step   *)
(* itself found the charge running.                                          *)
Step  == {"tool", "charge"} \X Calls
Flags == [step : Step \cup {None}, effect : Calls \cup {None}]
NoFlags == [step |-> None, effect |-> None]
ASSUME FlagsAssumption == None \notin Flags

Inside == {"engine", "charging", "paying", "finishing", "recording"}   \* the try
Serving == {"flags", "unresolved", "acquire", "write", "resolve", "save"}

(* Every variable has its type. *)
TypeOK ==
    /\ tool \in [Calls -> [state : State, version : Nat]]
    /\ effect \in [Calls -> State]
    /\ lease \in Settler \cup {Attempt, None}
    /\ cache \in [Worker -> Flags \cup {None}]
    /\ saved \in Flags
    /\ at \in Inside \cup {"idle", "noted", "saving", "over"}
    /\ host \in Worker
    /\ turn \in Calls
    /\ snap \in Flags
    /\ armed \in Worker \cup {None}
    /\ pc \in [Settler -> Serving \cup {"idle"}]
    /\ serves \in [Settler -> Worker]
    /\ flags \in [Settler -> Flags]
    /\ version \in [Settler -> Nat]
    /\ charged \in [Settler -> BOOLEAN]
    /\ shown \in Calls \cup {None}
    /\ paid \in [Calls -> Nat]
    /\ overlaps \in 0..MaxOverlaps
    /\ cuts \in 0..MaxCuts

(* POST /api/run has made the session on its worker and remembered it; the   *)
(* scenario may have armed the seam.                                         *)
Init ==
    /\ tool = [c \in Calls |-> [state |-> "ready", version |-> 0]]
    /\ effect = [c \in Calls |-> "ready"]
    /\ lease = None
    /\ at = "engine" /\ host \in Worker /\ turn = 1 /\ snap = NoFlags
    /\ cache = [w \in Worker |-> IF w = host THEN NoFlags ELSE None]
    /\ saved = NoFlags
    /\ armed \in {host, None}
    /\ pc = [s \in Settler |-> "idle"]
    /\ serves = [s \in Settler |-> host]
    /\ flags = [s \in Settler |-> NoFlags]
    /\ version = [s \in Settler |-> 0]
    /\ charged = [s \in Settler |-> FALSE]
    /\ shown = None
    /\ paid = [c \in Calls |-> 0]
    /\ overlaps = 0
    /\ cuts = 0

-----------------------------------------------------------------------------
(* The session.  A worker that has it cached does not look at the record.    *)

(* Mutant of _session: the two coordinates are not among the durable keys. *)
_session_Without(w) == IF cache[w] = None THEN NoFlags ELSE cache[w]

_session(w) == IF cache[w] = None THEN saved ELSE cache[w]

Rehydrate(w) == cache' = [cache EXCEPT ![w] = _session(w)]

Touch(w) ==
    /\ Touching
    /\ cache[w] = None
    /\ Rehydrate(w)
    /\ UNCHANGED <<ledger, saved, attempt, settles, shown, paid, counts>>

-----------------------------------------------------------------------------
(* An attempt: POST /api/recover, the engine and the tool body. *)

(* A request joins those that run, or they overlap. *)
Join(alone) ==
    \/ alone /\ UNCHANGED overlaps
    \/ ~alone /\ overlaps < MaxOverlaps /\ overlaps' = overlaps + 1

Quiet == \A s \in Settler : pc[s] = "idle"

Recover(w) ==
    /\ at = "idle"
    /\ Join(Quiet)
    /\ Rehydrate(w)
    /\ at' = "engine" /\ host' = w
    /\ shown' = None
    /\ UNCHANGED <<ledger, saved, turn, snap, armed, settles, paid, cuts>>

pending == {c \in Calls : tool[c].state # "done"}

(* The calls of a batch are sequential. *)
Turn(c) == at = "engine" /\ c \in pending /\ \A d \in pending : c <= d

Finished ==
    /\ at = "engine" /\ pending = {}
    /\ at' = "noted"
    /\ UNCHANGED <<ledger, session, host, turn, snap, armed, settles, shown, paid, counts>>

(* An exception reaches run_attempt, which notes coordinate f of it. *)
Note(f) == at' = "noted" /\ cache' = [cache EXCEPT ![host] = f]

(* Mutant of Indeterminate: the frame is put, the step is not remembered. *)
Indeterminate_Unnoted(step) ==
    /\ at' = "noted"
    /\ shown' = step[2]
    /\ UNCHANGED <<ledger, session, host, turn, snap, armed, settles, paid, counts>>

(* The page learns of an Indeterminate, whichever record is in doubt. *)
Indeterminate(step) ==
    /\ Note([cache[host] EXCEPT !.step = step])
    /\ shown' = step[2]
    /\ UNCHANGED <<ledger, saved, host, turn, snap, armed, settles, paid, counts>>

ToolRunning(c) ==
    /\ Turn(c) /\ tool[c].state = "running"
    /\ Indeterminate(<<"tool", c>>)

StartTool(c) ==
    /\ Turn(c) /\ tool[c].state = "ready"
    /\ tool' = [tool EXCEPT ![c] = [state |-> "running", version |-> @.version + 1]]
    /\ at' = "charging" /\ turn' = c
    /\ UNCHANGED <<effect, lease, session, host, snap, armed, settles, shown, paid, counts>>

(* Contended: a settlement holds the conversation.  Whether the engine takes *)
(* the call for started is not known.                                        *)
Contended ==
    /\ at = "charging" /\ lease # None
    /\ tool' \in {tool, [tool EXCEPT ![turn].state = "ready"]}
    /\ at' = "noted"
    /\ UNCHANGED <<effect, lease, session, host, turn, snap, armed, settles, shown, paid, counts>>

(* session_step's read: the recorded result, a charge in doubt, or a start.  *)
Charged ==
    /\ at = "charging" /\ lease = None /\ effect[turn] = "done"
    /\ at' = "recording"
    /\ UNCHANGED <<ledger, session, host, turn, snap, armed, settles, shown, paid, counts>>

ChargeRunning ==
    /\ at = "charging" /\ lease = None /\ effect[turn] = "running"
    /\ Indeterminate(<<"charge", turn>>)

StartCharge ==
    /\ at = "charging" /\ lease = None /\ effect[turn] = "ready"
    /\ effect' = [effect EXCEPT ![turn] = "running"]
    /\ lease' = Attempt
    /\ at' = "paying"
    /\ UNCHANGED <<tool, session, host, turn, snap, armed, settles, shown, paid, counts>>

Pay == paid' = [paid EXCEPT ![turn] = @ + 1]

Body ==
    /\ at = "paying" /\ armed # host
    /\ Pay
    /\ at' = "finishing"
    /\ UNCHANGED <<ledger, session, host, turn, snap, armed, settles, shown, counts>>

(* SimulatedWorkerCrash at the effect seam: the charge may have left, and    *)
(* its record never lands.                                                   *)
Crash ==
    /\ at = "paying" /\ armed = host
    /\ Pay \/ UNCHANGED paid
    /\ Note([cache[host] EXCEPT !.effect = turn])
    /\ lease' = None /\ armed' = None
    /\ UNCHANGED <<tool, effect, saved, host, turn, snap, settles, shown, counts>>

FinishCharge ==
    /\ at = "finishing"
    /\ effect' = [effect EXCEPT ![turn] = "done"]
    /\ lease' = None
    /\ at' = "recording"
    /\ UNCHANGED <<tool, session, host, turn, snap, armed, settles, shown, paid, counts>>

FinishTool ==
    /\ at = "recording"
    /\ tool' = [tool EXCEPT ![turn].state = "done"]
    /\ at' = "engine"
    /\ UNCHANGED <<effect, lease, session, host, turn, snap, armed, settles, shown, paid, counts>>

(* The frame is put; the finally clause writes the session as it is now. *)
Finally ==
    /\ at = "noted"
    /\ snap' = cache[host]
    /\ at' = "saving"
    /\ UNCHANGED <<ledger, session, host, turn, armed, settles, shown, paid, counts>>

Remember ==
    /\ at = "saving"
    /\ saved' = snap
    /\ at' = IF pending = {} THEN "over" ELSE "idle"
    /\ UNCHANGED <<ledger, cache, host, turn, snap, armed, settles, shown, paid, counts>>

(* Mutant of Cancel: a call that is cut off is taken back. *)
Cancel_TakesBack ==
    /\ at \in Inside
    /\ cuts < MaxCuts /\ cuts' = cuts + 1
    /\ at' = "noted"
    /\ lease' = IF lease = Attempt THEN None ELSE lease
    /\ tool' = [tool EXCEPT ![turn].state = "ready"]
    /\ effect' = [effect EXCEPT ![turn] = "ready"]
    /\ UNCHANGED <<session, host, turn, snap, armed, settles, shown, paid, overlaps>>

(* The client leaves, or the operator aborts: nothing is noted. *)
Cancel ==
    /\ at \in Inside
    /\ cuts < MaxCuts /\ cuts' = cuts + 1
    /\ at' = "noted"
    /\ lease' = IF lease = Attempt THEN None ELSE lease
    /\ UNCHANGED <<tool, effect, session, host, turn, snap, armed, settles, shown, paid, overlaps>>

(* A worker really dies, with its cache, its attempt and its settlements.    *)
Die(w) ==
    /\ cuts < MaxCuts /\ cuts' = cuts + 1
    /\ cache' = [cache EXCEPT ![w] = None]
    /\ at' = IF host = w /\ at \notin {"idle", "over"} THEN "idle" ELSE at
    /\ armed' = IF armed = w THEN None ELSE armed
    /\ pc' = [s \in Settler |-> IF serves[s] = w THEN "idle" ELSE pc[s]]
    /\ lease' = IF (lease = Attempt /\ host = w) \/ lease \in {s \in Settler : serves[s] = w}
                THEN None ELSE lease
    /\ UNCHANGED <<tool, effect, saved, host, turn, snap, serves, flags, version, charged,
                   shown, paid, overlaps>>

-----------------------------------------------------------------------------
(* POST /api/settle. *)

Goto(s, l) == pc' = [pc EXCEPT ![s] = l]

(* The person has asked the provider about the call the page shows. *)
Post(s, w) ==
    /\ pc[s] = "idle" /\ shown # None
    /\ Join(at = "idle" /\ Quiet)
    /\ charged' = [charged EXCEPT ![s] = paid[shown] > 0]
    /\ serves' = [serves EXCEPT ![s] = w]
    /\ Goto(s, "flags")
    /\ UNCHANGED <<ledger, session, attempt, flags, version, shown, paid, cuts>>

ReadFlags(s) ==
    LET f == _session(serves[s])
    IN  /\ pc[s] = "flags"
        /\ Rehydrate(serves[s])
        /\ flags' = [flags EXCEPT ![s] = f]
        /\ Goto(s, IF f.step = None \/ f.effect = None THEN "idle" ELSE "unresolved")
        /\ UNCHANGED <<ledger, saved, attempt, serves, version, charged, shown, paid, counts>>

(* unresolved_effects lists the calls whose tool record is running. *)
Unresolved(s) ==
    LET c == flags[s].step[2]
    IN  /\ pc[s] = "unresolved"
        /\ version' = [version EXCEPT ![s] = tool[c].version]
        /\ Goto(s, IF flags[s].step[1] = "tool" /\ tool[c].state = "running"
                   THEN "acquire" ELSE "idle")
        /\ UNCHANGED <<ledger, session, attempt, serves, flags, charged, shown, paid, counts>>

Acquire(s) ==
    /\ pc[s] = "acquire"
    /\ lease' = IF lease = None THEN s ELSE lease
    /\ Goto(s, IF lease = None THEN "write" ELSE "idle")
    /\ UNCHANGED <<tool, effect, session, attempt, serves, flags, version, charged,
                   shown, paid, counts>>

(* Mutant of Settled: a record that is forgotten is not a record. *)
Settled_Absent(state, yes) == IF yes THEN "done" ELSE "absent"

(* finish_effect, or forget; the second is taken to leave a result alone. *)
Settled(state, yes) == IF yes THEN "done" ELSE IF state = "running" THEN "ready" ELSE state

WriteEffect(s) ==
    /\ pc[s] = "write"
    /\ effect' = [effect EXCEPT ![flags[s].effect] = Settled(@, charged[s])]
    /\ lease' = None
    /\ Goto(s, "resolve")
    /\ UNCHANGED <<tool, session, attempt, serves, flags, version, charged, shown, paid, counts>>

(* Mutant of Resolve: the answer is not looked at. *)
Resolve_Confirms(s) ==
    LET c == flags[s].step[2]
    IN  /\ pc[s] = "resolve"
        /\ tool' = [tool EXCEPT ![c].state = "done"]
        /\ cache' = [cache EXCEPT ![serves[s]] = NoFlags]
        /\ Goto(s, "save")
        /\ UNCHANGED <<effect, lease, saved, attempt, serves, flags, version, charged,
                       shown, paid, counts>>

(* resolve_effect, bound to the version that was read, and the two pops. *)
Resolve(s) ==
    LET c == flags[s].step[2]
    IN  /\ pc[s] = "resolve"
        /\ tool[c] = [state |-> "running", version |-> version[s]]
        /\ tool' = [tool EXCEPT ![c].state = IF charged[s] THEN "done" ELSE "ready"]
        /\ cache' = [cache EXCEPT ![serves[s]] = NoFlags]
        /\ Goto(s, "save")
        /\ UNCHANGED <<effect, lease, saved, attempt, serves, flags, version, charged,
                       shown, paid, counts>>

(* The record has changed since: the engine refuses, and the flags stay. *)
ResolveStale(s) ==
    /\ pc[s] = "resolve"
    /\ tool[flags[s].step[2]] # [state |-> "running", version |-> version[s]]
    /\ Goto(s, "idle")
    /\ UNCHANGED <<ledger, session, attempt, serves, flags, version, charged, shown, paid, counts>>

SaveFlags(s) ==
    /\ pc[s] = "save"
    /\ saved' = NoFlags
    /\ shown' = None
    /\ Goto(s, "idle")
    /\ UNCHANGED <<ledger, cache, attempt, serves, flags, version, charged, paid, counts>>

-----------------------------------------------------------------------------
Engine ==
    \/ Finished \/ \E c \in Calls : ToolRunning(c) \/ StartTool(c)
    \/ Contended \/ Charged \/ ChargeRunning \/ StartCharge
    \/ Body \/ Crash \/ FinishCharge \/ FinishTool
    \/ Finally \/ Remember

Serve(s) == \/ ReadFlags(s) \/ Unresolved(s) \/ Acquire(s) \/ WriteEffect(s)
            \/ Resolve(s) \/ ResolveStale(s) \/ SaveFlags(s)

Next ==
    \/ Engine \/ Cancel
    \/ \E w \in Worker : Recover(w) \/ Die(w) \/ Touch(w)
    \/ \E s \in Settler : Serve(s) \/ \E w \in Worker : Post(s, w)

Spec == Init /\ [][Next]_vars

(* The event loop runs the attempt and the handlers; and the person goes on: *)
(* recovers the run when nothing else happens, and answers sooner or later   *)
(* when the page keeps asking.                                               *)
FairSpec ==
    /\ Spec
    /\ WF_vars(Engine)
    /\ \A s \in Settler : WF_vars(Serve(s))
    /\ SF_vars(\E w \in Worker : Recover(w))
    /\ SF_vars(\E s \in Settler, w \in Worker : Post(s, w))

-----------------------------------------------------------------------------
(* The provider accepts at most one request of a charge, whatever crashed,   *)
(* was cancelled, or was half settled, and however often the person answers. *)
PaidOnce == \A c \in Calls : paid[c] <= 1
ChargedOnce == overlaps = 0 => PaidOnce

(* A run that tells the customer was charged is right, by whichever way the  *)
(* result came: performed, replayed, or confirmed by a person.               *)
Truthful == \A c \in Calls : tool[c].state = "done" => paid[c] > 0
ToldIsTrue == overlaps = 0 => Truthful

(* The session forgets the key of a charge in doubt only when the doubt is   *)
(* over, whichever of its copies is written back ("a host that forgot the    *)
(* coordinates of its own uncertainty cannot honour it").                    *)
NotedIsKept ==
    [][\A c \in Calls : saved.effect = c /\ saved'.effect # c /\ overlaps = 0
         => tool'[c].state # "running"]_vars

(* A charge whose key was remembered does not stay in doubt: a settlement    *)
(* that died half way can be posted again, and comes to its end.             *)
Decided ==
    \A c \in Calls :
        saved.effect = c /\ tool[c].state = "running"
            ~> tool[c].state # "running" \/ overlaps > 0

(* No charge stays in doubt.  The code does not keep it.                     *)
DoubtEnds ==
    \A c \in Calls : tool[c].state = "running" ~> tool[c].state # "running"
=============================================================================
