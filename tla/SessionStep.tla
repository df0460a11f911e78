---------------------------- MODULE SessionStep ----------------------------
(***************************************************************************)
(* session_step (session.py) as DemoTools._charge uses it: attempts of one *)
(* conversation execute a charge under a business key, each inside a lease *)
(* it takes for that one effect.  Attempts are first runs, recoveries,     *)
(* resumptions and forks, on any worker.  pc names the await an attempt is *)
(* suspended at; code between two awaits is one step.                      *)
(*                                                                         *)
(* The ledger (semora_store) is outside the repository: its operations are *)
(* modelled from how session.py and server.py use them, in the weakest     *)
(* form that still explains their use (see the section "The ledger").      *)
(***************************************************************************)
EXTENDS Integers

CONSTANTS
    Attempt,    \* executions of charge_card in this conversation
    Settler,    \* calls of POST /api/settle
    Key,        \* business keys: charge:{intent}:{customer}
    Amount,     \* amounts, as _same_amount tells them apart
    NoOwner     \* the lease is free

ASSUME ProcAssumption == /\ Attempt \cap Settler = {}
                         /\ NoOwner \notin Attempt \cup Settler

ASSUME DataAssumption == Key # {} /\ Amount # {}

Proc == Attempt \cup Settler

VARIABLES
    \* the ledger
    lease,      \* [owner, token]: the conversation's lease and its last fencing token
    status,     \* status[k]: "ready", "running" or "done"
    recorded,   \* recorded[k]: the amount of the recorded result
    \* the attempts
    pc,         \* pc[p]: the await process p is suspended at
    token,      \* token[p]: the fencing token acquire gave p, 0 before
    call,       \* call[a]: the [key, amount] attempt a was asked to charge
    outcome,    \* outcome[a]: what the attempt's caller is told
    cancelled,  \* attempts with a cancellation on its way
    renewing,   \* attempts whose renewer task is alive
    armed,      \* the effect seam of FaultInjectingSteps is armed
    \* the settlements
    undecided,  \* keys whose charge a worker died carrying (undecided_effect)
    evidence,   \* evidence[s]: the key and what the provider answered about it
    \* the world, and history
    accepted,   \* attempts whose request the provider accepted
    epoch,      \* epoch[k]: 1 + the number of times k was forgotten
    gen         \* gen[a]: the epoch in which a started its step, 0 before

ledger   == <<lease, status, recorded>>
attempts == <<call, outcome, cancelled, renewing, armed>>   \* but for pc and token
history  == <<accepted, epoch, gen>>
vars == <<lease, status, recorded, pc, token, call, outcome, cancelled, renewing,
          armed, undecided, evidence, accepted, epoch, gen>>

Status  == {"ready", "running", "done"}
Waiting == {"acquire", "read", "start", "body", "finish", "release"}
PC      == Waiting \cup {"idle", "write", "done", "dead"}
Outcome == {"none", "charged", "replayed", "conflict", "contended",
            "indeterminate", "fenced", "crashed", "raised", "cancelled"}

(* Every variable has its type. *)
TypeOK ==
    /\ lease \in [owner : Proc \cup {NoOwner}, token : Nat]
    /\ status \in [Key -> Status]
    /\ recorded \in [Key -> Amount]
    /\ pc \in [Proc -> PC]
    /\ token \in [Proc -> Nat]
    /\ call \in [Attempt -> [key : Key, amount : Amount]]
    /\ outcome \in [Attempt -> Outcome]
    /\ cancelled \subseteq Attempt
    /\ renewing \subseteq Attempt
    /\ armed \in BOOLEAN
    /\ undecided \subseteq Key
    /\ evidence \in [Settler -> [key : Key, amount : Amount, charged : BOOLEAN]]
    /\ accepted \subseteq Attempt
    /\ epoch \in [Key -> Nat]
    /\ gen \in [Attempt -> Nat]

Init ==
    /\ lease = [owner |-> NoOwner, token |-> 0]
    /\ status = [k \in Key |-> "ready"]
    /\ recorded = [k \in Key |-> CHOOSE m \in Amount : TRUE]
    /\ pc = [p \in Proc |-> "idle"]
    /\ token = [p \in Proc |-> 0]
    /\ call \in [Attempt -> [key : Key, amount : Amount]]
    /\ outcome = [a \in Attempt |-> "none"]
    /\ cancelled = {}
    /\ renewing = {}
    /\ armed \in BOOLEAN
    /\ undecided = {}
    /\ evidence = [s \in Settler |-> CHOOSE e \in [key : Key, amount : Amount,
                                                   charged : BOOLEAN] : TRUE]
    /\ accepted = {}
    /\ epoch = [k \in Key |-> 1]
    /\ gen = [a \in Attempt |-> 0]

-----------------------------------------------------------------------------
(* The ledger.  acquire grants a free or lapsed lease under a new token and  *)
(* refuses it while another owner holds it.  A write is fenced: it takes     *)
(* effect only under the last token granted, lapsed or not.  Nothing more is *)
(* assumed: start does not itself look at the record it sets to running.     *)

Grant(p) == /\ lease.owner = NoOwner
            /\ lease' = [owner |-> p, token |-> lease.token + 1]
            /\ token' = [token EXCEPT ![p] = lease.token + 1]

Current(p) == token[p] = lease.token

SetRunning(a) ==
    /\ status' = [status EXCEPT ![call[a].key] = "running"]
    /\ gen' = [gen EXCEPT ![a] = epoch[call[a].key]]

SetDone(k, m) ==
    /\ status' = [status EXCEPT ![k] = "done"]
    /\ recorded' = [recorded EXCEPT ![k] = m]

Free(p) == lease' = IF lease.owner = p THEN [lease EXCEPT !.owner = NoOwner] ELSE lease

(* The lease runs out: its holder died, stalled, or its renewal did not land. *)
Expire ==
    /\ lease.owner # NoOwner
    /\ lease' = [lease EXCEPT !.owner = NoOwner]
    /\ UNCHANGED <<status, recorded, pc, token, attempts, undecided, evidence, history>>

-----------------------------------------------------------------------------
(* run and execute, for attempt a. *)

Goto(p, l) == pc' = [pc EXCEPT ![p] = l]

Tell(a, o) == outcome' = [outcome EXCEPT ![a] = o]

Begin(a) ==
    /\ pc[a] = "idle"
    /\ Goto(a, "acquire")
    /\ UNCHANGED <<ledger, token, attempts, undecided, evidence, history>>

(* The lease is taken and the renewer task created. *)
AcquireWin(a) ==
    /\ pc[a] = "acquire" /\ a \notin cancelled
    /\ Grant(a)
    /\ renewing' = renewing \cup {a}
    /\ Goto(a, "read")
    /\ UNCHANGED <<status, recorded, call, outcome, cancelled, armed, undecided,
                   evidence, history>>

\* Mutant: the falsy token is not checked.
AcquireLose_Unchecked(a) ==
    /\ pc[a] = "acquire" /\ a \notin cancelled
    /\ lease.owner # NoOwner
    /\ token' = [token EXCEPT ![a] = NoOwner]
    /\ Goto(a, "read")
    /\ UNCHANGED <<ledger, attempts, undecided, evidence, history>>

(* Contended: another effect of this conversation holds the lease. *)
AcquireLose(a) ==
    /\ pc[a] = "acquire" /\ a \notin cancelled
    /\ lease.owner # NoOwner
    /\ Tell(a, "contended")
    /\ Goto(a, "done")
    /\ UNCHANGED <<ledger, token, call, cancelled, renewing, armed, undecided,
                   evidence, history>>

\* Mutant: the finally block forgets to cancel the renewer.
Leave_KeepsRenewer(a, o) ==
    /\ Tell(a, o)
    /\ UNCHANGED renewing
    /\ Goto(a, "release")

(* Leaving the try block cancels the renewer before it releases the lease. *)
Leave(a, o) ==
    /\ Tell(a, o)
    /\ renewing' = renewing \ {a}
    /\ Goto(a, "release")

\* Mutant: the recorded amount is not compared.
ReadDone_AnyAmount(a) ==
    /\ pc[a] = "read" /\ a \notin cancelled
    /\ status[call[a].key] = "done"
    /\ Leave(a, "replayed")
    /\ UNCHANGED <<ledger, token, call, cancelled, armed, undecided, evidence, history>>

(* The recorded result is returned; _charge refuses another amount. *)
ReadDone(a) ==
    /\ pc[a] = "read" /\ a \notin cancelled
    /\ status[call[a].key] = "done"
    /\ Leave(a, IF recorded[call[a].key] = call[a].amount THEN "replayed" ELSE "conflict")
    /\ UNCHANGED <<ledger, token, call, cancelled, armed, undecided, evidence, history>>

(* Indeterminate: somebody started this effect and its result is not known. *)
ReadRunning(a) ==
    /\ pc[a] = "read" /\ a \notin cancelled
    /\ status[call[a].key] = "running"
    /\ Leave(a, "indeterminate")
    /\ UNCHANGED <<ledger, token, call, cancelled, armed, undecided, evidence, history>>

ReadReady(a) ==
    /\ pc[a] = "read" /\ a \notin cancelled
    /\ status[call[a].key] = "ready"
    /\ Goto(a, "start")
    /\ UNCHANGED <<ledger, token, attempts, undecided, evidence, history>>

\* Mutant: start's answer is ignored.
StartLose_Proceeds(a) ==
    /\ pc[a] = "start" /\ a \notin cancelled
    /\ ~ Current(a)
    /\ Goto(a, "body")
    /\ UNCHANGED <<ledger, token, attempts, undecided, evidence, history>>

StartWin(a) ==
    /\ pc[a] = "start" /\ a \notin cancelled
    /\ Current(a)
    /\ SetRunning(a)
    /\ Goto(a, "body")
    /\ UNCHANGED <<lease, recorded, token, attempts, undecided, evidence, accepted, epoch>>

StartLose(a) ==
    /\ pc[a] = "start" /\ a \notin cancelled
    /\ ~ Current(a)
    /\ Leave(a, "indeterminate")
    /\ UNCHANGED <<ledger, token, call, cancelled, armed, undecided, evidence, history>>

(* The request leaves; whether the provider accepts it is not ours to say.    *)
(* The body has no await, so it and the seam check of finish_effect are one   *)
(* step: it returns and the write is sent, it returns and the armed seam      *)
(* kills the worker before the write, or it raises.                           *)
Body(a, taken) ==
    /\ pc[a] = "body"
    /\ accepted' = IF taken THEN accepted \cup {a} ELSE accepted
    /\ UNCHANGED <<ledger, token, call, cancelled, undecided, evidence, epoch, gen>>

BodyReturns(a) ==
    /\ Body(a, TRUE)
    /\ ~ armed
    /\ Goto(a, "finish")
    /\ UNCHANGED <<outcome, renewing, armed>>

\* Mutant: an exception is taken as proof that nothing left.
BodyRaises_Forgets(a) ==
    /\ pc[a] = "body"
    /\ accepted' \in {accepted, accepted \cup {a}}
    /\ status' = [status EXCEPT ![call[a].key] = "ready"]
    /\ Leave(a, "raised")
    /\ UNCHANGED <<lease, recorded, token, call, cancelled, undecided, evidence, epoch,
                   gen, armed>>

BodyCrashes(a) ==
    /\ \E taken \in BOOLEAN : Body(a, taken)
    /\ armed
    /\ armed' = FALSE
    /\ Leave(a, "crashed")

BodyRaises(a) ==
    /\ \E taken \in BOOLEAN : Body(a, taken)
    /\ Leave(a, "raised")
    /\ UNCHANGED armed

Finish(a) ==
    /\ pc[a] = "finish" /\ a \notin cancelled
    /\ Current(a)
    /\ SetDone(call[a].key, call[a].amount)
    /\ Leave(a, "charged")
    /\ UNCHANGED <<lease, token, call, cancelled, armed, undecided, evidence, history>>

(* Fenced: a later attempt holds the conversation; the step stays running. *)
FinishFenced(a) ==
    /\ pc[a] = "finish" /\ a \notin cancelled
    /\ ~ Current(a)
    /\ Leave(a, "fenced")
    /\ UNCHANGED <<ledger, token, call, cancelled, armed, undecided, evidence, history>>

(* release names the owner, so it never frees somebody else's lease.  What    *)
(* the try block ended with now reaches _stream, which remembers the business *)
(* key a simulated crash was carrying.                                        *)
Release(a) ==
    /\ pc[a] = "release" /\ a \notin cancelled
    /\ Free(a)
    /\ undecided' = IF outcome[a] = "crashed" THEN undecided \cup {call[a].key}
                                              ELSE undecided
    /\ Goto(a, "done")
    /\ UNCHANGED <<status, recorded, token, attempts, evidence, history>>

-----------------------------------------------------------------------------
(* The renewer task.  A renewal that lands extends the lease and changes     *)
(* nothing here.  One that finds the lease lost cancels the attempt and ends; *)
(* if the lease had only lapsed, it has meanwhile taken it again.            *)

RenewerEnds(a) ==
    /\ a \in renewing
    /\ renewing' = renewing \ {a}
    /\ cancelled' = cancelled \cup {a}
    /\ UNCHANGED <<status, recorded, pc, token, call, outcome, armed, undecided,
                   evidence, history>>

RenewLost(a) ==
    /\ lease.owner \notin {a, NoOwner}
    /\ RenewerEnds(a)
    /\ UNCHANGED lease

RenewRetake(a) ==
    /\ lease.owner = NoOwner
    /\ lease' = [owner |-> a, token |-> lease.token + 1]
    /\ RenewerEnds(a)

(* The operator aborts the run, or the browser of its stream goes away. *)
Cancel(a) ==
    /\ pc[a] \in Waiting \ {"body"}
    /\ cancelled' = cancelled \cup {a}
    /\ UNCHANGED <<ledger, pc, token, call, outcome, renewing, armed, undecided,
                   evidence, history>>

(* CancelledError is raised at the await; what that await had asked of the    *)
(* ledger may have been done or not.  acquire is outside the try block, so a  *)
(* lease it was granted is left to lapse; so is one whose release is cut off. *)
CancelAcquire(a) ==
    /\ pc[a] = "acquire" /\ a \in cancelled
    /\ Grant(a) \/ UNCHANGED <<lease, token>>
    /\ Tell(a, "cancelled")
    /\ Goto(a, "done")
    /\ cancelled' = cancelled \ {a}
    /\ UNCHANGED <<status, recorded, call, renewing, armed, undecided,
                   evidence, history>>

CancelInside(a) ==
    /\ pc[a] \in {"read", "start", "finish"} /\ a \in cancelled
    /\ \/ pc[a] = "start" /\ Current(a) /\ SetRunning(a) /\ UNCHANGED recorded
       \/ pc[a] = "finish" /\ Current(a) /\ SetDone(call[a].key, call[a].amount)
          /\ UNCHANGED gen
       \/ UNCHANGED <<status, recorded, gen>>
    /\ Leave(a, "cancelled")
    /\ cancelled' = cancelled \ {a}
    /\ UNCHANGED <<lease, token, call, armed, undecided, evidence, accepted, epoch>>

CancelRelease(a) ==
    /\ pc[a] = "release" /\ a \in cancelled
    /\ Free(a) \/ UNCHANGED lease
    /\ Tell(a, "cancelled")
    /\ Goto(a, "done")
    /\ cancelled' = cancelled \ {a}
    /\ UNCHANGED <<status, recorded, token, call, renewing, armed, undecided,
                   evidence, history>>

(* The worker process dies at any point: no finally block runs. *)
Die(a) ==
    /\ pc[a] \in Waiting
    /\ Goto(a, "dead")
    /\ renewing' = renewing \ {a}
    /\ cancelled' = cancelled \ {a}
    /\ UNCHANGED <<ledger, token, call, outcome, armed, undecided,
                   evidence, history>>

-----------------------------------------------------------------------------
(* POST /api/settle, the half that writes the business record.  The person   *)
(* has asked the provider before the request is posted, and answers honestly *)
(* about what the provider held then.                                        *)

SettleAsk(s, k) ==
    /\ pc[s] = "idle"
    /\ k \in undecided
    /\ \E a \in Attempt :
          /\ pc[a] = "done" /\ outcome[a] = "crashed" /\ call[a].key = k
          /\ evidence' = [evidence EXCEPT ![s] =
                 [key     |-> k,
                  amount  |-> call[a].amount,
                  charged |-> \E b \in accepted : call[b].key = k]]
    /\ Goto(s, "acquire")
    /\ UNCHANGED <<ledger, token, attempts, undecided, history>>

SettleAcquire(s) ==
    /\ pc[s] = "acquire"
    /\ \/ /\ Grant(s)
          /\ Goto(s, "write")
       \/ /\ lease.owner # NoOwner
          /\ Goto(s, "done")
          /\ UNCHANGED <<lease, token>>
    /\ UNCHANGED <<status, recorded, attempts, undecided, evidence, history>>

(* finish_effect with the provider's result, or forget; both fenced.  forget *)
(* is taken to leave a recorded result alone, the kinder of its two readings. *)
SettleWrite(s) ==
    LET k == evidence[s].key IN
    /\ pc[s] = "write"
    /\ \/ /\ Current(s) /\ evidence[s].charged
          /\ SetDone(k, evidence[s].amount)
          /\ UNCHANGED epoch
       \/ /\ Current(s) /\ ~ evidence[s].charged /\ status[k] = "running"
          /\ status' = [status EXCEPT ![k] = "ready"]
          /\ epoch' = [epoch EXCEPT ![k] = @ + 1]
          /\ UNCHANGED recorded
       \/ /\ ~ Current(s) \/ (~ evidence[s].charged /\ status[k] # "running")
          /\ UNCHANGED <<status, recorded, epoch>>
    /\ Goto(s, "release")
    /\ UNCHANGED <<lease, token, attempts, undecided, evidence, accepted, gen>>

(* The tool record is resolved elsewhere (Settlement); the flags are cleared. *)
SettleRelease(s) ==
    /\ pc[s] = "release"
    /\ Free(s)
    /\ undecided' = undecided \ {evidence[s].key}
    /\ Goto(s, "done")
    /\ UNCHANGED <<status, recorded, token, attempts, evidence, history>>

SettleDies(s) ==
    /\ pc[s] \in {"acquire", "write", "release"}
    /\ Goto(s, "dead")
    /\ UNCHANGED <<ledger, token, attempts, undecided, evidence, history>>

-----------------------------------------------------------------------------
(* What an attempt does when it runs at all. *)
Step(a) ==
    \/ AcquireWin(a) \/ AcquireLose(a)
    \/ ReadDone(a) \/ ReadRunning(a) \/ ReadReady(a)
    \/ StartWin(a) \/ StartLose(a)
    \/ BodyReturns(a) \/ BodyCrashes(a) \/ BodyRaises(a)
    \/ Finish(a) \/ FinishFenced(a) \/ Release(a)
    \/ CancelAcquire(a) \/ CancelInside(a) \/ CancelRelease(a)

Disturb(a) == RenewLost(a) \/ RenewRetake(a) \/ Cancel(a) \/ Die(a)

Settle(s) == \/ \E k \in Key : SettleAsk(s, k)
             \/ SettleAcquire(s) \/ SettleWrite(s) \/ SettleRelease(s)

Next == \/ Expire
        \/ \E a \in Attempt : Begin(a) \/ Step(a) \/ Disturb(a)
        \/ \E s \in Settler : Settle(s) \/ SettleDies(s)

Spec == Init /\ [][Next]_vars

(* A lease nobody renews does run out. *)
ExpireUnrenewed == lease.owner \notin renewing /\ Expire

(* The event loop keeps running a task that can run, the clock keeps running, *)
(* and the loop that a settlement runs on does too.                           *)
Fairness == /\ WF_vars(ExpireUnrenewed)
            /\ \A a \in Attempt : WF_vars(Step(a))
            /\ \A s \in Settler : WF_vars(SettleAcquire(s) \/ SettleWrite(s)
                                           \/ SettleRelease(s))

FairSpec == Spec /\ Fairness

-----------------------------------------------------------------------------
(* Each time a person reopens a key, and once at the beginning, at most one   *)
(* attempt gets past start and into the charge (execute's read, start, body). *)
OneStartPerEpoch ==
    \A a, b \in Attempt :
        (gen[a] # 0 /\ gen[a] = gen[b] /\ call[a].key = call[b].key) => a = b

(* The provider accepts at most one request for a business key, whatever      *)
(* crashed, lapsed, was cancelled or was retried: "Execute each session key   *)
(* once, preserving uncertainty after interruption" (session.py).             *)
ChargedAtMostOnce ==
    \A a, b \in accepted : call[a].key = call[b].key => a = b

(* An attempt that tells its caller the customer was charged is right: the    *)
(* provider accepted a request for that key and that amount, and the ledger   *)
(* holds it, so every later recovery and fork will be told the same.          *)
ReportedIsTrue ==
    \A a \in Attempt : outcome[a] \in {"charged", "replayed"} =>
        /\ status[call[a].key] = "done"
        /\ recorded[call[a].key] = call[a].amount
        /\ \E b \in accepted : call[b] = call[a]

(* A recorded result is final: no recovery, fork, or settlement replaces it. *)
RecordedIsFinal ==
    [][\A k \in Key : status[k] = "done" =>
          status'[k] = "done" /\ recorded'[k] = recorded[k]]_vars

(* Whoever dies or is cancelled holding the conversation, it becomes free and *)
(* stays free: no renewer outlives the effect it was renewing for.            *)
LeaseComesFree == <>[](lease.owner = NoOwner)

(* The machine keeps the abstract promise. *)
Once == INSTANCE ChargeOnce WITH
    state  <- status,
    rights <- {<<a, call[a].key>> : a \in {b \in Attempt : pc[b] = "body"}},
    paid   <- {<<a, call[a].key>> : a \in accepted}
Promise == Once!Spec
=============================================================================
