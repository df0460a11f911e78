------------------------------ MODULE RateLimit ------------------------------
(***************************************************************************)
(* The request budget of server.py: rate_limit and its table _hits, which  *)
(* keeps of each caller the times of its last requests, forgets those out  *)
(* of the window when the caller comes again, and whole callers when too   *)
(* many are known.  The handler has no await before it is done with them.  *)
(*                                                                         *)
(* Time is monotonic, in ticks; a restart of the process is not modelled.  *)
(***************************************************************************)
EXTENDS Integers, Sequences, FiniteSets

CONSTANTS
    Caller,     \* what _caller takes a request to come from
    Limit,      \* RATE_LIMIT
    Window,     \* RATE_WINDOW, in ticks
    Second,     \* ticks of a second
    Known,      \* 4096, the callers known before quiet ones are forgotten
    MaxTime     \* bound on the clock

ASSUME LimitAssumption == Limit \in Nat \ {0} /\ Window \in Nat /\ Second \in Nat \ {0}
ASSUME BoundAssumption == Known \in Nat /\ MaxTime \in Nat

VARIABLES
    now,        \* time.monotonic()
    table,      \* the keys of _hits
    hits,       \* hits[c]: the deque of caller c, empty without one
    log,        \* log[c]: the times of every request of c that was admitted
    answer,     \* the last answer: whom, and whether the request went on
    until       \* until[c]: when the last Retry-After of c runs out; 0 after a success

vars == <<now, table, hits, log, answer, until>>

(* Every variable has its type, and a caller without an entry has no hits.   *)
TypeOK ==
    /\ now \in Nat
    /\ table \subseteq Caller
    /\ hits \in [Caller -> Seq(Nat)] /\ \A c \in Caller \ table : hits[c] = <<>>
    /\ log \in [Caller -> Seq(Nat)]
    /\ answer \in {<<>>} \cup (Caller \X {"admitted", "refused"})
    /\ until \in [Caller -> Nat]

Init ==
    /\ now = 0
    /\ table = {} /\ hits = [c \in Caller |-> <<>>]
    /\ log = [c \in Caller |-> <<>>]
    /\ answer = <<>> /\ until = [c \in Caller |-> 0]

(* Mutant of Expired: a hit is dropped a tick early. *)
Expired_Early(t) == now - t >= Window

Expired(t) == now - t > Window

(* popleft while the oldest hit has expired. *)
Live(s) ==
    LET k == CHOOSE k \in 0..Len(s) :
                /\ \A i \in 1..k : Expired(s[i])
                /\ k < Len(s) => ~Expired(s[k + 1])
    IN  SubSeq(s, k + 1, Len(s))

(* Mutants of retry: the difference the wrong way round; rounded down. *)
retry_Swapped(oldest) == ((now - oldest - Window) \div Second) + 1
retry_Floor(oldest) == (Window - (now - oldest)) \div Second

(* int(...) + 1 *)
retry(oldest) == ((Window - (now - oldest)) \div Second) + 1

(* Mutant of Gone: only empty entries. *)
Gone_Empty(t, h) == {c \in t : h[c] = <<>>}

(* The sweep: those whose newest hit has expired, when there are too many.   *)
Gone(t, h) ==
    IF Cardinality(t) > Known
    THEN {c \in t : h[c] = <<>> \/ Expired(h[c][Len(h[c])])}
    ELSE {}

Admit(c) ==
    LET seen == Live(hits[c])
        t == table \cup {c}
        h == [hits EXCEPT ![c] = Append(seen, now)]
    IN  /\ Len(seen) < Limit
        /\ table' = t \ Gone(t, h)
        /\ hits' = [d \in Caller |-> IF d \in Gone(t, h) THEN <<>> ELSE h[d]]
        /\ log' = [log EXCEPT ![c] = Append(@, now)]
        /\ answer' = <<c, "admitted">>
        /\ until' = [until EXCEPT ![c] = 0]
        /\ UNCHANGED now

Refuse(c) ==
    LET seen == Live(hits[c])
    IN  /\ Len(seen) >= Limit
        /\ table' = table \cup {c}
        /\ hits' = [hits EXCEPT ![c] = seen]
        /\ answer' = <<c, "refused">>
        /\ until' = [until EXCEPT ![c] = now + retry(seen[1]) * Second]
        /\ UNCHANGED <<now, log>>

Tick ==
    /\ now < MaxTime /\ now' = now + 1
    /\ UNCHANGED <<table, hits, log, answer, until>>

Next == Tick \/ \E c \in Caller : Admit(c) \/ Refuse(c)

Spec == Init /\ [][Next]_vars

-----------------------------------------------------------------------------
B == INSTANCE Budget

(* Each answer is the one that counting every request ever admitted would    *)
(* give: forgetting hits and callers changes no answer (rate_limit).         *)
Promise == B!Spec

(* No window of time, wherever it begins, has more than Limit requests of a  *)
(* caller, whatever the sweep has forgotten.                                 *)
WindowHolds ==
    \A c \in Caller : \A i \in 1..(Len(log[c]) - Limit) :
        log[c][i + Limit] - log[c][i] > Window

(* A caller who was refused and waits as long as Retry-After says is         *)
(* admitted.                                                                 *)
RetryIsEnough ==
    \A c \in Caller : until[c] > 0 /\ now >= until[c] => Len(Live(hits[c])) < Limit

(* The table grows past its cap only with callers seen in the window before  *)
(* the last admission.                                                       *)
TableIsBounded ==
    Cardinality(table) > Known =>
        \E c \in table : \A d \in table :
            log[c][Len(log[c])] - log[d][Len(log[d])] \in 0..Window
=============================================================================
