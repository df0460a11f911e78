----------------------------- MODULE ChargeOnce -----------------------------
(***************************************************************************)
(* What the console promises about an irreversible business effect, with   *)
(* the machinery left out: a business key (one request and one customer)   *)
(* is claimed by one attempt at a time, only the attempt that claimed it   *)
(* may ask the payment provider, and a claimed key becomes claimable again *)
(* only when a person reopens it.                                          *)
(***************************************************************************)
CONSTANTS Attempt,   \* executions of a charge: first runs, recoveries, forks
          Key        \* business keys of one conversation

VARIABLES state,     \* state[k]: "ready", "running" or "done"
          rights,    \* <<a, k>>: attempt a may ask the provider once for k
          paid       \* <<a, k>>: the provider accepted a's request for k

vars == <<state, rights, paid>>

State == {"ready", "running", "done"}

TypeOK == /\ state \in [Key -> State]
          /\ rights \subseteq Attempt \X Key
          /\ paid \subseteq Attempt \X Key

Init == /\ state = [k \in Key |-> "ready"]
        /\ rights = {}
        /\ paid = {}

(* The only step that creates a right, and it needs an unclaimed key.  The *)
(* attempt may lose the right with the same stroke (it was cancelled).     *)
Claim(a, k) == /\ state[k] = "ready"
               /\ state' = [state EXCEPT ![k] = "running"]
               /\ rights' = rights \cup {<<a, k>>} \/ UNCHANGED rights
               /\ UNCHANGED paid

(* The right is spent whether or not the provider takes the request. *)
Pay(a, k) == /\ <<a, k>> \in rights
             /\ rights' = rights \ {<<a, k>>}
             /\ paid' = paid \cup {<<a, k>>} \/ UNCHANGED paid
             /\ UNCHANGED state

(* A claimed key gets its answer, from the attempt or from a person. *)
Record(k) == /\ state[k] = "running"
             /\ state' = [state EXCEPT ![k] = "done"]
             /\ UNCHANGED <<rights, paid>>

(* A person says nothing left: the key may be claimed once more.  A key that *)
(* has its answer is never reopened.                                         *)
Reopen(k) == /\ state[k] = "running"
             /\ state' = [state EXCEPT ![k] = "ready"]
             /\ UNCHANGED <<rights, paid>>

Next == \/ \E a \in Attempt, k \in Key : Claim(a, k) \/ Pay(a, k)
        \/ \E k \in Key : Record(k) \/ Reopen(k)

Spec == Init /\ [][Next]_vars
=============================================================================
