-------------------------------- MODULE Budget --------------------------------
(***************************************************************************)
(* What the request budget promises: a caller has at most Limit requests   *)
(* admitted in any window, and is refused only when they are spent.        *)
(* log[c] holds the times of the requests of caller c that were admitted.  *)
(***************************************************************************)
EXTENDS Integers, Sequences

CONSTANTS
    Caller,     \* addresses
    Limit,      \* RATE_LIMIT, requests
    Window      \* RATE_WINDOW, in ticks of the clock

VARIABLES now, log, answer

Init ==
    /\ now = 0
    /\ log = [c \in Caller |-> <<>>]
    /\ answer = <<>>

(* The admission Limit requests ago is still in the window. *)
Spent(c) ==
    LET n == Len(log[c])
    IN  n >= Limit /\ now - log[c][n - Limit + 1] <= Window

Admit(c) ==
    /\ ~Spent(c)
    /\ log' = [log EXCEPT ![c] = Append(@, now)]
    /\ answer' = <<c, "admitted">>
    /\ UNCHANGED now

Refuse(c) ==
    /\ Spent(c)
    /\ answer' = <<c, "refused">>
    /\ UNCHANGED <<now, log>>

Tick == now' = now + 1 /\ UNCHANGED <<log, answer>>

Next == Tick \/ \E c \in Caller : Admit(c) \/ Refuse(c)

Spec == Init /\ [][Next]_<<now, log, answer>>
=============================================================================
