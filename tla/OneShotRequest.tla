-------------------------- MODULE OneShotRequest --------------------------
(***************************************************************************)
(* What the UART request table of app_uart.c promises to the rest of the   *)
(* firmware, without slots, sequence numbers or clocks.  Every call of     *)
(* app_uart_send_cmd_with_cb is a request numbered in the order of the     *)
(* calls; so is every frame sent without a callback.  A request is either  *)
(* opened, or silent from the start (its sender got a negative value or    *)
(* gave no callback).  An open request is closed exactly once, by the run  *)
(* of its callback with the answer the SOC gave to this very request, or   *)
(* by the timeout.  A closed or silent request never changes again and its *)
(* callback is never run (again).                                          *)
(***************************************************************************)
EXTENDS Naturals, Sequences

VARIABLES
    status,   \* status[n]: what became of the n-th request
    calls     \* <<n, m>> : the callback of n was run with the answer to m

Status == {"unsent", "open", "silent", "answered", "expired"}

Init == /\ \A n \in DOMAIN status : status[n] = "unsent"
        /\ calls = << >>

Open(n) == /\ status[n] = "unsent"
           /\ status' = [status EXCEPT ![n] = "open"]
           /\ UNCHANGED calls

\* A frame without a callback, or a negative return value.
Silence(n) == /\ status[n] = "unsent"
             /\ status' = [status EXCEPT ![n] = "silent"]
             /\ UNCHANGED calls

Answer(n) == /\ status[n] = "open"
             /\ status' = [status EXCEPT ![n] = "answered"]
             /\ calls' = Append(calls, <<n, n>>)

\* One sweep of the clock may close any number of requests.
Expire(S) == /\ S # {}
             /\ \A n \in S : status[n] = "open"
             /\ status' = [n \in DOMAIN status |->
                             IF n \in S THEN "expired" ELSE status[n]]
             /\ UNCHANGED calls

Next == \/ \E n \in DOMAIN status : Open(n) \/ Silence(n) \/ Answer(n)
        \/ \E S \in SUBSET DOMAIN status : Expire(S)

vars == <<status, calls>>

Spec == Init /\ [][Next]_vars
===========================================================================
