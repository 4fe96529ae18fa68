-------------------------------- MODULE Page --------------------------------
(***************************************************************************)
(* What the pages of the frontend have in common: handlers that run to     *)
(* their next await, requests in flight, and answers in any order          *)
(* (frontend/src/services/api/client.ts: request).  A request carries the  *)
(* number of the click that led to it, so that equal ones are told apart.  *)
(***************************************************************************)
EXTENDS Naturals, FiniteSets, Sequences, TLC

CONSTANT MaxClicks  \* what the user starts (a bound)

VARIABLES
  clicks,  \* how often the user did something
  reqs     \* requests in flight: [n, op, arg, got, cancelled], arg a record

ASSUME MaxClicksAssumption == MaxClicks \in Nat

(* However often the user has clicked before.                               *)
PageInit == clicks \in 0 .. MaxClicks /\ reqs = {}

NoArg == [no |-> {}]

(* One more click; the handler goes on in the same action.                  *)
Press == clicks < MaxClicks /\ clicks' = clicks + 1

Request(n, op, arg) == [n |-> n, op |-> op, arg |-> arg, got |-> {}, cancelled |-> FALSE]

(* the first request of a click's handler *)
Asked(op, arg) == reqs' = reqs \cup {Request(clicks', op, arg)}

(* the handler that waited for r ends, or goes on to ask for another thing  *)
Ended(r)          == reqs' = reqs \ {r}
Then(r, op, arg)  == reqs' = (reqs \ {r}) \cup {Request(r.n, op, arg)}

(* the backend has handled r; the answer is under way *)
Handled(r, value) == reqs' = (reqs \ {r}) \cup {[r EXCEPT !.got = {value}]}

(* An effect that is run again, or whose component goes, cancels what it     *)
(* asked before (hooks/useServerTaxonomy.ts and others).                    *)
Cancelled(op) == {IF r.op = op THEN [r EXCEPT !.cancelled = TRUE] ELSE r : r \in reqs}

(* Mutant: the answer of a cancelled request is taken.                      *)
UncancelledAll(r) == TRUE

Uncancelled(r) == ~r.cancelled

Waiting(op) == {r \in reqs : r.op = op}
Open(op)    == {r \in Waiting(op) : r.got = {}}
Ready(op)   == {r \in Waiting(op) : r.got # {}}
=============================================================================
