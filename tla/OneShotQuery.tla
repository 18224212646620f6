----------------------------- MODULE OneShotQuery -----------------------------
(***************************************************************************)
(* What the mdns component promises to each of its callers about a query:  *)
(* once asked it ends, when its time is over or the results it asked for   *)
(* are there and not before, it stays ended until the caller releases it,  *)
(* and what is released has nothing more to do with the query: no other    *)
(* caller's query, and no earlier one, ends or takes away this one.        *)
(* Several queries may end at once.                                        *)
(***************************************************************************)
CONSTANT Callers

VARIABLES
  phase,   (* of each caller's query                                       *)
  due      (* there is a reason for it to end                              *)

vars == <<phase, due>>

Init == phase = [c \in Callers |-> "idle"] /\ due = [c \in Callers |-> FALSE]

Goes(c, from, to) == phase[c] = from /\ phase'[c] = to

Asks(c) == Goes(c, "idle", "asked") /\ ~due'[c]

FallsDue(c) == phase[c] # "idle" /\ phase'[c] = phase[c] /\ due'[c]

Ends(c) == Goes(c, "asked", "ended") /\ due'[c]

Releases(c) == Goes(c, "ended", "idle") /\ ~due'[c]

Rests(c) == phase'[c] = phase[c] /\ due'[c] = due[c]

Next == \A c \in Callers : Asks(c) \/ FallsDue(c) \/ Ends(c) \/ Releases(c) \/ Rests(c)

Spec == Init /\ [][Next]_vars
=============================================================================
