----------------------------- MODULE AnchoredLog -----------------------------
(* What anchoring promises (docs/contracts/attesta/tables.md): the tenant's *)
(* chain is cut into ranges from its beginning on, a range once cut never   *)
(* changes, and a range is proven as a whole, in the log and by the time    *)
(* authority alike, once and for good.                                      *)
EXTENDS Naturals

VARIABLES
    length,     \* the records chained so far: seq 0 .. length - 1
    cut,        \* the ranges [from, to] cut so far
    proven      \* the ranges anchored in both services

logVars == <<length, cut, proven>>

LogInit == length = 0 /\ cut = {} /\ proven = {}

(* r begins where the last range ends, and covers chained records only.     *)
Follows(r) ==
    /\ r.from <= r.to /\ r.to < length
    /\ \A c \in cut : c.to < r.from
    /\ r.from = 0 \/ \E c \in cut : r.from = c.to + 1

Grow ==
    /\ length' = length + 1
    /\ UNCHANGED <<cut, proven>>

Cut(r) ==
    /\ Follows(r)
    /\ cut' = cut \cup {r}
    /\ UNCHANGED <<length, proven>>

Prove(r) ==
    /\ r \in cut \ proven \/ Follows(r)
    /\ cut' = cut \cup {r}
    /\ proven' = proven \cup {r}
    /\ UNCHANGED length

LogStep ==
    \/ Grow
    \/ \E r \in cut' : Cut(r) \/ Prove(r)

LogSpec == LogInit /\ [][LogStep]_logVars
=============================================================================
