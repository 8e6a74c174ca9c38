---------------------------- MODULE MCBrManager ----------------------------
(* The instance of BrManager that TLC checks: two requests for one address *)
(* and one for another.                                                    *)
EXTENDS BrManager, TLC

CONSTANTS a1, a2, r1, r2, r3

MCAddrOf == [r \in Requests |-> IF r = r3 THEN a2 ELSE a1]

\* The addresses can be swapped, with the requests for them.
Swap == {p \in Permutations(Addrs \cup Requests) :
            \A r \in Requests : p[r] \in Requests /\ p[AddrOf[r]] = AddrOf[p[r]]}
=============================================================================
