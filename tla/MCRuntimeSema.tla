--------------------------- MODULE MCRuntimeSema ---------------------------
(* Model-checking instance of RuntimeSema.  A run may stop only when every *)
(* goroutine is out of calls or rightly asleep.                            *)
EXTENDS RuntimeSema

Quiescent ==
    /\ \A p \in Proc : At(p, "idle") \/ (At(p, "parked") /\ sem[call[p].addr] = 0)
    /\ calls = MaxCalls \/ \A p \in Proc : At(p, "parked")
    /\ UNCHANGED vars

MCSpec == Init /\ [][Next \/ Quiescent]_vars /\ \A p \in Proc : WF_vars(Step(p))
=============================================================================
