------------------------------ MODULE MCMutex ------------------------------
(* Model-checking instance of Mutex: it ends when every call has been made. *)
EXTENDS Mutex

Terminating ==
    /\ \A p \in Proc : pc[p] = "idle"
    /\ calls = MaxCalls
    /\ UNCHANGED vars

MCSpec == Init /\ [][Next \/ Terminating]_vars /\ Fairness
=============================================================================
