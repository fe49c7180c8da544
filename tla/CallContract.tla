---------------------------- MODULE CallContract -----------------------------
(***************************************************************************)
(* What internal/database.Service promises of one call, seen from outside: *)
(* Query, Exec, DDL and the metadata calls (service.go).  A call either is *)
(* refused before anything happens, or is pending until it is answered     *)
(* once.  A call that changes data does so at most once.  The ok of a call *)
(* made for its change means the change was made; an error leaves open     *)
(* whether it was made or will still be made, since the service neither    *)
(* retries nor undoes a statement whose answer it did not wait for.        *)
(***************************************************************************)
CONSTANTS
    Calls,        \* the calls
    Requests,     \* what a call may ask
    AcceptedReqs, \* the requests that are carried out
    MutatingReqs, \* the requests that change data or schema
    ChangeReqs,   \* the requests made for their change: exec and ddl
    None

VARIABLES want, phase, effect, answer

vars == <<want, phase, effect, answer>>

Init ==
    /\ want   = [k \in Calls |-> None]
    /\ phase  = [k \in Calls |-> "idle"]
    /\ effect = {}
    /\ answer = [k \in Calls |-> "none"]

Invoke(k, r) ==
    /\ phase[k] = "idle" /\ r \in AcceptedReqs
    /\ want' = [want EXCEPT ![k] = r]
    /\ phase' = [phase EXCEPT ![k] = "pending"]
    /\ UNCHANGED <<effect, answer>>

Refused(k, r) ==
    /\ phase[k] = "idle" /\ r \notin AcceptedReqs
    /\ want' = [want EXCEPT ![k] = r]
    /\ phase' = [phase EXCEPT ![k] = "replied"]
    /\ answer' = [answer EXCEPT ![k] = "error"]
    /\ UNCHANGED effect

\* The change may come after the error that reported its timeout.
TakeEffect(k) ==
    /\ phase[k] # "idle" /\ answer[k] # "ok"
    /\ want[k] \in AcceptedReqs \cap MutatingReqs
    /\ k \notin effect
    /\ effect' = effect \cup {k}
    /\ UNCHANGED <<want, phase, answer>>

Answer(k, a) ==
    /\ phase[k] = "pending"
    /\ (a = "ok" /\ want[k] \in ChangeReqs) => k \in effect
    /\ phase' = [phase EXCEPT ![k] = "replied"]
    /\ answer' = [answer EXCEPT ![k] = a]
    /\ UNCHANGED <<want, effect>>

Next ==
    \E k \in Calls :
        \/ \E r \in Requests : Invoke(k, r) \/ Refused(k, r)
        \/ TakeEffect(k)
        \/ \E a \in {"ok", "error"} : Answer(k, a)

Spec == Init /\ [][Next]_vars
=============================================================================
