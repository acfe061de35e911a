------------------------------- MODULE Handle --------------------------------
(***************************************************************************)
(* What the shell asks of whoever holds its platform views (view.rs:6, the *)
(* dispose rule): a call into a view ends before its handle is closed, no  *)
(* call is made with a closed handle, and one call is made at a time.      *)
(***************************************************************************)
CONSTANTS Views, Users
VARIABLES open,  \* the handles that may be used
          calls  \* who is in a call with which

Init == open = {} /\ calls = {}

Idle(v) == \A u \in Users : <<u, v>> \notin calls

Open(v) == v \notin open /\ Idle(v) /\ open' = open \cup {v} /\ UNCHANGED calls
Begin(u, v) == v \in open /\ Idle(v) /\ calls' = calls \cup {<<u, v>>} /\ UNCHANGED open
End(u, v) == <<u, v>> \in calls /\ calls' = calls \ {<<u, v>>} /\ UNCHANGED open
Close(v) == v \in open /\ Idle(v) /\ open' = open \ {v} /\ UNCHANGED calls

Next == \E v \in Views : \/ Open(v) \/ Close(v)
                        \/ \E u \in Users : Begin(u, v) \/ End(u, v)
Spec == Init /\ [][Next]_<<open, calls>>
==============================================================================
