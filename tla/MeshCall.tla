------------------------------ MODULE MeshCall ------------------------------
(* What a remote call promises its caller, whoever carries it: the server   *)
(* answers a call at most once, and only after it was made; the caller gets *)
(* one outcome and keeps it.  An answer it gets is the one that was given.  *)
CONSTANT Call

VARIABLES made,      \* the calls that were made
          answer,    \* what the server answered
          outcome    \* what the caller got
callVars == <<made, answer, outcome>>

Init == /\ made = {}
        /\ answer = [c \in Call |-> "none"]
        /\ outcome = [c \in Call |-> "none"]

Make(c) == /\ c \notin made
           /\ made' = made \cup {c}
           /\ UNCHANGED <<answer, outcome>>

\* An answer may be given when the caller no longer waits.
Answer(c, a) == /\ c \in made /\ answer[c] = "none"
                /\ answer' = [answer EXCEPT ![c] = a]
                /\ UNCHANGED <<made, outcome>>

\* A result is the one that was given; every call may fail, or end with
\* nothing at all.
Finish(c, o) == /\ outcome[c] = "none"
                /\ o = "result" => answer[c] = "response"
                /\ outcome' = [outcome EXCEPT ![c] = o]
                /\ UNCHANGED <<made, answer>>

Next == \E c \in Call :
            \/ Make(c)
            \/ \E a \in {"response", "error"} : Answer(c, a)
            \/ \E o \in {"result", "failed", "nothing"} : Finish(c, o)

Spec == Init /\ [][Next]_callVars

=============================================================================
