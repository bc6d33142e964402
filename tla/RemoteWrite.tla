---------------------------- MODULE RemoteWrite ----------------------------
(***************************************************************************)
(* What the gateway promises of a write (jira-http/src/lib.rs, module      *)
(* comment, and write_response.rs): Jira takes effect at most once, a      *)
(* write that is reported done took effect, one that is reported refused   *)
(* did not and never will, and everything else is reported as unknown.     *)
(* The comment, edit and watch flows of the dashboard rest on this.        *)
(***************************************************************************)
EXTENDS Naturals

CONSTANT Writes

VARIABLES
    effect,     \* how often Jira carried a write out
    answer      \* what the caller was told

Answers == {"none", "done", "refused", "unknown"}

Init ==
    /\ effect = [w \in Writes |-> 0]
    /\ answer = [w \in Writes |-> "none"]

(* Jira may carry a write out after the caller was told "unknown". *)
TakeEffect(w) ==
    /\ effect[w] = 0
    /\ answer[w] \in {"none", "unknown"}
    /\ effect' = [effect EXCEPT ![w] = 1]
    /\ UNCHANGED answer

Answer(w, told) ==
    /\ answer[w] = "none"
    /\ told = "done" => effect[w] = 1
    /\ told = "refused" => effect[w] = 0
    /\ answer' = [answer EXCEPT ![w] = told]
    /\ UNCHANGED effect

Next ==
    \E w \in Writes :
        \/ TakeEffect(w)
        \/ \E told \in Answers \ {"none"} : Answer(w, told)

Spec == Init /\ [][Next]_<<effect, answer>>
=============================================================================
