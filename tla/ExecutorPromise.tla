---------------------------- MODULE ExecutorPromise ----------------------------
(* What the executor promises to those who give it executions: of all that it *)
(* is given for a key (a slot and a batch index) it keeps the first, as it    *)
(* was when it was stored, settles it, once, and never forgets or reopens it. *)
(* Only those who give it two at once for a key do not know which it keeps.   *)
CONSTANTS
    Keys,
    Executions,  \* what may be given for a key
    Nothing      \* stands for none of them

VARIABLES
    kept,      \* the execution of each key
    settled,   \* keys whose execution is finalized
    contested  \* keys for which two have been given at once

vars == <<kept, settled, contested>>

Init == kept = [k \in Keys |-> Nothing] /\ settled = {} /\ contested = {}

(* The execution of k becomes one of those given. *)
Becomes(k) == kept'[k] \in Executions /\ kept' = [kept EXCEPT ![k] = kept'[k]]

Contest(k) ==
    /\ contested' = contested \cup {k}
    /\ UNCHANGED <<kept, settled>>

Keep(k) ==
    /\ kept[k] = Nothing \/ (k \in contested /\ k \notin settled)
    /\ Becomes(k)
    /\ UNCHANGED <<settled, contested>>

Settle(k) ==
    /\ kept[k] # Nothing /\ k \notin settled
    /\ settled' = settled \cup {k}
    /\ IF k \in contested THEN Becomes(k) ELSE UNCHANGED kept
    /\ UNCHANGED contested

Next == \E k \in Keys : Contest(k) \/ Keep(k) \/ Settle(k)

Spec == Init /\ [][Next]_vars

(* What is kept is settled in the end. *)
Fulfilled == \A k \in Keys : kept[k] # Nothing ~> k \in settled
=============================================================================
