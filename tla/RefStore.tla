------------------------------ MODULE RefStore ------------------------------
(***************************************************************************)
(* What the write-ahead log promises its clients: one map of refs, moved   *)
(* only by whole updates, each applied atomically and only over the values *)
(* its client expected, and acknowledged only once applied.  A refusal     *)
(* promises nothing: its update may have been applied and the answer lost. *)
(***************************************************************************)
EXTENDS GitRefs

CONSTANT Clients

VARIABLES
    refs,   \* the refs of the repository
    upd,    \* upd[c]: the update client c asked for
    answer  \* answer[c]: "none", "pending", "ok" or "refused"

vars == <<refs, upd, answer>>

TypeOK ==
    /\ refs \in RefMap
    /\ upd \in [Clients -> Update]
    /\ answer \in [Clients -> {"none", "pending", "ok", "refused"}]

Init ==
    /\ refs \in RefMap
    /\ upd = [c \in Clients |-> NoUpdate]
    /\ answer = [c \in Clients |-> "none"]

Ask(c) ==
    /\ answer[c] = "none"
    /\ \E u \in Update : upd' = [upd EXCEPT ![c] = u]
    /\ answer' = [answer EXCEPT ![c] = "pending"]
    /\ UNCHANGED refs

\* The update takes effect, and is acknowledged or loses its answer.
Commit(c) ==
    /\ answer[c] = "pending"
    /\ CheckPreconditions(refs, upd[c])
    /\ refs' = UpdatedRefs(refs, upd[c])
    /\ \E a \in {"ok", "refused", "pending"} : answer' = [answer EXCEPT ![c] = a]
    /\ UNCHANGED upd

Refuse(c) ==
    /\ answer[c] = "pending"
    /\ answer' = [answer EXCEPT ![c] = "refused"]
    /\ UNCHANGED <<refs, upd>>

Done(c) ==
    /\ answer[c] \in {"ok", "refused"}
    /\ answer' = [answer EXCEPT ![c] = "none"]
    /\ upd' = [upd EXCEPT ![c] = NoUpdate]
    /\ UNCHANGED refs

Next == \E c \in Clients : Ask(c) \/ Commit(c) \/ Refuse(c) \/ Done(c)

Spec == Init /\ [][Next]_vars

=============================================================================
