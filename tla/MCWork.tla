-------------------------------- MODULE MCWork --------------------------------
(***************************************************************************)
(* The job queue, the metrics chain and the clients that deliver metrics   *)
(* on small instances, one part to a behaviour.                            *)
(***************************************************************************)
EXTENDS SyncQueue, MetricsChain, RunDelivery, TLC

CONSTANTS
    WorkParts,       \* the parts a run explores
    p1, p2, w1, w2   \* processes and sync workers

VARIABLE workPart    \* the part this behaviour is of, or "none"

ASSUME WorkPartsAssumption == WorkParts \subseteq {"queue", "chain", "delivery", "shim"}

\* Two sync workers of one process, and one in each of two processes.
MCOneHost == (w1 :> p1) @@ (w2 :> p1)
MCTwoHosts == (w1 :> p1) @@ (w2 :> p2)

workVars == <<workPart, vars, chainVars, deliveryVars>>

InQueue(A) == workPart = "queue" /\ A /\ UNCHANGED <<workPart, chainVars, deliveryVars>>
InChain(A) == workPart = "chain" /\ A /\ UNCHANGED <<workPart, vars, deliveryVars>>

\* The clients come twice, within bounds of their own: all of them with one
\* mishap, and the shim alone, which lives and posts no heartbeat, with all mishaps
\* and refusals.
ShimAlone ==
    /\ shim.pc # "dead" /\ budget.pings = 0
    /\ syncer.pc = "idle" /\ \A d \in OfflineDirs : lines[d] = <<>>
InDelivery(A) ==
    /\ workPart = "delivery" /\ A /\ UNCHANGED <<workPart, vars, chainVars>>
    /\ budget'.mishaps <= 1 /\ budget'.refusals = 0
InShim(A) == workPart = "shim" /\ A /\ ShimAlone' /\ UNCHANGED <<workPart, vars, chainVars>>

WorkInit == workPart \in WorkParts /\ Init /\ ChainInit /\ DeliveryInit

WorkNext ==
    InQueue(Next) \/ InChain(ChainNext) \/ InDelivery(DeliveryNext) \/ InShim(DeliveryNext)

\* The variables of the part that runs keep their types.
WorkTypeOK ==
    /\ workPart = "queue" => TypeOK
    /\ workPart = "chain" => ChainTypeOK
    /\ workPart \in {"delivery", "shim"} => DeliveryTypeOK

=============================================================================
