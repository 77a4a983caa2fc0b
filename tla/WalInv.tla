------------------------------- MODULE WalInv -------------------------------
(***************************************************************************)
(* The inductive invariant behind IndexIntact, ReaderGrace and the         *)
(* refinement of RefStore.                                                 *)
(***************************************************************************)
EXTENDS Wal

\* Every version the index ever had named uploaded packs that held the closure
\* of its refs: what a push assumes of the version it was packed against, even
\* after the bucket has moved on.
HistoryComplete ==
    \A g \in 0..Generation :
        /\ Names(IndexAt(g)) \subseteq Uploaded
        /\ Complete(IndexAt(g), content)

\* What an entry carries; no entry carries nothing.
Carried(entry) == IF entry = NoPack THEN {} ELSE content[entry]

\* A pack not yet published is in the bucket and too young to be swept.
Young(p) == p \in stored /\ p > aged

PushPacked(q) ==
    /\ q.basis <= Generation
    /\ q.exclude \subseteq Tips(IndexAt(q.basis).refs)

PushUploaded(q) ==
    /\ q.entry # NoPack => Young(q.entry)
    /\ PackObjects(Want(Planned(q)), q.exclude) \subseteq Carried(q.entry)

PushChecked(q) ==
    /\ q.gen <= Generation
    /\ Fresh(q, IndexAt(q.gen))
    /\ BasisHolds(q, IndexAt(q.gen))

PushInv ==
    \A p \in Pushers :
        /\ push[p].pc \in {"upload", "check", "put"} => PushPacked(push[p])
        /\ push[p].pc \in {"check", "put"} => PushUploaded(push[p])
        /\ push[p].pc = "put" => PushChecked(push[p])

\* A run in progress: packs published since it began are younger than floor,
\* and nothing that old has come of age.
JobWindow(m) ==
    /\ job[m].seen <= Generation
    /\ job[m].floor <= LastUpload + 1
    /\ aged < job[m].floor
    /\ \A p \in InFlight : job[m].floor <= p
    /\ \A p \in Names(Current) : p \in Names(IndexAt(job[m].seen)) \/ job[m].floor <= p

JobInv ==
    \A m \in Jobs :
        /\ job[m].pc # "idle" => JobWindow(m)
        /\ job[m].pc \in {"fetch", "publish"} => job[m].gen <= Generation
        /\ job[m].pc = "publish" =>
                /\ job[m].base # NoPack
                /\ Young(job[m].base)
                /\ content[job[m].base] = ReachAll(Tips(IndexAt(job[m].gen).refs))
        /\ job[m].pc = "delete" =>
                /\ \A p \in job[m].doomed : p <= aged
                /\ job[m].doomed \cap Names(Current) = {}

\* A materialisation that no run began after: what a run in progress may delete
\* is not among the packs it has still to fetch.
ReaderInv ==
    \A r \in Readers : reader[r].fresh =>
        \A m \in Jobs : job[m].pc # "idle" =>
            /\ \A p \in Members(reader[r].todo) :
                    p \in Names(IndexAt(job[m].seen)) \/ job[m].floor <= p
            /\ job[m].pc = "delete" => job[m].doomed \cap Members(reader[r].todo) = {}

\* Everything above holds together, and no part of it is inductive alone: the
\* published index stays intact because unpublished packs are young, deletions
\* touch only aged packs it does not name, and old versions were complete.
IInv ==
    /\ TypeOK
    /\ HistoryComplete
    /\ IndexIntact
    /\ ReaderGrace
    /\ PushInv
    /\ JobInv
    /\ ReaderInv

=============================================================================
