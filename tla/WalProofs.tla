------------------------------ MODULE WalProofs ------------------------------
(***************************************************************************)
(* The invariants of the write-ahead log and its refinement of RefStore,   *)
(* for any number of pushers, jobs, readers, commits and refs.             *)
(***************************************************************************)
EXTENDS WalInv, WalIndexProofs

\* Planning an update yields an update, whatever the policy.
LEMMA PlannedFacts ==
    ASSUME NEW ix \in Index, NEW u \in Update
    PROVE  PlannedUpdate(ix, u, Policy) \in Update
<1>1. ix.refs \in RefMap
  BY DEF Index
<1>2. NoCommit \in Commits \cup {NoCommit}
  OBVIOUS
<1>3. MirrorUpdate(ix, u) \in Update
  BY <1>1 DEF MirrorUpdate, Update, RefMap
<1>4. QED
  BY <1>3 DEF PlannedUpdate

(***************************************************************************)
(* The bucket                                                              *)
(***************************************************************************)

\* Every version of the index is an index.
LEMMA VersionFacts ==
    ASSUME TypeOK
    PROVE  /\ Generation \in Nat
           /\ LastUpload \in Nat
           /\ \A g \in 0..Generation : IndexAt(g) \in Index
           /\ Current \in Index
           /\ Uploaded \subseteq Pack
<1>1. revs \in Seq(Index) /\ content \in Seq(SUBSET Commits)
  BY DEF TypeOK
<1>2. Generation \in Nat /\ LastUpload \in Nat
  BY <1>1 DEF Generation, LastUpload
<1>3. \A g \in 0..Generation : IndexAt(g) \in Index
  BY <1>1, <1>2, EmptyIndexFacts DEF IndexAt, Generation
<1>4. Uploaded \subseteq Pack
  BY <1>2 DEF Uploaded, LastUpload, Pack
<1>5. QED
  BY <1>2, <1>3, <1>4 DEF Current

\* A write adds a version and keeps the earlier ones.
LEMMA PutFacts ==
    ASSUME TypeOK, NEW ix \in Index, PutIndex(ix)
    PROVE  /\ revs' \in Seq(Index)
           /\ Generation' = Generation + 1
           /\ \A g \in 0..Generation : IndexAt(g)' = IndexAt(g)
           /\ \A g \in {Generation + 1} : IndexAt(g)' = ix
           /\ Current' = ix
<1>1. revs \in Seq(Index) /\ revs' = Append(revs, ix)
  BY DEF TypeOK, PutIndex
<1>2. /\ revs' \in Seq(Index)
      /\ Len(revs') = Len(revs) + 1
      /\ \A i \in 1..Len(revs) : revs'[i] = revs[i]
      /\ revs'[Len(revs) + 1] = ix
  BY <1>1, AppendFacts
<1>3. Len(revs) \in Nat
  BY <1>1
<1>4. Generation' = Generation + 1
  BY <1>2 DEF Generation
<1>5. \A g \in 0..Generation : IndexAt(g)' = IndexAt(g)
  BY <1>2, <1>3 DEF IndexAt, Generation
<1>6. \A g \in {Generation + 1} : IndexAt(g)' = ix
  BY <1>2, <1>3 DEF IndexAt, Generation
<1>7. Current' = ix
  BY <1>2, <1>3 DEF Current, IndexAt, Generation
<1>8. QED
  BY <1>2, <1>4, <1>5, <1>6, <1>7

\* An upload adds a pack and keeps the earlier ones.
LEMMA UploadFacts ==
    ASSUME TypeOK, NEW objects \in SUBSET Commits, Upload(objects)
    PROVE  /\ content' \in Seq(SUBSET Commits)
           /\ LastUpload' = LastUpload + 1
           /\ Uploaded' = Uploaded \cup {LastUpload + 1}
           /\ stored' = stored \cup {LastUpload + 1}
           /\ \A p \in Uploaded : content'[p] = content[p]
           /\ content'[LastUpload + 1] = objects
           /\ LastUpload + 1 \notin Uploaded
           /\ LastUpload + 1 \in Pack
<1>1. content \in Seq(SUBSET Commits) /\ content' = Append(content, objects)
  BY DEF TypeOK, Upload
<1>2. /\ content' \in Seq(SUBSET Commits)
      /\ Len(content') = Len(content) + 1
      /\ \A i \in 1..Len(content) : content'[i] = content[i]
      /\ content'[Len(content) + 1] = objects
  BY <1>1, AppendFacts
<1>3. Len(content) \in Nat
  BY <1>1
<1>4. QED
  BY <1>2, <1>3 DEF Uploaded, LastUpload, Upload, Pack

\* What an index holds does not depend on packs it does not name.
LEMMA HoldsFacts ==
    ASSUME NEW ix, NEW before, NEW after,
           \A p \in Names(ix) : after[p] = before[p]
    PROVE  /\ Holds(ix, after) = Holds(ix, before)
           /\ Complete(ix, after) <=> Complete(ix, before)
BY DEF Holds, Complete

(***************************************************************************)
(* Steps of a push                                                         *)
(***************************************************************************)

\* Facts about push p alone that the invariant asks for.
PushOk(q) ==
    /\ q \in PushState
    /\ q.pc \in {"upload", "check", "put"} => PushPacked(q)
    /\ q.pc \in {"check", "put"} => PushUploaded(q)
    /\ q.pc = "put" => PushChecked(q)

\* A push is always in order.
LEMMA PushOkFacts ==
    ASSUME IInv, NEW p \in Pushers
    PROVE  PushOk(push[p])
BY DEF IInv, PushInv, TypeOK, PushOk

\* A step that changes one push and nothing in the bucket keeps the invariant,
\* when the push stays in order and holds no pack it did not hold before.
LEMMA PushMoves ==
    ASSUME IInv, NEW p \in Pushers, NEW q,
           push' = [push EXCEPT ![p] = q],
           PushOk(q),
           q.pc \in {"check", "put"} =>
                \/ q.entry = NoPack
                \/ push[p].pc \in {"check", "put"} /\ q.entry = push[p].entry,
           UNCHANGED <<revs, content, stored, aged, job, reader>>,
           pushes' \in Nat, faults' \in Nat
    PROVE  IInv'
<1>1. TypeOK'
  BY DEF IInv, TypeOK, PushOk, Uploaded, LastUpload
<1>2. /\ HistoryComplete' /\ IndexIntact' /\ ReaderGrace'
  BY DEF IInv, HistoryComplete, IndexIntact, ReaderGrace, Generation, IndexAt,
         Current, Uploaded
<1>3. PushInv'
  <2> SUFFICES ASSUME NEW o \in Pushers
               PROVE  /\ push'[o].pc \in {"upload", "check", "put"} => PushPacked(push[o])'
                      /\ push'[o].pc \in {"check", "put"} => PushUploaded(push[o])'
                      /\ push'[o].pc = "put" => PushChecked(push[o])'
    BY DEF PushInv
  <2>1. PushOk(push'[o])
    BY PushOkFacts DEF IInv, TypeOK
  <2>2. push'[o].pc \in {"upload", "check", "put"} => PushPacked(push[o])'
    BY <2>1 DEF PushOk, PushPacked, IndexAt, Generation
  <2>3. push'[o].pc \in {"check", "put"} => PushUploaded(push[o])'
    BY <2>1 DEF PushOk, PushUploaded, Planned, Carried, Young, IndexAt
  <2>4. push'[o].pc = "put" => PushChecked(push[o])'
    BY <2>1 DEF PushOk, PushChecked, Planned, Fresh, BasisHolds, NeedsBasis,
       IndexAt, Generation
  <2>5. QED
    BY <2>2, <2>3, <2>4
<1>4. InFlight' \subseteq InFlight
  BY DEF InFlight, IInv, TypeOK
<1>5. JobInv'
  BY <1>4 DEF IInv, JobInv, JobWindow, Young, Generation, LastUpload, IndexAt, Current
<1>6. ReaderInv'
  BY DEF IInv, ReaderInv, IndexAt
<1>7. QED
  BY <1>1, <1>2, <1>3, <1>5, <1>6 DEF IInv

\* A push that is outside the window between packing and publishing is in order.
LEMMA PushRests ==
    ASSUME IInv, NEW p \in Pushers, NEW q \in PushState,
           q.pc \in {"idle", "plan", "ok", "refused"},
           push' = [push EXCEPT ![p] = q],
           UNCHANGED <<revs, content, stored, aged, job, reader>>,
           pushes' \in Nat, faults' \in Nat
    PROVE  IInv'
<1>1. PushOk(q)
  BY DEF PushOk
<1>2. QED
  BY <1>1, PushMoves

\* A request arrives in order.
LEMMA PushBeginKeeps ==
    ASSUME IInv, NEW p \in Pushers, PushBegin(p)
    PROVE  IInv'
<1>1. PICK r \in Requests :
        push' = [push EXCEPT ![p] = [PushIdle EXCEPT
                    !.pc = "plan",
                    !.upd = [touch |-> r.touch,
                             old |-> [x \in Refs |-> IF x \in r.touch
                                        THEN Current.refs[x] ELSE NoCommit],
                             new |-> r.new]]]
  BY DEF PushBegin
<1> DEFINE u == [touch |-> r.touch,
                 old |-> [x \in Refs |-> IF x \in r.touch
                            THEN Current.refs[x] ELSE NoCommit],
                 new |-> r.new]
           q == [PushIdle EXCEPT !.pc = "plan", !.upd = u]
<1>2. r.touch \in SUBSET Refs /\ r.new \in RefMap
  BY WalAssumption
<1>3. Current.refs \in RefMap
  BY VersionFacts DEF IInv, Index
<1>4. u \in Update
  BY <1>2, <1>3 DEF Update, RefMap
<1>5. NoUpdate \in Update
  BY DEF NoUpdate, Update, NoRefs, RefMap
<1>6. q \in PushState /\ q.pc = "plan"
  BY <1>4, <1>5 DEF PushIdle, PushState, NoPack
<1>7. push' = [push EXCEPT ![p] = q]
  BY <1>1
<1>8. UNCHANGED <<revs, content, stored, aged, job, reader>> /\ pushes' \in Nat /\ faults' \in Nat
  BY DEF PushBegin, IInv, TypeOK
<1> HIDE DEF q
<1>9. QED
  BY <1>6, <1>7, <1>8, PushRests

\* A plan excludes only tips of the version it is made against, and a push that
\* uploads nothing needs nothing uploaded.
LEMMA PushPlanKeeps ==
    ASSUME IInv, NEW p \in Pushers, PushPlan(p)
    PROVE  IInv'
<1> DEFINE u == PlannedUpdate(Current, push[p].upd, Policy)
<1>1. push[p] \in PushState /\ Current \in Index /\ Generation \in Nat
  BY VersionFacts DEF IInv, TypeOK
<1>2. u \in Update /\ Current.refs \in RefMap
  BY <1>1, PlannedFacts DEF PushState, Index
<1>3. UNCHANGED <<revs, content, stored, aged, job, reader>> /\ pushes' \in Nat /\ faults' \in Nat
  BY DEF PushPlan, IInv, TypeOK
<1>4. CASE push' = [push EXCEPT ![p].pc = "ok"]
  <2> DEFINE q == [push[p] EXCEPT !.pc = "ok"]
  <2>1. q \in PushState /\ q.pc = "ok"
    BY <1>1 DEF PushState
  <2>2. push' = [push EXCEPT ![p] = q]
    BY <1>4
  <2> HIDE DEF q
  <2>3. QED
    BY <1>3, <2>1, <2>2, PushRests
<1>5. ASSUME NEW exclude \in Excludable(Current, u),
             push' = [push EXCEPT ![p] = [@ EXCEPT
                        !.pc = IF PackObjects(Want(u), exclude) = {}
                               THEN "check" ELSE "upload",
                        !.basis = Generation,
                        !.exclude = exclude,
                        !.entry = NoPack,
                        !.tries = 0]]
      PROVE  IInv'
  <2> DEFINE next == IF PackObjects(Want(u), exclude) = {} THEN "check" ELSE "upload"
             q == [push[p] EXCEPT
                        !.pc = next,
                        !.basis = Generation,
                        !.exclude = exclude,
                        !.entry = NoPack,
                        !.tries = 0]
  <2>1. exclude \subseteq Tips(Current.refs) /\ exclude \subseteq Commits
    BY <1>2, TipsFacts DEF Excludable
  <2>2. /\ next \in {"check", "upload"}
        /\ next = "check" => PackObjects(Want(u), exclude) = {}
    OBVIOUS
  <2>3. push' = [push EXCEPT ![p] = q]
    BY <1>5
  <2> HIDE DEF next
  <2>4. q \in PushState
    BY <1>1, <2>1, <2>2 DEF PushState, NoPack
  <2>5. /\ q.pc = next
        /\ q.basis = Generation /\ q.exclude = exclude /\ q.entry = NoPack
        /\ q.upd = push[p].upd
    BY <1>1 DEF PushState
  <2> HIDE DEF q
  <2>6. Planned(q) = u
    BY <2>5 DEF Planned, Current
  <2>7. PushPacked(q)
    BY <1>1, <2>1, <2>5 DEF PushPacked, Current
  <2>8. q.pc = "check" => PushUploaded(q)
    BY <2>2, <2>5, <2>6 DEF PushUploaded, Carried
  <2>9. PushOk(q)
    BY <2>2, <2>4, <2>5, <2>7, <2>8 DEF PushOk
  <2>10. QED
    BY <1>3, <2>3, <2>5, <2>9, PushMoves
<1>6. QED
  BY <1>4, <1>5 DEF PushPlan

\* A check records what it read, or ends the attempt.
LEMMA PushCheckKeeps ==
    ASSUME IInv, NEW p \in Pushers, PushCheck(p)
    PROVE  IInv'
<1>1. push[p] \in PushState /\ Generation \in Nat /\ PushOk(push[p])
  BY VersionFacts, PushOkFacts DEF IInv, TypeOK
<1>2. UNCHANGED <<revs, content, stored, aged, job, reader>> /\ pushes' \in Nat /\ faults' \in Nat
  BY DEF PushCheck, IInv, TypeOK
<1>3. CASE push' = [push EXCEPT ![p].pc = "refused"]
  <2> DEFINE q == [push[p] EXCEPT !.pc = "refused"]
  <2>1. q \in PushState /\ q.pc = "refused"
    BY <1>1 DEF PushState
  <2>2. push' = [push EXCEPT ![p] = q]
    BY <1>3
  <2> HIDE DEF q
  <2>3. QED
    BY <1>2, <2>1, <2>2, PushRests
<1>4. CASE push' = [push EXCEPT ![p] = NextRound(@)]
  <2> DEFINE next == IF push[p].rounds + 1 < MaxCASAttempts THEN "plan" ELSE "refused"
             more == push[p].rounds + 1
             q == [push[p] EXCEPT !.pc = next, !.rounds = more]
  <2>1. NextRound(push[p]) = q
    BY DEF NextRound
  <2>2. next \in {"plan", "refused"} /\ more \in Nat
    BY <1>1 DEF PushState
  <2> HIDE DEF next, more
  <2>3. q \in PushState /\ q.pc \in {"plan", "refused"}
    BY <1>1, <2>2 DEF PushState
  <2>4. push' = [push EXCEPT ![p] = NextRound(push[p])]
    BY <1>4
  <2> HIDE DEF q
  <2>5. QED
    BY <1>2, <2>1, <2>3, <2>4, PushRests
<1>5. CASE /\ Fresh(push[p], Current)
           /\ BasisHolds(push[p], Current)
           /\ push' = [push EXCEPT ![p] = [@ EXCEPT !.pc = "put", !.gen = Generation]]
  <2> DEFINE q == [push[p] EXCEPT !.pc = "put", !.gen = Generation]
  <2>1. q \in PushState
    BY <1>1 DEF PushState
  <2>2. /\ q.pc = "put" /\ q.gen = Generation /\ q.basis = push[p].basis
        /\ q.exclude = push[p].exclude /\ q.entry = push[p].entry
        /\ q.upd = push[p].upd
    BY <1>1 DEF PushState
  <2>3. push' = [push EXCEPT ![p] = q]
    BY <1>5
  <2> HIDE DEF q
  <2>4. Planned(q) = Planned(push[p])
    BY <2>2 DEF Planned
  <2>5. push[p].pc = "check" /\ PushPacked(push[p]) /\ PushUploaded(push[p])
    BY <1>1 DEF PushOk, PushCheck
  <2>6. PushPacked(q) /\ PushUploaded(q)
    BY <2>2, <2>4, <2>5 DEF PushPacked, PushUploaded
  <2>7. PushChecked(q)
    BY <1>1, <1>5, <2>2, <2>4 DEF PushChecked, Fresh, BasisHolds, NeedsBasis, Current
  <2>8. PushOk(q)
    BY <2>1, <2>6, <2>7 DEF PushOk
  <2>9. QED
    BY <1>2, <2>2, <2>3, <2>5, <2>8, PushMoves
<1>6. QED
  BY <1>3, <1>4, <1>5 DEF PushCheck

\* Trying again or giving up leaves a push in order.
LEMMA NextAttemptFacts ==
    ASSUME NEW q, PushOk(q), q.pc = "put"
    PROVE  /\ PushOk(NextAttempt(q))
           /\ NextAttempt(q).entry = q.entry
           /\ NextAttempt(q).pc \in {"check", "refused"}
<1> DEFINE next == IF q.tries + 1 < MaxCASAttempts THEN "check" ELSE "refused"
           more == q.tries + 1
           n == [q EXCEPT !.pc = next, !.tries = more]
<1>1. q \in PushState /\ PushPacked(q) /\ PushUploaded(q)
  BY DEF PushOk
<1>2. next \in {"check", "refused"} /\ more \in Nat
  BY <1>1 DEF PushState
<1>3. NextAttempt(q) = n
  BY DEF NextAttempt
<1> HIDE DEF next, more
<1>4. n \in PushState /\ n.pc \in {"check", "refused"}
  BY <1>1, <1>2 DEF PushState
<1>5. n.basis = q.basis /\ n.exclude = q.exclude /\ n.entry = q.entry /\ n.upd = q.upd
  BY <1>1 DEF PushState
<1> HIDE DEF n
<1>6. Planned(n) = Planned(q)
  BY <1>5 DEF Planned
<1>7. PushPacked(n) /\ PushUploaded(n)
  BY <1>1, <1>5, <1>6 DEF PushPacked, PushUploaded
<1>8. QED
  BY <1>3, <1>4, <1>5, <1>7 DEF PushOk

\* Losing the compare-and-swap keeps the invariant.
LEMMA PushLosesKeeps ==
    ASSUME IInv, NEW p \in Pushers, push[p].pc = "put",
           push' = [push EXCEPT ![p] = NextAttempt(@)],
           UNCHANGED <<revs, content, stored, aged, job, reader, pushes, faults>>
    PROVE  IInv'
<1>1. PushOk(push[p]) /\ push' = [push EXCEPT ![p] = NextAttempt(push[p])]
  BY PushOkFacts
<1>2. pushes' \in Nat /\ faults' \in Nat
  BY DEF IInv, TypeOK
<1>3. QED
  BY <1>1, <1>2, NextAttemptFacts, PushMoves

\* A failing push keeps the invariant: what it uploaded is an orphan.
LEMMA PushErrorKeeps ==
    ASSUME IInv, NEW p \in Pushers, PushError(p)
    PROVE  IInv'
<1> DEFINE q == [push[p] EXCEPT !.pc = "refused"]
<1>1. q \in PushState /\ q.pc = "refused"
  BY DEF IInv, TypeOK, PushState
<1>2. push' = [push EXCEPT ![p] = q]
  BY DEF PushError
<1>3. UNCHANGED <<revs, content, stored, aged, job, reader>> /\ pushes' \in Nat /\ faults' \in Nat
  BY DEF PushError, Fault, IInv, TypeOK
<1> HIDE DEF q
<1>4. QED
  BY <1>1, <1>2, <1>3, PushRests

\* Answering a push keeps the invariant.
LEMMA PushAnswerKeeps ==
    ASSUME IInv, NEW p \in Pushers, PushAnswer(p)
    PROVE  IInv'
<1>1. NoUpdate \in Update
  BY DEF NoUpdate, Update, NoRefs, RefMap
<1>2. PushIdle \in PushState /\ PushIdle.pc = "idle"
  BY <1>1 DEF PushIdle, PushState, NoPack
<1>3. UNCHANGED <<revs, content, stored, aged, job, reader>> /\ pushes' \in Nat /\ faults' \in Nat
  BY DEF PushAnswer, IInv, TypeOK
<1>4. QED
  BY <1>2, <1>3, PushRests DEF PushAnswer

(***************************************************************************)
(* What a step of one actor leaves alone                                   *)
(***************************************************************************)

\* The bucket moves on without taking anything back: versions and packs are as
\* they were, and what is on its way into the index is still there and young.
BucketGrows ==
    /\ Generation' \in Nat
    /\ Generation <= Generation'
    /\ \A g \in 0..Generation : IndexAt(g)' = IndexAt(g)
    /\ \A p \in Uploaded : content'[p] = content[p]
    /\ \A p \in InFlight : p \in stored' /\ p > aged'

\* Packs on their way into the index are in the bucket and young.
LEMMA InFlightFacts ==
    ASSUME IInv, NEW p \in InFlight
    PROVE  p \in stored /\ p \in Uploaded /\ p \in Pack /\ p > aged
<1>1. p # NoPack
  BY DEF InFlight
<1>2. ASSUME \E o \in Pushers : push[o].pc \in {"check", "put"} /\ p = push[o].entry
      PROVE  p \in stored /\ p > aged
  BY <1>1, <1>2 DEF IInv, PushInv, PushUploaded, Young
<1>3. ASSUME \E m \in Jobs : job[m].pc = "publish" /\ p = job[m].base
      PROVE  p \in stored /\ p > aged
  BY <1>3 DEF IInv, JobInv, Young
<1>4. p \in stored /\ p > aged
  BY <1>2, <1>3 DEF InFlight, Young
<1>5. stored \subseteq Uploaded /\ Uploaded \subseteq Pack
  BY VersionFacts DEF IInv, TypeOK
<1>6. QED
  BY <1>4, <1>5

\* A push in order before the bucket moved on is in order after.
LEMMA PushSurvives ==
    ASSUME IInv, BucketGrows, NEW o \in Pushers,
           PushOk(push'[o]),
           push'[o].pc \in {"check", "put"} => push'[o].entry \in InFlight \cup {NoPack}
    PROVE  /\ push'[o].pc \in {"upload", "check", "put"} => PushPacked(push[o])'
           /\ push'[o].pc \in {"check", "put"} => PushUploaded(push[o])'
           /\ push'[o].pc = "put" => PushChecked(push[o])'
<1>1. push'[o] \in PushState /\ push'[o].basis \in Nat /\ push'[o].gen \in Nat
  BY DEF PushOk, PushState
<1>2. Generation \in Nat /\ Generation' \in Nat /\ Generation <= Generation'
  BY VersionFacts DEF IInv, BucketGrows
<1>3. ASSUME push'[o].pc \in {"upload", "check", "put"}
      PROVE  /\ push'[o].basis \in 0..Generation
             /\ push'[o].basis <= Generation'
             /\ IndexAt(push[o].basis)' = IndexAt(push'[o].basis)
  BY <1>1, <1>2, <1>3 DEF PushOk, PushPacked, BucketGrows
<1>4. push'[o].pc \in {"upload", "check", "put"} => PushPacked(push[o])'
  BY <1>3 DEF PushOk, PushPacked
<1>5. ASSUME push'[o].pc \in {"upload", "check", "put"}
      PROVE  Planned(push[o])' = Planned(push'[o])
  BY <1>3, <1>5 DEF Planned
<1>6. ASSUME push'[o].pc \in {"check", "put"}
      PROVE  PushUploaded(push[o])'
  <2>1. push'[o].entry # NoPack =>
            push'[o].entry \in stored' /\ push'[o].entry > aged' /\ push'[o].entry \in Uploaded
    BY <1>6, InFlightFacts DEF BucketGrows
  <2>2. Carried(push[o].entry)' = Carried(push'[o].entry)
    BY <2>1 DEF Carried, BucketGrows
  <2>3. PackObjects(Want(Planned(push'[o])), push'[o].exclude) \subseteq Carried(push'[o].entry)
    BY <1>6 DEF PushOk, PushUploaded
  <2>4. QED
    BY <1>5, <1>6, <2>1, <2>2, <2>3 DEF PushUploaded, Young
<1>7. ASSUME push'[o].pc = "put"
      PROVE  PushChecked(push[o])'
  <2>1. PushChecked(push'[o])
    BY <1>7 DEF PushOk
  <2>2. push'[o].gen \in 0..Generation /\ push'[o].gen <= Generation'
    BY <1>1, <1>2, <2>1 DEF PushChecked
  <2>3. IndexAt(push[o].gen)' = IndexAt(push'[o].gen)
    BY <2>2 DEF BucketGrows
  <2>4. QED
    BY <1>3, <1>5, <1>7, <2>1, <2>2, <2>3
       DEF PushChecked, Fresh, BasisHolds, NeedsBasis
<1>8. QED
  BY <1>4, <1>6, <1>7

\* So all pushes are in order after a step that changes none of them.
LEMMA PushesSurvive ==
    ASSUME IInv, BucketGrows, UNCHANGED push
    PROVE  PushInv'
<1> SUFFICES ASSUME NEW o \in Pushers
             PROVE  /\ push'[o].pc \in {"upload", "check", "put"} => PushPacked(push[o])'
                    /\ push'[o].pc \in {"check", "put"} => PushUploaded(push[o])'
                    /\ push'[o].pc = "put" => PushChecked(push[o])'
  BY DEF PushInv
<1>1. PushOk(push'[o])
  BY PushOkFacts
<1>2. push'[o].pc \in {"check", "put"} => push'[o].entry \in InFlight \cup {NoPack}
  BY DEF InFlight
<1>3. QED
  BY <1>1, <1>2, PushSurvives

\* What the invariant asks of run m.
JobPart(m) ==
    /\ job[m].pc # "idle" => JobWindow(m)
    /\ job[m].pc \in {"fetch", "publish"} => job[m].gen <= Generation
    /\ job[m].pc = "publish" =>
            /\ job[m].base # NoPack
            /\ Young(job[m].base)
            /\ content[job[m].base] = ReachAll(Tips(IndexAt(job[m].gen).refs))
    /\ job[m].pc = "delete" =>
            /\ \A p \in job[m].doomed : p <= aged
            /\ job[m].doomed \cap Names(Current) = {}

\* A run that does not move keeps its part of the invariant while the bucket
\* moves on, if nothing too old is published and nothing too young comes of age.
LEMMA JobSurvives ==
    ASSUME IInv, TypeOK', BucketGrows, NEW m \in Jobs,
           job'[m] = job[m],
           LastUpload <= LastUpload',
           aged <= aged',
           job[m].pc # "idle" => aged' < job[m].floor,
           InFlight' \subseteq InFlight \cup {LastUpload + 1},
           Names(Current)' \subseteq Names(Current) \cup InFlight
    PROVE  JobPart(m)'
<1>1. /\ job[m] \in JobState /\ job[m].seen \in Nat /\ job[m].gen \in Nat
      /\ job[m].floor \in Nat /\ job[m].base \in Nat
      /\ job[m].doomed \subseteq Pack
  BY DEF IInv, TypeOK, JobState
<1>2. /\ Generation \in Nat /\ Generation' \in Nat /\ Generation <= Generation'
      /\ LastUpload \in Nat /\ LastUpload' \in Nat
      /\ aged \in Nat /\ aged' \in Nat
  BY VersionFacts DEF IInv, BucketGrows, TypeOK, LastUpload
<1>3. \A p \in InFlight : p \in Nat /\ p > aged
  BY InFlightFacts DEF Pack
<1>4. Names(Current) \subseteq Pack
  BY VersionFacts, NamesFacts DEF IInv
<1>5. ASSUME job[m].pc # "idle" PROVE JobWindow(m)'
  <2>1. JobWindow(m)
    BY <1>5 DEF IInv, JobInv
  <2>2. job[m].seen \in 0..Generation
    BY <1>1, <1>2, <2>1 DEF JobWindow
  <2>3. IndexAt(job[m].seen)' = IndexAt(job[m].seen)
    BY <2>2 DEF BucketGrows
  <2>4. /\ (job[m].seen <= Generation)'
        /\ (job[m].floor <= LastUpload + 1)'
        /\ (aged < job[m].floor)'
    BY <1>1, <1>2, <1>5, <2>1 DEF JobWindow
  <2>5. (\A p \in InFlight : job[m].floor <= p)'
    BY <1>1, <1>2, <2>1 DEF JobWindow
  <2>6. (\A p \in Names(Current) : p \in Names(IndexAt(job[m].seen)) \/ job[m].floor <= p)'
    BY <2>1, <2>3 DEF JobWindow
  <2>7. QED
    BY <2>4, <2>5, <2>6 DEF JobWindow
<1>6. ASSUME job[m].pc \in {"fetch", "publish"}
      PROVE  /\ (job[m].gen <= Generation)'
             /\ IndexAt(job[m].gen)' = IndexAt(job[m].gen)
  <2>1. job[m].gen \in 0..Generation
    BY <1>1, <1>2, <1>6 DEF IInv, JobInv
  <2>2. QED
    BY <1>1, <1>2, <2>1 DEF BucketGrows
<1>7. ASSUME job[m].pc = "publish"
      PROVE  (/\ job[m].base # NoPack
              /\ Young(job[m].base)
              /\ content[job[m].base] = ReachAll(Tips(IndexAt(job[m].gen).refs)))'
  <2>1. job[m].base # NoPack /\ content[job[m].base] = ReachAll(Tips(IndexAt(job[m].gen).refs))
    BY <1>7 DEF IInv, JobInv
  <2>2. job[m].base \in InFlight
    BY <1>7, <2>1 DEF InFlight
  <2>3. /\ job[m].base \in stored' /\ job[m].base > aged'
        /\ content'[job[m].base] = content[job[m].base]
    BY <2>2, InFlightFacts DEF BucketGrows
  <2>4. QED
    BY <1>6, <1>7, <2>1, <2>3 DEF Young
<1>8. ASSUME job[m].pc = "delete"
      PROVE  (/\ \A p \in job[m].doomed : p <= aged
              /\ job[m].doomed \cap Names(Current) = {})'
  <2>1. /\ \A p \in job[m].doomed : p \in Nat /\ p <= aged
        /\ job[m].doomed \cap Names(Current) = {}
    BY <1>1, <1>8 DEF IInv, JobInv, Pack
  <2>2. \A p \in job[m].doomed : p \notin InFlight
    BY <1>2, <1>3, <2>1
  <2>3. \A p \in job[m].doomed : p <= aged'
    BY <1>2, <2>1
  <2>4. QED
    BY <2>1, <2>2, <2>3
<1>9. QED
  BY <1>5, <1>6, <1>7, <1>8 DEF JobPart

\* The invariant's part about the runs is that of each of them.
LEMMA JobInvFacts == JobInv <=> \A m \in Jobs : JobPart(m)
BY DEF JobInv, JobPart

\* Materialisations do not notice a step that no run takes.
LEMMA ReadersSurvive ==
    ASSUME IInv, BucketGrows, UNCHANGED <<job, reader>>
    PROVE  ReaderInv'
<1> SUFFICES ASSUME NEW r \in Readers, reader[r].fresh, NEW m \in Jobs, job[m].pc # "idle"
             PROVE  /\ \A p \in Members(reader[r].todo) :
                            p \in Names(IndexAt(job[m].seen))' \/ job[m].floor <= p
                    /\ job[m].pc = "delete" => job[m].doomed \cap Members(reader[r].todo) = {}
  BY DEF ReaderInv
<1>1. job[m].seen \in 0..Generation
  BY VersionFacts DEF IInv, JobInv, JobWindow, TypeOK, JobState
<1>2. IndexAt(job[m].seen)' = IndexAt(job[m].seen)
  BY <1>1 DEF BucketGrows
<1>3. QED
  BY <1>2 DEF IInv, ReaderInv

(***************************************************************************)
(* Uploading                                                               *)
(***************************************************************************)

\* An upload takes nothing back and disturbs no index and no materialisation.
LEMMA UploadKeeps ==
    ASSUME IInv, NEW objects \in SUBSET Commits, Upload(objects),
           UNCHANGED <<revs, aged, reader>>
    PROVE  /\ content' \in Seq(SUBSET Commits)
           /\ stored' \subseteq Uploaded'
           /\ aged' \in 0..LastUpload'
           /\ LastUpload + 1 \notin Uploaded
           /\ LastUpload + 1 \in stored' /\ LastUpload + 1 > aged'
           /\ content'[LastUpload + 1] = objects
           /\ LastUpload <= LastUpload'
           /\ BucketGrows
           /\ Current' = Current
           /\ HistoryComplete' /\ IndexIntact' /\ ReaderGrace'
<1>1. TypeOK
  BY DEF IInv
<1>2. /\ content' \in Seq(SUBSET Commits)
      /\ LastUpload' = LastUpload + 1
      /\ Uploaded' = Uploaded \cup {LastUpload + 1}
      /\ stored' = stored \cup {LastUpload + 1}
      /\ \A p \in Uploaded : content'[p] = content[p]
      /\ content'[LastUpload + 1] = objects
      /\ LastUpload + 1 \notin Uploaded
  BY <1>1, UploadFacts
<1>3. /\ LastUpload \in Nat /\ Generation \in Nat /\ aged \in 0..LastUpload
      /\ stored \subseteq Uploaded
  BY <1>1, VersionFacts DEF TypeOK
<1>4. /\ Generation' = Generation
      /\ \A g \in 0..Generation : IndexAt(g)' = IndexAt(g)
      /\ Current' = Current
  BY DEF Generation, IndexAt, Current
<1>5. BucketGrows
  BY <1>2, <1>3, <1>4, InFlightFacts DEF BucketGrows
<1>6. HistoryComplete'
  <2> SUFFICES ASSUME NEW g \in 0..Generation
               PROVE  /\ Names(IndexAt(g)) \subseteq Uploaded'
                      /\ Complete(IndexAt(g), content')
    BY <1>4 DEF HistoryComplete
  <2>1. Names(IndexAt(g)) \subseteq Uploaded /\ Complete(IndexAt(g), content)
    BY DEF IInv, HistoryComplete
  <2>2. QED
    BY <1>2, <2>1, HoldsFacts
<1>7. IndexIntact'
  <2>1. Names(Current) \subseteq stored /\ Complete(Current, content)
    BY DEF IInv, IndexIntact
  <2>2. Complete(Current, content')
    BY <1>2, <1>3, <2>1, HoldsFacts
  <2>3. QED
    BY <1>2, <1>4, <2>1, <2>2 DEF IndexIntact
<1>8. ReaderGrace'
  BY <1>2 DEF IInv, ReaderGrace
<1>9. QED
  BY <1>2, <1>3, <1>5, <1>4, <1>6, <1>7, <1>8

\* An uploaded entry is young, and carries what its push left to pack.
LEMMA PushUploadKeeps ==
    ASSUME IInv, NEW p \in Pushers, PushUpload(p)
    PROVE  IInv'
<1> DEFINE objects == PackObjects(Want(Planned(push[p])), push[p].exclude)
           entry == LastUpload + 1
           q == [push[p] EXCEPT !.pc = "check", !.entry = entry]
<1>1. push[p] \in PushState /\ PushPacked(push[p]) /\ push[p].pc = "upload"
  BY PushOkFacts DEF PushUpload, PushOk
<1>2. LastUpload \in Nat /\ Generation \in Nat /\ TypeOK
  BY VersionFacts DEF IInv
<1>3. Planned(push[p]) \in Update
  <2>1. push[p].basis \in 0..Generation /\ push[p].upd \in Update
    BY <1>1, <1>2 DEF PushState, PushPacked
  <2>2. QED
    BY <1>2, <2>1, VersionFacts, PlannedFacts DEF Planned
<1>4. objects \in SUBSET Commits
  <2>1. Want(Planned(push[p])) \in SUBSET Commits /\ EmptyIndex.refs \in RefMap
    BY <1>3, UpdateFacts, EmptyIndexFacts DEF Index
  <2>2. ReachAll(Want(Planned(push[p]))) \subseteq Commits
    BY <2>1, ReachAllFacts
  <2>3. QED
    BY <2>2 DEF PackObjects
<1>5. Upload(objects) /\ UNCHANGED <<revs, aged, job, reader, pushes, faults>>
  BY DEF PushUpload
<1>6. push' = [push EXCEPT ![p] = q]
  BY DEF PushUpload
<1>6a. entry \in Nat
  BY <1>2
<1> HIDE DEF objects, entry
<1>7. q \in PushState
  BY <1>1, <1>6a DEF PushState
<1>8. /\ q.pc = "check" /\ q.basis = push[p].basis /\ q.exclude = push[p].exclude
      /\ q.entry = entry /\ q.upd = push[p].upd
  BY <1>1 DEF PushState
<1> HIDE DEF q
<1>9. /\ content' \in Seq(SUBSET Commits)
      /\ stored' \subseteq Uploaded'
      /\ aged' \in 0..LastUpload'
      /\ entry \in stored' /\ entry > aged'
      /\ content'[entry] = objects
      /\ LastUpload <= LastUpload'
      /\ BucketGrows
      /\ Current' = Current
      /\ HistoryComplete' /\ IndexIntact' /\ ReaderGrace'
  BY <1>4, <1>5, UploadKeeps DEF entry
<1>10. TypeOK'
  BY <1>2, <1>5, <1>6, <1>7, <1>9 DEF TypeOK
<1>11. PushInv'
  <2> SUFFICES ASSUME NEW o \in Pushers
               PROVE  /\ push'[o].pc \in {"upload", "check", "put"} => PushPacked(push[o])'
                      /\ push'[o].pc \in {"check", "put"} => PushUploaded(push[o])'
                      /\ push'[o].pc = "put" => PushChecked(push[o])'
    BY DEF PushInv
  <2>1. CASE o # p
    <3>1. push'[o] = push[o]
      BY <1>2, <1>6, <2>1 DEF TypeOK
    <3>2. PushOk(push'[o])
      BY <3>1, PushOkFacts
    <3>3. push'[o].pc \in {"check", "put"} => push'[o].entry \in InFlight \cup {NoPack}
      BY <3>1 DEF InFlight
    <3>4. QED
      BY <1>9, <3>2, <3>3, PushSurvives
  <2>2. CASE o = p
    <3>1. push'[o] = q
      BY <1>2, <1>6, <2>2 DEF TypeOK
    <3>2. q.basis \in 0..Generation /\ q.exclude \subseteq Tips(IndexAt(q.basis).refs)
      BY <1>1, <1>2, <1>8 DEF PushPacked, PushState
    <3>3. IndexAt(push[o].basis)' = IndexAt(q.basis) /\ Generation' \in Nat /\ Generation <= Generation'
      BY <1>9, <3>1, <3>2 DEF BucketGrows
    <3>4. PushPacked(push[o])'
      BY <1>2, <3>1, <3>2, <3>3 DEF PushPacked
    <3>5. Planned(push[o])' = Planned(push[p])
      BY <1>8, <3>1, <3>3 DEF Planned
    <3>6. PackObjects(Want(Planned(push[o])), push[o].exclude)' = objects
      BY <1>8, <3>1, <3>5 DEF objects
    <3>7. PushUploaded(push[o])'
      BY <1>2, <1>8, <1>9, <3>1, <3>6 DEF PushUploaded, Young, Carried, entry, NoPack
    <3>8. QED
      BY <1>8, <3>1, <3>4, <3>7
  <2>3. QED
    BY <2>1, <2>2
<1>12. JobInv'
  <2>1. InFlight' \subseteq InFlight \cup {entry}
    BY <1>2, <1>5, <1>6, <1>8 DEF InFlight, TypeOK
  <2>2. ASSUME NEW m \in Jobs PROVE JobPart(m)'
    <3>1. job[m].pc # "idle" => aged' < job[m].floor
      BY <1>5 DEF IInv, JobInv, JobWindow
    <3>2. aged \in Nat /\ job'[m] = job[m] /\ aged <= aged'
      BY <1>2, <1>5 DEF TypeOK, LastUpload
    <3>3. QED
      BY <1>9, <1>10, <2>1, <3>1, <3>2, JobSurvives DEF entry
  <2>3. QED
    BY <2>2 DEF JobInv, JobPart
<1>13. ReaderInv'
  BY <1>5, <1>9, ReadersSurvive
<1>14. QED
  BY <1>9, <1>10, <1>11, <1>12, <1>13 DEF IInv

(***************************************************************************)
(* Publishing                                                              *)
(***************************************************************************)

\* A write of the index takes nothing back, and keeps the index intact when what
\* it writes is complete and names packs that are there.
LEMMA PutKeeps ==
    ASSUME IInv, NEW ix \in Index, PutIndex(ix),
           Names(ix) \subseteq stored, Complete(ix, content),
           UNCHANGED <<content, stored, aged, reader>>
    PROVE  /\ revs' \in Seq(Index)
           /\ BucketGrows
           /\ Current' = ix
           /\ HistoryComplete' /\ IndexIntact' /\ ReaderGrace'
           /\ LastUpload' = LastUpload /\ Uploaded' = Uploaded
<1>1. TypeOK /\ Generation \in Nat /\ stored \subseteq Uploaded
  BY VersionFacts DEF IInv, TypeOK
<1>2. /\ revs' \in Seq(Index)
      /\ Generation' = Generation + 1
      /\ \A g \in 0..Generation : IndexAt(g)' = IndexAt(g)
      /\ \A g \in {Generation + 1} : IndexAt(g)' = ix
      /\ Current' = ix
  BY <1>1, PutFacts
<1>3. LastUpload' = LastUpload /\ Uploaded' = Uploaded
  BY DEF LastUpload, Uploaded
<1>4. BucketGrows
  BY <1>1, <1>2, InFlightFacts DEF BucketGrows
<1>5. HistoryComplete'
  <2> SUFFICES ASSUME NEW g \in 0..(Generation + 1)
               PROVE  /\ Names(IndexAt(g)') \subseteq Uploaded
                      /\ Complete(IndexAt(g)', content)
    BY <1>2, <1>3 DEF HistoryComplete
  <2>1. CASE g \in 0..Generation
    BY <1>2, <2>1 DEF IInv, HistoryComplete
  <2>2. CASE g = Generation + 1
    BY <1>1, <1>2, <2>2
  <2>3. QED
    BY <1>1, <2>1, <2>2
<1>6. IndexIntact'
  BY <1>2 DEF IndexIntact
<1>7. ReaderGrace'
  BY DEF IInv, ReaderGrace
<1>8. QED
  BY <1>2, <1>3, <1>4, <1>5, <1>6, <1>7

\* What a push publishes is in the bucket and complete: the entry carries what
\* the excluded tips do not reach, and the index it was checked against still
\* holds the rest.
LEMMA NextIndexFacts ==
    ASSUME IInv, NEW p \in Pushers, push[p].pc = "put", Matches(push[p].gen)
    PROVE  /\ NextIndex(push[p]) \in Index
           /\ Names(NextIndex(push[p])) \subseteq Names(Current) \cup InFlight
           /\ Names(NextIndex(push[p])) \subseteq stored
           /\ Complete(NextIndex(push[p]), content)
<1> DEFINE q == push[p]
           u == Planned(push[p])
           basis == IndexAt(push[p].basis)
           ix == NextIndex(push[p])
<1>1. /\ q \in PushState /\ PushPacked(q) /\ PushUploaded(q) /\ PushChecked(q)
      /\ q.entry \in Nat
  BY PushOkFacts DEF PushOk, PushState
<1>2. IndexAt(q.gen) = Current /\ Generation \in Nat /\ Current \in Index
  BY VersionFacts DEF IInv, Matches, Current
<1>3. basis \in Index /\ q.basis \in 0..Generation
  BY <1>1, <1>2, VersionFacts DEF IInv, PushState, PushPacked
<1>4. u \in Update
  BY <1>1, <1>3, PlannedFacts DEF PushState, Planned
<1>5. /\ ix \in Index
      /\ ix.refs = UpdatedRefs(Current.refs, u)
      /\ Names(ix) = Names(Current) \cup ({q.entry} \ {NoPack})
  BY <1>1, <1>2, <1>4, ApplyFacts DEF NextIndex
<1>6. {q.entry} \ {NoPack} \subseteq InFlight
  BY DEF InFlight
<1>7. Names(ix) \subseteq stored
  BY <1>5, <1>6, InFlightFacts DEF IInv, IndexIntact
<1>8. Complete(ix, content)
  <2>1. Current.refs \in RefMap /\ basis.refs \in RefMap
    BY <1>2, <1>3 DEF Index
  <2>2. /\ Want(u) \subseteq Commits
        /\ Tips(ix.refs) \subseteq Tips(Current.refs) \cup Want(u)
    BY <1>4, <1>5, <2>1, UpdateFacts
  <2>3. ReachAll(Tips(ix.refs)) \subseteq ReachAll(Tips(Current.refs)) \cup ReachAll(Want(u))
    BY <2>2 DEF ReachAll
  <2>4. Holds(Current, content) \subseteq Holds(ix, content)
    BY <1>5 DEF Holds
  <2>5. ReachAll(Tips(Current.refs)) \subseteq Holds(Current, content)
    BY DEF IInv, IndexIntact, Complete
  <2>6. PackObjects(Want(u), q.exclude) \subseteq Holds(ix, content)
    BY <1>1, <1>5 DEF PushUploaded, Carried, Holds
  <2>7. ReachAll(Want(u)) \subseteq PackObjects(Want(u), q.exclude) \cup ReachAll(q.exclude)
    BY DEF PackObjects
  <2>8. CASE NeedsBasis(q)
    <3>1. PackStillValid(basis, q.exclude, Current)
      BY <1>1, <1>2, <2>8 DEF PushChecked, BasisHolds
    <3>2. Complete(basis, content) /\ Complete(Current, content)
      BY <1>3 DEF IInv, HistoryComplete, IndexIntact
    <3>3. q.exclude \subseteq Tips(basis.refs)
      BY <1>1 DEF PushPacked
    <3>4. ReachAll(q.exclude) \subseteq Holds(Current, content)
      BY <1>2, <1>3, <3>1, <3>2, <3>3, BasisFacts
    <3>5. QED
      BY <2>3, <2>4, <2>5, <2>6, <2>7, <3>4 DEF Complete
  <2>9. CASE ~NeedsBasis(q)
    <3>1. Want(u) = {} \/ q.exclude = {}
      BY <2>9 DEF NeedsBasis
    <3>2. ReachAll(Want(u)) \subseteq PackObjects(Want(u), q.exclude)
      BY <2>7, <3>1 DEF ReachAll
    <3>3. QED
      BY <2>3, <2>4, <2>5, <2>6, <3>2 DEF Complete
  <2>10. QED
    BY <2>8, <2>9
<1>9. QED
  BY <1>5, <1>6, <1>7, <1>8

\* A push that wins its compare-and-swap keeps the invariant, whether it is
\* answered, tries again or gives up.
LEMMA PushWins ==
    ASSUME IInv, NEW p \in Pushers, push[p].pc = "put",
           Matches(push[p].gen),
           PutIndex(NextIndex(push[p])),
           NEW q,
           push' = [push EXCEPT ![p] = q],
           PushOk(q),
           q.pc \in {"check", "put"} => q.entry = push[p].entry,
           UNCHANGED <<content, stored, aged, job, reader>>,
           pushes' \in Nat, faults' \in Nat
    PROVE  IInv'
<1>1. /\ NextIndex(push[p]) \in Index
      /\ Names(NextIndex(push[p])) \subseteq Names(Current) \cup InFlight
      /\ Names(NextIndex(push[p])) \subseteq stored
      /\ Complete(NextIndex(push[p]), content)
  BY NextIndexFacts
<1>2. /\ revs' \in Seq(Index)
      /\ BucketGrows
      /\ Current' = NextIndex(push[p])
      /\ HistoryComplete' /\ IndexIntact' /\ ReaderGrace'
      /\ LastUpload' = LastUpload /\ Uploaded' = Uploaded
  BY <1>1, PutKeeps
<1>3. TypeOK /\ LastUpload \in Nat
  BY VersionFacts DEF IInv
<1>4. TypeOK'
  BY <1>2, <1>3 DEF TypeOK, PushOk
<1>5. PushInv'
  <2> SUFFICES ASSUME NEW o \in Pushers
               PROVE  /\ push'[o].pc \in {"upload", "check", "put"} => PushPacked(push[o])'
                      /\ push'[o].pc \in {"check", "put"} => PushUploaded(push[o])'
                      /\ push'[o].pc = "put" => PushChecked(push[o])'
    BY DEF PushInv
  <2>1. push'[o] = IF o = p THEN q ELSE push[o]
    BY <1>3 DEF TypeOK
  <2>2. PushOk(push'[o])
    BY <2>1, PushOkFacts
  <2>3. push'[o].pc \in {"check", "put"} => push'[o].entry \in InFlight \cup {NoPack}
    BY <2>1 DEF InFlight
  <2>4. QED
    BY <1>2, <2>2, <2>3, PushSurvives
<1>6. JobInv'
  <2>1. InFlight' \subseteq InFlight
    BY <1>3 DEF InFlight, TypeOK
  <2>2. ASSUME NEW m \in Jobs PROVE JobPart(m)'
    <3>1. job[m].pc # "idle" => aged' < job[m].floor
      BY DEF IInv, JobInv, JobWindow
    <3>2. aged \in Nat /\ job'[m] = job[m] /\ aged <= aged' /\ LastUpload <= LastUpload'
      BY <1>2, <1>3 DEF TypeOK, LastUpload
    <3>3. QED
      BY <1>1, <1>2, <1>4, <2>1, <3>1, <3>2, JobSurvives
  <2>3. QED
    BY <2>2 DEF JobInv, JobPart
<1>7. ReaderInv'
  BY <1>2, ReadersSurvive
<1>8. QED
  BY <1>2, <1>4, <1>5, <1>6, <1>7 DEF IInv

\* The compare-and-swap keeps the invariant, won or lost.
LEMMA PushPutKeeps ==
    ASSUME IInv, NEW p \in Pushers, PushPut(p)
    PROVE  IInv'
<1>1. push[p].pc = "put" /\ PushOk(push[p]) /\ pushes' \in Nat /\ faults' \in Nat
  BY PushOkFacts DEF PushPut, IInv, TypeOK
<1>2. CASE /\ Matches(push[p].gen)
           /\ PutIndex(NextIndex(push[p]))
           /\ push' = [push EXCEPT ![p].pc = "ok"]
  <2> DEFINE q == [push[p] EXCEPT !.pc = "ok"]
  <2>1. q \in PushState /\ q.pc = "ok"
    BY <1>1 DEF PushOk, PushState
  <2>2. push' = [push EXCEPT ![p] = q]
    BY <1>2
  <2>3. UNCHANGED <<content, stored, aged, job, reader>>
    BY DEF PushPut
  <2> HIDE DEF q
  <2>4. PushOk(q)
    BY <2>1 DEF PushOk
  <2>5. QED
    BY <1>1, <1>2, <2>1, <2>2, <2>3, <2>4, PushWins
<1>3. CASE push' = [push EXCEPT ![p] = NextAttempt(@)] /\ UNCHANGED revs
  <2>1. UNCHANGED <<revs, content, stored, aged, job, reader, pushes, faults>>
    BY <1>3 DEF PushPut
  <2>2. QED
    BY <1>1, <1>3, <2>1, PushLosesKeeps
<1>4. QED
  BY <1>2, <1>3 DEF PushPut

\* So does one whose answer is lost.
LEMMA PushPutUnansweredKeeps ==
    ASSUME IInv, NEW p \in Pushers, PushPutUnanswered(p)
    PROVE  IInv'
<1>1. push[p].pc = "put" /\ PushOk(push[p]) /\ pushes' \in Nat /\ faults' \in Nat
  BY PushOkFacts DEF PushPutUnanswered, Fault, IInv, TypeOK
<1>2. /\ Matches(push[p].gen) /\ PutIndex(NextIndex(push[p]))
      /\ UNCHANGED <<content, stored, aged, job, reader>>
  BY DEF PushPutUnanswered
<1>3. CASE push' = [push EXCEPT ![p] = NextAttempt(@)]
  <2>1. push' = [push EXCEPT ![p] = NextAttempt(push[p])]
    BY <1>3
  <2>2. QED
    BY <1>1, <1>2, <2>1, NextAttemptFacts, PushWins
<1>4. CASE push' = [push EXCEPT ![p].pc = "refused"]
  <2> DEFINE q == [push[p] EXCEPT !.pc = "refused"]
  <2>1. q \in PushState /\ q.pc = "refused"
    BY <1>1 DEF PushOk, PushState
  <2>2. push' = [push EXCEPT ![p] = q]
    BY <1>4
  <2> HIDE DEF q
  <2>3. PushOk(q)
    BY <2>1 DEF PushOk
  <2>4. QED
    BY <1>1, <1>2, <2>1, <2>2, <2>3, PushWins
<1>5. QED
  BY <1>3, <1>4 DEF PushPutUnanswered

(***************************************************************************)
(* Steps of a maintenance run                                              *)
(***************************************************************************)

\* A run is always in order.
LEMMA JobFacts ==
    ASSUME IInv, NEW m \in Jobs
    PROVE  job[m] \in JobState /\ JobPart(m)
BY DEF IInv, TypeOK, JobInv, JobPart

\* A step that changes one run and nothing in the bucket keeps the invariant,
\* when the run goes on in its own window, has no base to publish, and dooms
\* only aged packs that neither the index nor its pre-run index names.
LEMMA JobMoves ==
    ASSUME IInv, NEW m \in Jobs, NEW q \in JobState,
           job' = [job EXCEPT ![m] = q],
           q.pc # "publish",
           q.pc # "idle" =>
                job[m].pc # "idle" /\ q.seen = job[m].seen /\ q.floor = job[m].floor,
           q.pc = "fetch" => q.gen <= Generation,
           q.pc = "delete" =>
                \A p \in q.doomed :
                    p <= aged /\ p \notin Names(Current) /\ p \notin Names(IndexAt(q.seen)),
           UNCHANGED <<revs, content, stored, aged, push, reader>>,
           pushes' \in Nat, faults' \in Nat
    PROVE  IInv'
<1>1. TypeOK
  BY DEF IInv
<1>2. TypeOK'
  BY <1>1 DEF TypeOK, Uploaded, LastUpload
<1>3. /\ Generation \in Nat /\ Generation' = Generation /\ LastUpload' = LastUpload
      /\ LastUpload \in Nat /\ aged \in Nat /\ Current' = Current
      /\ \A g \in 0..Generation : IndexAt(g)' = IndexAt(g)
  BY <1>1, VersionFacts DEF Generation, LastUpload, IndexAt, Current, TypeOK
<1>4. BucketGrows
  BY <1>3, InFlightFacts DEF BucketGrows
<1>5. /\ HistoryComplete' /\ IndexIntact' /\ ReaderGrace'
  BY <1>3 DEF IInv, HistoryComplete, IndexIntact, ReaderGrace, Uploaded
<1>6. PushInv'
  BY <1>4, PushesSurvive
<1>7. InFlight' \subseteq InFlight
  BY <1>1 DEF InFlight, TypeOK
<1>8. ASSUME NEW n \in Jobs PROVE JobPart(n)'
  <2>1. CASE n # m
    <3>1. job'[n] = job[n]
      BY <1>1, <2>1 DEF TypeOK
    <3>2. job[n].pc # "idle" => aged' < job[n].floor
      BY DEF IInv, JobInv, JobWindow
    <3>3. QED
      BY <1>2, <1>3, <1>4, <1>7, <3>1, <3>2, JobSurvives
  <2>2. CASE n = m
    <3>1. job'[n] = q
      BY <1>1, <2>2 DEF TypeOK
    <3>2. ASSUME q.pc # "idle" PROVE JobWindow(n)'
      <4>1. JobWindow(m)
        BY <3>2, JobFacts DEF JobPart
      <4>2. IndexAt(q.seen)' = IndexAt(q.seen)
        BY DEF IndexAt
      <4>3. QED
        BY <1>3, <1>7, <3>1, <3>2, <4>1, <4>2 DEF JobWindow
    <3>3. q.pc \in {"fetch", "publish"} => q.gen <= Generation'
      BY <1>3
    <3>4. q.pc = "delete" =>
              (\A p \in q.doomed : p <= aged') /\ q.doomed \cap Names(Current)' = {}
      BY <1>3
    <3>5. QED
      BY <3>1, <3>2, <3>3, <3>4 DEF JobPart
  <2>3. QED
    BY <2>1, <2>2
<1>9. JobInv'
  BY <1>8 DEF JobInv, JobPart
<1>10. ReaderInv'
  <2> SUFFICES ASSUME NEW r \in Readers, reader[r].fresh, NEW n \in Jobs, job'[n].pc # "idle"
               PROVE  /\ \A p \in Members(reader[r].todo) :
                              p \in Names(IndexAt(job[n].seen))' \/ job'[n].floor <= p
                      /\ job'[n].pc = "delete" =>
                              job'[n].doomed \cap Members(reader[r].todo) = {}
    BY DEF ReaderInv
  <2>1. IndexAt(job[n].seen)' = IndexAt(job'[n].seen)
    BY DEF IndexAt
  <2>2. CASE n # m
    BY <1>1, <2>1, <2>2 DEF IInv, ReaderInv, TypeOK
  <2>3. CASE n = m
    <3>1. job'[n] = q /\ q.floor \in Nat
      BY <1>1, <2>3 DEF TypeOK, JobState
    <3>2. \A p \in Members(reader[r].todo) :
              p \in Names(IndexAt(q.seen)) \/ q.floor <= p
      BY <2>3, <3>1 DEF IInv, ReaderInv
    <3>3. aged < q.floor
      BY <2>3, <3>1, JobFacts DEF JobPart, JobWindow
    <3>4. \A p \in Members(reader[r].todo) : p \in Nat
      BY <1>1 DEF TypeOK, ReaderState, Members, Pack
    <3>5. q.pc = "delete" => q.doomed \cap Members(reader[r].todo) = {}
      BY <1>3, <3>1, <3>2, <3>3, <3>4
    <3>6. QED
      BY <2>1, <3>1, <3>2, <3>5
  <2>4. QED
    BY <2>2, <2>3
<1>11. QED
  BY <1>2, <1>5, <1>6, <1>9, <1>10 DEF IInv

\* A run that ends, for whatever reason, keeps the invariant.
LEMMA JobEnds ==
    ASSUME IInv, NEW m \in Jobs,
           job' = [job EXCEPT ![m] = JobIdle],
           UNCHANGED <<revs, content, stored, aged, push, reader>>,
           pushes' \in Nat, faults' \in Nat
    PROVE  IInv'
<1>1. JobIdle \in JobState /\ JobIdle.pc = "idle"
  <2>1. <<>> \in Seq(Pack)
    OBVIOUS
  <2>2. QED
    BY <2>1 DEF JobIdle, JobState, NoPack
<1>2. QED
  BY <1>1, JobMoves

\* Reading the index to compact it keeps the invariant.
LEMMA MaintMaterialiseKeeps ==
    ASSUME IInv, NEW m \in Jobs, MaintMaterialise(m)
    PROVE  IInv'
<1> PICK held \in 0..Len(ApplyOrder(Current)) :
        job' = [job EXCEPT ![m] = [@ EXCEPT
                    !.pc = "fetch", !.gen = Generation,
                    !.todo = Beyond(ApplyOrder(Current), held)]]
  BY DEF MaintMaterialise
<1> DEFINE todo == Beyond(ApplyOrder(Current), held)
           q == [job[m] EXCEPT !.pc = "fetch", !.gen = Generation, !.todo = todo]
<1>1. job[m] \in JobState /\ Generation \in Nat /\ todo \in Seq(Pack)
  BY JobFacts, VersionFacts, ApplyOrderFacts, BeyondFacts DEF IInv
<1>2. job' = [job EXCEPT ![m] = q]
  OBVIOUS
<1> HIDE DEF todo
<1>3. /\ q \in JobState /\ q.pc = "fetch" /\ q.gen = Generation
      /\ q.seen = job[m].seen /\ q.floor = job[m].floor
  BY <1>1 DEF JobState
<1>4. /\ job[m].pc # "idle" /\ pushes' \in Nat /\ faults' \in Nat
      /\ UNCHANGED <<revs, content, stored, aged, push, reader>>
  BY DEF MaintMaterialise, IInv, TypeOK
<1> HIDE DEF q
<1>5. q.gen <= Generation
  BY <1>1, <1>3
<1>6. QED
  BY <1>2, <1>3, <1>4, <1>5, JobMoves

\* Fetching keeps the invariant.
LEMMA MaintFetchKeeps ==
    ASSUME IInv, NEW m \in Jobs, MaintFetch(m)
    PROVE  IInv'
<1>1. /\ job[m].pc = "fetch" /\ pushes' \in Nat /\ faults' \in Nat
      /\ UNCHANGED <<revs, content, stored, aged, push, reader>>
  BY DEF MaintFetch, IInv, TypeOK
<1>2. CASE job' = [job EXCEPT ![m].todo = Tail(@)]
  <2> DEFINE todo == Tail(job[m].todo)
             q == [job[m] EXCEPT !.todo = todo]
  <2>1. job[m] \in JobState /\ job[m].todo \in Seq(Pack) /\ job[m].todo # <<>>
    BY JobFacts DEF MaintFetch, JobState
  <2>2. todo \in Seq(Pack)
    BY <2>1, TailFacts
  <2>3. job' = [job EXCEPT ![m] = q]
    BY <1>2
  <2> HIDE DEF todo
  <2>4. /\ q \in JobState /\ q.pc = "fetch" /\ q.gen = job[m].gen
        /\ q.seen = job[m].seen /\ q.floor = job[m].floor
    BY <1>1, <2>1, <2>2 DEF JobState
  <2> HIDE DEF q
  <2>5. job[m].gen <= Generation
    BY <1>1, JobFacts DEF JobPart
  <2>6. QED
    BY <1>1, <2>3, <2>4, <2>5, JobMoves
<1>3. CASE job' = [job EXCEPT ![m] = JobIdle]
  BY <1>1, <1>3, JobEnds
<1>4. QED
  BY <1>2, <1>3 DEF MaintFetch

\* Listing keeps the invariant.
LEMMA MaintListKeeps ==
    ASSUME IInv, NEW m \in Jobs, MaintList(m)
    PROVE  IInv'
<1>1. /\ job[m].pc = "list" /\ pushes' \in Nat /\ faults' \in Nat
      /\ UNCHANGED <<revs, content, stored, aged, push, reader>>
  BY DEF MaintList, IInv, TypeOK
<1>2. CASE job' = [job EXCEPT ![m] = JobIdle]
  BY <1>1, <1>2, JobEnds
<1>3. CASE job' = [job EXCEPT ![m] = [@ EXCEPT !.pc = "mark", !.doomed = stored]]
  <2> DEFINE q == [job[m] EXCEPT !.pc = "mark", !.doomed = stored]
  <2>1. job[m] \in JobState /\ stored \in SUBSET Pack
    BY JobFacts, VersionFacts DEF IInv, TypeOK
  <2>2. job' = [job EXCEPT ![m] = q]
    BY <1>3
  <2>3. /\ q \in JobState /\ q.pc = "mark" /\ q.seen = job[m].seen /\ q.floor = job[m].floor
    BY <2>1 DEF JobState
  <2> HIDE DEF q
  <2>4. QED
    BY <1>1, <2>2, <2>3, JobMoves
<1>4. QED
  BY <1>2, <1>3 DEF MaintList

\* Marking dooms only aged packs that neither index names.
LEMMA MaintMarkKeeps ==
    ASSUME IInv, NEW m \in Jobs, MaintMark(m)
    PROVE  IInv'
<1>1. /\ job[m].pc = "mark" /\ pushes' \in Nat /\ faults' \in Nat
      /\ UNCHANGED <<revs, content, stored, aged, push, reader>>
  BY DEF MaintMark, IInv, TypeOK
<1>2. CASE job' = [job EXCEPT ![m] = JobIdle]
  BY <1>1, <1>2, JobEnds
<1>3. CASE job' = [job EXCEPT ![m] = [@ EXCEPT
                        !.pc = "delete",
                        !.doomed = Collectable(job[m].doomed, Current, IndexAt(job[m].seen))]]
  <2> DEFINE doomed == Collectable(job[m].doomed, Current, IndexAt(job[m].seen))
             q == [job[m] EXCEPT !.pc = "delete", !.doomed = doomed]
  <2>1. job[m] \in JobState /\ job[m].doomed \subseteq Pack
    BY JobFacts DEF JobState
  <2>2. job' = [job EXCEPT ![m] = q]
    BY <1>3
  <2>3. /\ doomed \in SUBSET Pack
        /\ \A p \in doomed :
              p <= aged /\ p \notin Names(Current) /\ p \notin Names(IndexAt(job[m].seen))
    BY <2>1 DEF Collectable
  <2> HIDE DEF doomed
  <2>4. /\ q \in JobState /\ q.pc = "delete" /\ q.doomed = doomed
        /\ q.seen = job[m].seen /\ q.floor = job[m].floor
    BY <2>1, <2>3 DEF JobState
  <2> HIDE DEF q
  <2>5. QED
    BY <1>1, <2>2, <2>3, <2>4, JobMoves
<1>4. QED
  BY <1>2, <1>3 DEF MaintMark

\* A failing run keeps the invariant, wherever it stops.
LEMMA MaintErrorKeeps ==
    ASSUME IInv, NEW m \in Jobs, MaintError(m)
    PROVE  IInv'
<1>1. /\ job' = [job EXCEPT ![m] = JobIdle] /\ pushes' \in Nat /\ faults' \in Nat
      /\ UNCHANGED <<revs, content, stored, aged, push, reader>>
  BY DEF MaintError, Fault, IInv, TypeOK
<1>2. QED
  BY <1>1, JobEnds

\* A run begins with a window that holds whatever is on its way into the index,
\* and ends the grace of the materialisations under way.
LEMMA MaintBeginKeeps ==
    ASSUME IInv, NEW m \in Jobs, MaintBegin(m)
    PROVE  IInv'
<1>1. PICK floor \in InFlight \cup {LastUpload + 1} :
        /\ \A p \in InFlight : floor <= p
        /\ job' = [job EXCEPT ![m] = [JobIdle EXCEPT
                        !.pc = IF Len(Current.entries) > Threshold
                               THEN "materialise" ELSE "list",
                        !.seen = Generation,
                        !.floor = floor]]
  BY DEF MaintBegin
<1> DEFINE next == IF Len(Current.entries) > Threshold THEN "materialise" ELSE "list"
           q == [JobIdle EXCEPT !.pc = next, !.seen = Generation, !.floor = floor]
<1>2. TypeOK /\ Generation \in Nat /\ LastUpload \in Nat /\ aged \in 0..LastUpload
  BY VersionFacts DEF IInv, TypeOK
<1>3. floor \in Nat /\ floor <= LastUpload + 1 /\ aged < floor
  <2>1. CASE floor \in InFlight
    BY <1>2, <2>1, InFlightFacts DEF Pack, Uploaded, LastUpload
  <2>2. CASE floor = LastUpload + 1
    BY <1>2, <2>2
  <2>3. QED
    BY <2>1, <2>2
<1>4. next \in {"materialise", "list"} /\ <<>> \in Seq(Pack)
  OBVIOUS
<1>5. job' = [job EXCEPT ![m] = q]
  BY <1>1
<1> HIDE DEF next
<1>6. /\ q \in JobState /\ q.pc \in {"materialise", "list"}
      /\ q.seen = Generation /\ q.floor = floor
  BY <1>2, <1>3, <1>4 DEF JobIdle, JobState, NoPack
<1> HIDE DEF q
<1>7. /\ reader' = [r \in Readers |-> [reader[r] EXCEPT !.fresh = FALSE]]
      /\ UNCHANGED <<revs, content, stored, aged, push, pushes, faults>>
  BY DEF MaintBegin
<1>8. reader' \in [Readers -> ReaderState] /\ \A r \in Readers : ~reader'[r].fresh
  BY <1>2, <1>7 DEF TypeOK, ReaderState
<1>9. TypeOK'
  BY <1>2, <1>5, <1>6, <1>7, <1>8 DEF TypeOK, Uploaded, LastUpload
<1>10. /\ Generation' = Generation /\ LastUpload' = LastUpload /\ Current' = Current
       /\ \A g \in 0..Generation : IndexAt(g)' = IndexAt(g)
  BY <1>7 DEF Generation, LastUpload, IndexAt, Current
<1>11. BucketGrows
  BY <1>2, <1>7, <1>10, InFlightFacts DEF BucketGrows
<1>12. /\ HistoryComplete' /\ IndexIntact' /\ ReaderGrace' /\ ReaderInv'
  BY <1>7, <1>8, <1>10 DEF IInv, HistoryComplete, IndexIntact, ReaderGrace, ReaderInv, Uploaded
<1>13. PushInv'
  BY <1>7, <1>11, PushesSurvive
<1>14. InFlight' \subseteq InFlight
  BY <1>2, <1>5, <1>6, <1>7 DEF InFlight, TypeOK
<1>15. ASSUME NEW n \in Jobs PROVE JobPart(n)'
  <2>1. CASE n # m
    <3>1. job'[n] = job[n]
      BY <1>2, <1>5, <2>1 DEF TypeOK
    <3>2. job[n].pc # "idle" => aged' < job[n].floor
      BY <1>7 DEF IInv, JobInv, JobWindow
    <3>3. QED
      BY <1>2, <1>7, <1>9, <1>10, <1>11, <1>14, <3>1, <3>2, JobSurvives
  <2>2. CASE n = m
    <3>1. job'[n] = q
      BY <1>2, <1>5, <2>2 DEF TypeOK
    <3>2. IndexAt(job[n].seen)' = Current
      BY <1>6, <1>10, <3>1 DEF Current, IndexAt
    <3>3. JobWindow(n)'
      BY <1>1, <1>2, <1>3, <1>6, <1>7, <1>10, <1>14, <3>1, <3>2 DEF JobWindow
    <3>4. QED
      BY <1>6, <3>1, <3>3 DEF JobPart
  <2>3. QED
    BY <2>1, <2>2
<1>16. QED
  BY <1>9, <1>12, <1>13, <1>15 DEF IInv, JobInv, JobPart

\* A base is young, and carries what the version it was made from reaches.
LEMMA MaintUploadBaseKeeps ==
    ASSUME IInv, NEW m \in Jobs, MaintUploadBase(m)
    PROVE  IInv'
<1> DEFINE tips == Tips(IndexAt(job[m].gen).refs)
           objects == ReachAll(tips)
           base == LastUpload + 1
<1>1. /\ job[m].pc = "fetch" /\ pushes' \in Nat /\ faults' \in Nat
      /\ UNCHANGED <<revs, aged, push, reader, pushes, faults>>
  BY DEF MaintUploadBase, IInv, TypeOK
<1>2. /\ TypeOK /\ Generation \in Nat /\ LastUpload \in Nat /\ aged \in Nat
      /\ job[m] \in JobState /\ job[m].gen \in 0..Generation
  BY <1>1, VersionFacts, JobFacts DEF IInv, TypeOK, JobPart, JobState
<1>3. CASE job' = [job EXCEPT ![m].pc = "list"] /\ UNCHANGED <<content, stored>>
  <2> DEFINE q == [job[m] EXCEPT !.pc = "list"]
  <2>1. job' = [job EXCEPT ![m] = q]
    BY <1>3
  <2>2. q \in JobState /\ q.pc = "list" /\ q.seen = job[m].seen /\ q.floor = job[m].floor
    BY <1>2 DEF JobState
  <2> HIDE DEF q
  <2>3. QED
    BY <1>1, <1>3, <2>1, <2>2, JobMoves
<1>4. CASE /\ Upload(objects)
           /\ job' = [job EXCEPT ![m] = [@ EXCEPT !.pc = "publish", !.base = base]]
  <2> DEFINE q == [job[m] EXCEPT !.pc = "publish", !.base = base]
  <2>1. objects \in SUBSET Commits
    <3>1. IndexAt(job[m].gen).refs \in RefMap
      BY <1>2, VersionFacts DEF Index
    <3>2. QED
      BY <3>1, TipsFacts, ReachAllFacts
  <2>2. job' = [job EXCEPT ![m] = q]
    BY <1>4
  <2>3. base \in Nat /\ base # NoPack
    BY <1>2 DEF NoPack
  <2>4. /\ content' \in Seq(SUBSET Commits)
        /\ stored' \subseteq Uploaded'
        /\ aged' \in 0..LastUpload'
        /\ base \in stored' /\ base > aged'
        /\ content'[base] = objects
        /\ LastUpload <= LastUpload'
        /\ BucketGrows
        /\ Current' = Current
        /\ HistoryComplete' /\ IndexIntact' /\ ReaderGrace'
    BY <1>1, <1>4, <2>1, UploadKeeps
  <2> HIDE DEF base
  <2>5. /\ q \in JobState /\ q.pc = "publish" /\ q.base = base /\ q.gen = job[m].gen
        /\ q.seen = job[m].seen /\ q.floor = job[m].floor
    BY <1>2, <2>3 DEF JobState
  <2> HIDE DEF q
  <2>6. TypeOK'
    BY <1>1, <1>2, <2>2, <2>4, <2>5 DEF TypeOK
  <2>7. PushInv'
    BY <1>1, <2>4, PushesSurvive
  <2>8. InFlight' \subseteq InFlight \cup {base}
    BY <1>1, <1>2, <2>2, <2>5 DEF InFlight, TypeOK
  <2>9. Generation' = Generation /\ \A g \in 0..Generation : IndexAt(g)' = IndexAt(g)
    BY <1>1 DEF Generation, IndexAt
  <2>10. ASSUME NEW n \in Jobs PROVE JobPart(n)'
    <3>1. CASE n # m
      <4>1. job'[n] = job[n]
        BY <1>2, <2>2, <3>1 DEF TypeOK
      <4>2. job[n].pc # "idle" => aged' < job[n].floor
        BY <1>1 DEF IInv, JobInv, JobWindow
      <4>3. QED
        BY <1>1, <1>2, <2>4, <2>6, <2>8, <4>1, <4>2, JobSurvives DEF base
    <3>2. CASE n = m
      <4>1. job'[n] = q
        BY <1>2, <2>2, <3>2 DEF TypeOK
      <4>2. JobWindow(m) /\ q.seen \in Nat /\ q.floor \in Nat
        BY <1>1, <2>5, JobFacts DEF JobPart, JobState
      <4>3. IndexAt(job[n].seen)' = IndexAt(job[m].seen)
        BY <1>1, <2>5, <4>1 DEF IndexAt
      <4>4. LastUpload' \in Nat /\ q.floor <= base
        BY <1>2, <2>5, <4>2 DEF JobWindow, base, LastUpload
      <4>5. JobWindow(n)'
        BY <1>1, <1>2, <2>4, <2>5, <2>8, <2>9, <4>1, <4>2, <4>3, <4>4
           DEF JobWindow, LastUpload, base
      <4>6. IndexAt(job[n].gen)' = IndexAt(job[m].gen)
        BY <1>1, <2>5, <4>1 DEF IndexAt
      <4>7. QED
        BY <1>2, <2>3, <2>4, <2>5, <2>9, <4>1, <4>5, <4>6 DEF JobPart, Young
    <3>3. QED
      BY <3>1, <3>2
  <2>11. ReaderInv'
    <3> SUFFICES ASSUME NEW r \in Readers, reader'[r].fresh, NEW n \in Jobs, job'[n].pc # "idle"
                 PROVE  /\ \A p \in Members(reader'[r].todo) :
                                p \in Names(IndexAt(job[n].seen))' \/ job'[n].floor <= p
                        /\ job'[n].pc = "delete" =>
                                job'[n].doomed \cap Members(reader'[r].todo) = {}
      BY DEF ReaderInv
    <3>1. /\ job[n].pc # "idle" /\ job'[n].seen = job[n].seen /\ job'[n].floor = job[n].floor
          /\ job'[n].pc = "delete" => job[n].pc = "delete" /\ job'[n].doomed = job[n].doomed
      BY <1>1, <1>2, <2>2, <2>5 DEF TypeOK
    <3>2. IndexAt(job[n].seen)' = IndexAt(job[n].seen)
      BY <1>1, <3>1 DEF IndexAt
    <3>3. QED
      BY <1>1, <3>1, <3>2 DEF IInv, ReaderInv
  <2>12. QED
    BY <2>4, <2>6, <2>7, <2>10, <2>11 DEF IInv, JobInv, JobPart
<1>5. QED
  BY <1>3, <1>4 DEF MaintUploadBase

\* A compaction that wins publishes an index as complete as the one it read; one
\* that loses leaves its base behind.
LEMMA MaintPublishKeeps ==
    ASSUME IInv, NEW m \in Jobs, MaintPublish(m)
    PROVE  IInv'
<1> DEFINE q == [job[m] EXCEPT !.pc = "list"]
           ix == Compacted(IndexAt(job[m].gen), job[m].base)
<1>1. /\ job[m].pc = "publish" /\ pushes' \in Nat /\ faults' \in Nat
      /\ UNCHANGED <<content, stored, aged, push, reader, pushes, faults>>
  BY DEF MaintPublish, IInv, TypeOK
<1>2. /\ TypeOK /\ Generation \in Nat /\ LastUpload \in Nat /\ aged \in Nat
      /\ job[m] \in JobState /\ JobPart(m) /\ Current \in Index
  BY VersionFacts, JobFacts DEF IInv, TypeOK
<1>3. job' = [job EXCEPT ![m] = q]
  BY DEF MaintPublish
<1>4. q \in JobState /\ q.pc = "list" /\ q.seen = job[m].seen /\ q.floor = job[m].floor
  BY <1>2 DEF JobState
<1> HIDE DEF q
<1>5. CASE UNCHANGED revs
  BY <1>1, <1>3, <1>4, <1>5, JobMoves
<1>6. CASE Matches(job[m].gen) /\ PutIndex(ix)
  <2>1. IndexAt(job[m].gen) = Current
    BY <1>6 DEF Matches, Current
  <2>2. job[m].base \in InFlight /\ job[m].base \in Pack
    <3>1. job[m].base # NoPack
      BY <1>1, <1>2 DEF JobPart
    <3>2. job[m].base \in InFlight
      BY <1>1, <3>1 DEF InFlight
    <3>3. QED
      BY <3>2, InFlightFacts
  <2>3. ix \in Index /\ ix.refs = Current.refs /\ Names(ix) = {job[m].base}
    BY <1>2, <2>1, <2>2, CompactedFacts
  <2>4. Names(ix) \subseteq stored
    BY <2>2, <2>3, InFlightFacts
  <2>5. Complete(ix, content)
    BY <1>1, <1>2, <2>1, <2>3 DEF JobPart, Complete, Holds
  <2> HIDE DEF ix
  <2>6. /\ revs' \in Seq(Index)
        /\ BucketGrows
        /\ Current' = ix
        /\ HistoryComplete' /\ IndexIntact' /\ ReaderGrace'
        /\ LastUpload' = LastUpload /\ Uploaded' = Uploaded
    BY <1>1, <1>6, <2>3, <2>4, <2>5, PutKeeps
  <2>7. TypeOK'
    BY <1>1, <1>2, <1>3, <1>4, <2>6 DEF TypeOK
  <2>8. PushInv'
    BY <1>1, <2>6, PushesSurvive
  <2>9. InFlight' \subseteq InFlight
    BY <1>1, <1>2, <1>3, <1>4 DEF InFlight, TypeOK
  <2>10. ASSUME NEW n \in Jobs PROVE JobPart(n)'
    <3>1. CASE n # m
      <4>1. job'[n] = job[n]
        BY <1>2, <1>3, <3>1 DEF TypeOK
      <4>2. job[n].pc # "idle" => aged' < job[n].floor
        BY <1>1 DEF IInv, JobInv, JobWindow
      <4>3. QED
        BY <1>1, <1>2, <2>2, <2>3, <2>6, <2>7, <2>9, <4>1, <4>2, JobSurvives
    <3>2. CASE n = m
      <4>1. job'[n] = q
        BY <1>2, <1>3, <3>2 DEF TypeOK
      <4>2. JobWindow(m) /\ q.seen \in 0..Generation
        BY <1>1, <1>2, <1>4 DEF JobPart, JobWindow, JobState
      <4>3. Generation' \in Nat /\ Generation <= Generation'
        BY <2>6 DEF BucketGrows
      <4>4. JobWindow(n)'
        <5>1. job[m].floor <= job[m].base
          BY <2>2, <4>2 DEF JobWindow
        <5>2. (job[n].seen <= Generation)'
          BY <1>2, <4>1, <4>2, <4>3
        <5>3. QED
          BY <1>1, <1>4, <2>3, <2>6, <2>9, <4>1, <4>2, <5>1, <5>2 DEF JobWindow
      <4>5. QED
        BY <1>4, <4>1, <4>4 DEF JobPart
    <3>3. QED
      BY <3>1, <3>2
  <2>11. ReaderInv'
    <3> SUFFICES ASSUME NEW r \in Readers, reader'[r].fresh, NEW n \in Jobs, job'[n].pc # "idle"
                 PROVE  /\ \A p \in Members(reader'[r].todo) :
                                p \in Names(IndexAt(job[n].seen))' \/ job'[n].floor <= p
                        /\ job'[n].pc = "delete" =>
                                job'[n].doomed \cap Members(reader'[r].todo) = {}
      BY DEF ReaderInv
    <3>1. /\ job[n].pc # "idle" /\ job'[n].seen = job[n].seen /\ job'[n].floor = job[n].floor
          /\ job'[n].pc = "delete" => job[n].pc = "delete" /\ job'[n].doomed = job[n].doomed
      BY <1>1, <1>2, <1>3, <1>4 DEF TypeOK
    <3>2. job[n].seen \in 0..Generation
      BY <1>2, <3>1, JobFacts DEF JobPart, JobWindow, JobState
    <3>3. IndexAt(job[n].seen)' = IndexAt(job[n].seen)
      BY <2>6, <3>1, <3>2 DEF BucketGrows
    <3>4. QED
      BY <1>1, <3>1, <3>3 DEF IInv, ReaderInv
  <2>12. QED
    BY <2>6, <2>7, <2>8, <2>10, <2>11 DEF IInv, JobInv, JobPart
<1>7. QED
  BY <1>5, <1>6 DEF MaintPublish

\* Deleting a doomed pack keeps the invariant: it is too old to be on its way
\* into the index, and neither the index nor a materialisation in grace needs it.
LEMMA MaintDeleteKeeps ==
    ASSUME IInv, NEW m \in Jobs, MaintDelete(m)
    PROVE  IInv'
<1>1. /\ job[m].pc = "delete" /\ pushes' \in Nat /\ faults' \in Nat
      /\ UNCHANGED <<revs, content, aged, push, reader, pushes, faults>>
  BY DEF MaintDelete, IInv, TypeOK
<1>2. CASE job' = [job EXCEPT ![m] = JobIdle] /\ UNCHANGED stored
  BY <1>1, <1>2, JobEnds
<1>3. ASSUME NEW p \in job[m].doomed,
             stored' = stored \ {p},
             job' = [job EXCEPT ![m].doomed = @ \ {p}]
      PROVE  IInv'
  <2> DEFINE rest == job[m].doomed \ {p}
             q == [job[m] EXCEPT !.doomed = rest]
  <2>1. /\ TypeOK /\ Generation \in Nat /\ LastUpload \in Nat /\ aged \in Nat
        /\ job[m] \in JobState /\ JobPart(m) /\ job[m].doomed \subseteq Pack
    BY VersionFacts, JobFacts DEF IInv, TypeOK, JobState
  <2>2. job' = [job EXCEPT ![m] = q]
    BY <1>3
  <2>3. rest \in SUBSET Pack /\ rest \subseteq job[m].doomed
    BY <2>1
  <2> HIDE DEF rest
  <2>4. /\ q \in JobState /\ q.pc = "delete" /\ q.doomed = rest
        /\ q.seen = job[m].seen /\ q.floor = job[m].floor
    BY <1>1, <2>1, <2>3 DEF JobState
  <2> HIDE DEF q
  <2>5. p \in Nat /\ p <= aged /\ p \notin Names(Current)
    BY <1>1, <2>1 DEF JobPart, Pack
  <2>6. p \notin InFlight
    BY <2>1, <2>5, InFlightFacts DEF Pack
  <2>7. TypeOK'
    BY <1>1, <1>3, <2>1, <2>2, <2>4 DEF TypeOK, Uploaded, LastUpload
  <2>8. /\ Generation' = Generation /\ LastUpload' = LastUpload /\ Current' = Current
        /\ \A g \in 0..Generation : IndexAt(g)' = IndexAt(g)
    BY <1>1 DEF Generation, LastUpload, IndexAt, Current
  <2>9. BucketGrows
    BY <1>1, <1>3, <2>1, <2>6, <2>8, InFlightFacts DEF BucketGrows
  <2>10. HistoryComplete'
    BY <1>1, <2>8 DEF IInv, HistoryComplete, Uploaded
  <2>11. IndexIntact'
    BY <1>1, <1>3, <2>5, <2>8 DEF IInv, IndexIntact
  <2>12. ReaderGrace'
    BY <1>1, <1>3 DEF IInv, ReaderGrace, ReaderInv
  <2>13. PushInv'
    BY <1>1, <2>9, PushesSurvive
  <2>14. InFlight' \subseteq InFlight
    BY <1>1, <2>1, <2>2, <2>4 DEF InFlight, TypeOK
  <2>15. ASSUME NEW n \in Jobs PROVE JobPart(n)'
    <3>1. CASE n # m
      <4>1. job'[n] = job[n]
        BY <2>1, <2>2, <3>1 DEF TypeOK
      <4>2. job[n].pc # "idle" => aged' < job[n].floor
        BY <1>1 DEF IInv, JobInv, JobWindow
      <4>3. QED
        BY <1>1, <2>1, <2>7, <2>8, <2>9, <2>14, <4>1, <4>2, JobSurvives
    <3>2. CASE n = m
      <4>1. job'[n] = q
        BY <2>1, <2>2, <3>2 DEF TypeOK
      <4>2. IndexAt(job[n].seen)' = IndexAt(job[m].seen)
        BY <1>1, <2>4, <4>1 DEF IndexAt
      <4>3. JobWindow(m)
        BY <1>1, <2>1 DEF JobPart
      <4>4. JobWindow(n)'
        BY <1>1, <2>4, <2>8, <2>14, <4>1, <4>2, <4>3 DEF JobWindow
      <4>5. (\A d \in rest : d <= aged) /\ rest \cap Names(Current) = {}
        BY <1>1, <2>1, <2>3 DEF JobPart
      <4>6. QED
        BY <1>1, <2>4, <2>8, <4>1, <4>4, <4>5 DEF JobPart
    <3>3. QED
      BY <3>1, <3>2
  <2>16. ReaderInv'
    <3> SUFFICES ASSUME NEW r \in Readers, reader'[r].fresh, NEW n \in Jobs, job'[n].pc # "idle"
                 PROVE  /\ \A d \in Members(reader'[r].todo) :
                                d \in Names(IndexAt(job[n].seen))' \/ job'[n].floor <= d
                        /\ job'[n].pc = "delete" =>
                                job'[n].doomed \cap Members(reader'[r].todo) = {}
      BY DEF ReaderInv
    <3>1. /\ job[n].pc # "idle" /\ job'[n].seen = job[n].seen /\ job'[n].floor = job[n].floor
          /\ job'[n].pc = "delete" =>
                job[n].pc = "delete" /\ job'[n].doomed \subseteq job[n].doomed
      BY <1>1, <2>1, <2>2, <2>3, <2>4 DEF TypeOK
    <3>2. IndexAt(job[n].seen)' = IndexAt(job[n].seen)
      BY <1>1, <3>1 DEF IndexAt
    <3>3. QED
      BY <1>1, <3>1, <3>2 DEF IInv, ReaderInv
  <2>17. QED
    BY <2>7, <2>10, <2>11, <2>12, <2>13, <2>15, <2>16 DEF IInv, JobInv, JobPart
<1>4. QED
  BY <1>2, <1>3 DEF MaintDelete

\* The steps of a maintenance run keep the invariant.
LEMMA MaintainingKeeps ==
    ASSUME IInv, NEW m \in Jobs, Maintaining(m)
    PROVE  IInv'
BY MaintBeginKeeps, MaintMaterialiseKeeps, MaintFetchKeeps, MaintUploadBaseKeeps,
   MaintPublishKeeps, MaintListKeeps, MaintMarkKeeps, MaintDeleteKeeps, MaintErrorKeeps
   DEF Maintaining

\* So do those of a push.
LEMMA PushingKeeps ==
    ASSUME IInv, NEW p \in Pushers, Pushing(p)
    PROVE  IInv'
BY PushBeginKeeps, PushPlanKeeps, PushUploadKeeps, PushCheckKeeps, PushPutKeeps,
   PushPutUnansweredKeeps, PushErrorKeeps, PushAnswerKeeps
   DEF Pushing

(***************************************************************************)
(* Materialisations and time                                               *)
(***************************************************************************)

\* A step of a materialisation keeps the invariant, when what it has still to
\* fetch is there and no run in progress may delete it.
LEMMA ReaderMoves ==
    ASSUME IInv, NEW r \in Readers, NEW q \in ReaderState,
           reader' = [reader EXCEPT ![r] = q],
           q.fresh =>
                /\ Members(q.todo) \subseteq stored
                /\ \A m \in Jobs : job[m].pc # "idle" =>
                    /\ \A p \in Members(q.todo) :
                            p \in Names(IndexAt(job[m].seen)) \/ job[m].floor <= p
                    /\ job[m].pc = "delete" => job[m].doomed \cap Members(q.todo) = {},
           UNCHANGED <<revs, content, stored, aged, push, job, pushes, faults>>
    PROVE  IInv'
<1>1. TypeOK'
  BY DEF IInv, TypeOK, Uploaded, LastUpload
<1>2. /\ HistoryComplete' /\ IndexIntact'
  BY DEF IInv, HistoryComplete, IndexIntact, Generation, IndexAt, Current, Uploaded
<1>3. ReaderGrace'
  BY DEF IInv, ReaderGrace, TypeOK
<1>4. BucketGrows
  BY VersionFacts, InFlightFacts DEF BucketGrows, IInv, Generation, IndexAt, Pack
<1>5. PushInv'
  BY <1>4, PushesSurvive
<1>6. JobInv'
  BY DEF IInv, JobInv, JobWindow, Young, InFlight, Generation, LastUpload, IndexAt, Current
<1>7. ReaderInv'
  BY DEF IInv, ReaderInv, IndexAt, TypeOK
<1>8. QED
  BY <1>1, <1>2, <1>3, <1>5, <1>6, <1>7 DEF IInv

\* A materialisation begins with packs that are all there, and that the windows
\* of the runs in progress protect.
LEMMA ReaderBeginKeeps ==
    ASSUME IInv, NEW r \in Readers, ReaderBegin(r)
    PROVE  IInv'
<1> DEFINE todo == ApplyOrder(Current)
           q == [pc |-> "apply", todo |-> todo, fresh |-> TRUE]
<1>1. todo \in Seq(Pack) /\ Members(todo) = Names(Current)
  BY VersionFacts, ApplyOrderFacts DEF IInv
<1>2. reader' = [reader EXCEPT ![r] = q]
      /\ UNCHANGED <<revs, content, stored, aged, push, job, pushes, faults>>
  BY DEF ReaderBegin
<1> HIDE DEF todo
<1>3. q \in ReaderState /\ q.todo = todo
  BY <1>1 DEF ReaderState
<1> HIDE DEF q
<1>4. Members(q.todo) \subseteq stored
  BY <1>1, <1>3 DEF IInv, IndexIntact
<1>5. \A m \in Jobs : job[m].pc # "idle" =>
        /\ \A p \in Members(q.todo) :
                p \in Names(IndexAt(job[m].seen)) \/ job[m].floor <= p
        /\ job[m].pc = "delete" => job[m].doomed \cap Members(q.todo) = {}
  BY <1>1, <1>3, JobFacts DEF JobPart, JobWindow
<1>6. QED
  BY <1>2, <1>3, <1>4, <1>5, ReaderMoves

\* A materialisation that fetches has less to fetch.
LEMMA ReaderApplyKeeps ==
    ASSUME IInv, NEW r \in Readers, ReaderApply(r)
    PROVE  IInv'
<1>1. /\ reader[r] \in ReaderState
      /\ UNCHANGED <<revs, content, stored, aged, push, job, pushes, faults>>
  BY DEF ReaderApply, IInv, TypeOK
<1>2. CASE reader[r].todo # <<>> /\ reader' = [reader EXCEPT ![r].todo = Tail(@)]
  <2> DEFINE todo == Tail(reader[r].todo)
             q == [reader[r] EXCEPT !.todo = todo]
  <2>1. reader[r].todo \in Seq(Pack)
    BY <1>1 DEF ReaderState
  <2>2. todo \in Seq(Pack) /\ Members(todo) \subseteq Members(reader[r].todo)
    BY <1>2, <2>1, TailFacts
  <2>3. reader' = [reader EXCEPT ![r] = q]
    BY <1>2
  <2> HIDE DEF todo
  <2>4. q \in ReaderState /\ q.todo = todo /\ q.fresh = reader[r].fresh
    BY <1>1, <2>2 DEF ReaderState
  <2> HIDE DEF q
  <2>5. q.fresh =>
            /\ Members(q.todo) \subseteq stored
            /\ \A m \in Jobs : job[m].pc # "idle" =>
                /\ \A p \in Members(q.todo) :
                        p \in Names(IndexAt(job[m].seen)) \/ job[m].floor <= p
                /\ job[m].pc = "delete" => job[m].doomed \cap Members(q.todo) = {}
    BY <2>2, <2>4 DEF IInv, ReaderGrace, ReaderInv
  <2>6. QED
    BY <1>1, <2>3, <2>4, <2>5, ReaderMoves
<1>3. CASE reader' = [reader EXCEPT ![r] = ReaderIdle]
  <2>1. <<>> \in Seq(Pack)
    OBVIOUS
  <2>2. ReaderIdle \in ReaderState /\ ~ReaderIdle.fresh
    BY <2>1 DEF ReaderIdle, ReaderState
  <2>3. QED
    BY <1>1, <1>3, <2>2, ReaderMoves
<1>4. QED
  BY <1>2, <1>3 DEF ReaderApply

\* Time ages no pack on its way into the index, nor one of a run's window.
LEMMA AgeKeeps ==
    ASSUME IInv, Age
    PROVE  IInv'
<1>1. /\ TypeOK /\ Generation \in Nat /\ LastUpload \in Nat /\ aged \in 0..LastUpload
      /\ aged < LastUpload /\ aged + 1 \notin InFlight
      /\ \A m \in Jobs : job[m].pc # "idle" => aged' < job[m].floor
      /\ aged' = aged + 1
      /\ UNCHANGED <<revs, content, stored, push, job, reader, pushes, faults>>
  BY VersionFacts DEF Age, IInv, TypeOK
<1>2. TypeOK'
  BY <1>1 DEF TypeOK, Uploaded, LastUpload
<1>3. /\ Generation' = Generation /\ LastUpload' = LastUpload /\ Current' = Current
      /\ InFlight' = InFlight
      /\ \A g \in 0..Generation : IndexAt(g)' = IndexAt(g)
  BY <1>1 DEF Generation, LastUpload, IndexAt, Current, InFlight
<1>4. BucketGrows
  <2>1. ASSUME NEW p \in InFlight PROVE p \in stored' /\ p > aged'
    BY <1>1, InFlightFacts DEF Pack
  <2>2. QED
    BY <1>1, <1>3, <2>1 DEF BucketGrows
<1>5. /\ HistoryComplete' /\ IndexIntact' /\ ReaderGrace'
  BY <1>1, <1>3 DEF IInv, HistoryComplete, IndexIntact, ReaderGrace, Uploaded
<1>6. PushInv'
  BY <1>1, <1>4, PushesSurvive
<1>7. ASSUME NEW m \in Jobs PROVE JobPart(m)'
  BY <1>1, <1>2, <1>3, <1>4, JobSurvives
<1>8. ReaderInv'
  BY <1>1, <1>4, ReadersSurvive
<1>9. QED
  BY <1>2, <1>5, <1>6, <1>7, <1>8 DEF IInv, JobInv, JobPart

(***************************************************************************)
(* The invariant                                                           *)
(***************************************************************************)

\* A repository begins with a complete log, or none, and nobody at work.
LEMMA InitIInv == ASSUME Init PROVE IInv
<1>1. /\ push = [p \in Pushers |-> PushIdle] /\ job = [m \in Jobs |-> JobIdle]
      /\ reader = [r \in Readers |-> ReaderIdle] /\ aged = 0 /\ stored = Uploaded
      /\ pushes = 0 /\ faults = 0
  BY DEF Init
<1>2. PushIdle \in PushState /\ PushIdle.pc = "idle"
  <2>1. NoUpdate \in Update
    BY DEF NoUpdate, Update, NoRefs, RefMap
  <2>2. QED
    BY <2>1 DEF PushIdle, PushState, NoPack
<1>3. /\ JobIdle \in JobState /\ JobIdle.pc = "idle"
      /\ ReaderIdle \in ReaderState /\ ~ReaderIdle.fresh
  <2>1. <<>> \in Seq(Pack)
    OBVIOUS
  <2>2. QED
    BY <2>1 DEF JobIdle, JobState, ReaderIdle, ReaderState, NoPack
<1>4. /\ revs \in Seq(Index) /\ content \in Seq(SUBSET Commits)
      /\ \A g \in 0..Generation :
            Names(IndexAt(g)) \subseteq Uploaded /\ Complete(IndexAt(g), content)
  <2>0. Names(EmptyIndex) \subseteq Uploaded /\ Complete(EmptyIndex, content)
    BY EmptyIndexFacts DEF Complete, ReachAll
  <2>1. CASE revs = <<>> /\ content = <<>>
    <3>1. revs \in Seq(Index) /\ content \in Seq(SUBSET Commits) /\ Len(revs) = 0
      BY <2>1
    <3>2. QED
      BY <2>0, <3>1 DEF Generation, IndexAt
  <2>2. ASSUME NEW h \in Histories, revs = <<h.index>>, content = h.content
        PROVE  /\ revs \in Seq(Index) /\ content \in Seq(SUBSET Commits)
               /\ \A g \in 0..Generation :
                    Names(IndexAt(g)) \subseteq Uploaded /\ Complete(IndexAt(g), content)
    <3>1. /\ h.index \in Index /\ content \in Seq(SUBSET Commits)
          /\ Names(h.index) \subseteq Uploaded /\ Complete(h.index, content)
      BY <2>2, WalAssumption DEF Uploaded
    <3>2. revs \in Seq(Index) /\ Len(revs) = 1 /\ revs[1] = h.index
      BY <2>2, <3>1
    <3>3. QED
      BY <2>0, <3>1, <3>2 DEF Generation, IndexAt
  <2>3. QED
    BY <2>1, <2>2 DEF Init
<1>5. LastUpload \in Nat /\ Generation \in Nat
  BY <1>4 DEF LastUpload, Generation
<1>6. TypeOK
  BY <1>1, <1>2, <1>3, <1>4, <1>5 DEF TypeOK
<1>7. HistoryComplete
  BY <1>4 DEF HistoryComplete
<1>8. IndexIntact
  BY <1>1, <1>4, <1>5 DEF IndexIntact, Current
<1>9. ReaderGrace /\ PushInv /\ JobInv /\ ReaderInv
  BY <1>1, <1>2, <1>3 DEF ReaderGrace, PushInv, JobInv, ReaderInv
<1>10. QED
  BY <1>6, <1>7, <1>8, <1>9 DEF IInv

\* A step that changes nothing keeps the invariant.
LEMMA StutterKeeps == ASSUME IInv, UNCHANGED vars PROVE IInv'
<1>1. UNCHANGED <<revs, content, stored, aged, push, job, reader, pushes, faults>>
  BY DEF vars
<1>2. TypeOK'
  BY <1>1 DEF IInv, TypeOK, Uploaded, LastUpload
<1>3. HistoryComplete' /\ IndexIntact' /\ ReaderGrace'
  BY <1>1 DEF IInv, HistoryComplete, IndexIntact, ReaderGrace, Generation, IndexAt,
     Current, Uploaded
<1>4. BucketGrows
  BY <1>1, VersionFacts, InFlightFacts DEF BucketGrows, IInv, Generation, IndexAt, Pack
<1>5. PushInv'
  BY <1>1, <1>4, PushesSurvive
<1>6. JobInv'
  BY <1>1 DEF IInv, JobInv, JobWindow, Young, InFlight, Generation, LastUpload, IndexAt,
     Current
<1>7. ReaderInv'
  BY <1>1, <1>4, ReadersSurvive
<1>8. QED
  BY <1>2, <1>3, <1>5, <1>6, <1>7 DEF IInv

\* Every step keeps the invariant.
LEMMA NextIInv == ASSUME IInv, [Next]_vars PROVE IInv'
BY PushingKeeps, MaintainingKeeps, ReaderBeginKeeps, ReaderApplyKeeps, AgeKeeps,
   StutterKeeps DEF Next

\* The inductive invariant holds throughout.
THEOREM Invariance == Spec => []IInv
<1>1. Init => IInv
  BY InitIInv
<1>2. IInv /\ [Next]_vars => IInv'
  BY NextIInv
<1>3. QED
  BY <1>1, <1>2, PTL DEF Spec

\* The state keeps its shape.
THEOREM TypeCorrect == Spec => []TypeOK
<1>1. IInv => TypeOK
  BY DEF IInv
<1>2. QED
  BY <1>1, Invariance, PTL

\* Whatever pushers, compactions, sweeps, lost answers and failures do, and
\* however many of them there are, the published index can be materialised.
THEOREM AlwaysIntact == Spec => []IndexIntact
<1>1. IInv => IndexIntact
  BY DEF IInv
<1>2. QED
  BY <1>1, Invariance, PTL

\* A materialisation under way loses no pack until another run begins.
THEOREM GraceHolds == Spec => []ReaderGrace
<1>1. IInv => ReaderGrace
  BY DEF IInv
<1>2. QED
  BY <1>1, Invariance, PTL

(***************************************************************************)
(* Refinement: the log implements the atomic map of refs of RefStore, when *)
(* it is authoritative                                                     *)
(***************************************************************************)

\* What RefStoreView makes of the pushes.
ViewUpd == [p \in Pushers |-> push[p].upd]
ViewAnswer == [p \in Pushers |-> Answer(push[p])]

\* A push is answered by the state it is in.
LEMMA AnswerFacts ==
    ASSUME NEW q
    PROVE  /\ q.pc = "idle" => Answer(q) = "none"
           /\ q.pc = "ok" => Answer(q) = "ok"
           /\ q.pc = "refused" => Answer(q) = "refused"
           /\ q.pc \in {"plan", "upload", "check", "put"} => Answer(q) = "pending"
BY DEF Answer

\* A step of one push is a step of one client.
LEMMA ViewMoves ==
    ASSUME TypeOK, NEW p \in Pushers, NEW q, push' = [push EXCEPT ![p] = q]
    PROVE  /\ ViewUpd' = [ViewUpd EXCEPT ![p] = q.upd]
           /\ ViewAnswer' = [ViewAnswer EXCEPT ![p] = Answer(q)]
<1>1. \A o \in Pushers : push'[o] = IF o = p THEN q ELSE push[o]
  BY DEF TypeOK
<1>2. \A o \in Pushers : Answer(push[o])' = IF o = p THEN Answer(q) ELSE Answer(push[o])
  BY <1>1 DEF Answer
<1>3. ViewUpd' = [ViewUpd EXCEPT ![p] = q.upd]
  <2>1. \A o \in Pushers : push'[o].upd = IF o = p THEN q.upd ELSE push[o].upd
    BY <1>1
  <2>2. ViewUpd' = [o \in Pushers |-> push'[o].upd]
    BY DEF ViewUpd
  <2>3. QED
    BY <2>1, <2>2 DEF ViewUpd
<1>4. ViewAnswer' = [o \in Pushers |-> Answer(push[o])']
  BY DEF ViewAnswer
<1>5. ViewAnswer' = [ViewAnswer EXCEPT ![p] = Answer(q)]
  BY <1>2, <1>4 DEF ViewAnswer
<1>6. QED
  BY <1>3, <1>5

\* A step that moves neither the refs nor a client's view is a stutter.
LEMMA Stutters ==
    ASSUME Current.refs' = Current.refs, ViewUpd' = ViewUpd, ViewAnswer' = ViewAnswer
    PROVE  UNCHANGED RefStoreView!vars
BY DEF RefStoreView!vars, ViewUpd, ViewAnswer

\* A push that goes on is a stutter, and one that gives up is refused.
LEMMA GoesOnOrRefused ==
    ASSUME TypeOK, NEW p \in Pushers, NEW q, push' = [push EXCEPT ![p] = q],
           q.upd = push[p].upd,
           push[p].pc \in {"plan", "upload", "check", "put"},
           q.pc \in {"plan", "upload", "check", "put", "refused"},
           UNCHANGED revs
    PROVE  [RefStoreView!Next]_RefStoreView!vars
<1>1. /\ ViewUpd' = [ViewUpd EXCEPT ![p] = q.upd]
      /\ ViewAnswer' = [ViewAnswer EXCEPT ![p] = Answer(q)]
  BY ViewMoves
<1>2. ViewUpd[p] = push[p].upd /\ ViewAnswer[p] = "pending"
  BY AnswerFacts DEF ViewUpd, ViewAnswer
<1>3. ViewUpd' = ViewUpd
  BY <1>1, <1>2 DEF ViewUpd
<1>4. Current.refs' = Current.refs
  BY DEF Current, IndexAt, Generation
<1>5. CASE q.pc = "refused"
  <2>1. Answer(q) = "refused"
    BY <1>5, AnswerFacts
  <2>2. RefStoreView!Refuse(p)
    BY <1>1, <1>2, <1>3, <1>4, <2>1 DEF RefStoreView!Refuse, ViewUpd, ViewAnswer
  <2>3. QED
    BY <2>2 DEF RefStoreView!Next
<1>6. CASE q.pc # "refused"
  <2>1. Answer(q) = "pending"
    BY <1>6, AnswerFacts
  <2>2. ViewAnswer' = ViewAnswer
    BY <1>1, <1>2, <2>1 DEF ViewAnswer
  <2>3. QED
    BY <1>3, <1>4, <2>2, Stutters
<1>7. QED
  BY <1>5, <1>6

\* A push whose update takes effect as its client expected is committed.
LEMMA TakesEffect ==
    ASSUME TypeOK, NEW p \in Pushers, NEW q, push' = [push EXCEPT ![p] = q],
           q.upd = push[p].upd,
           push[p].pc \in {"plan", "upload", "check", "put"},
           q.pc \in {"check", "refused", "ok"},
           CheckPreconditions(Current.refs, push[p].upd),
           Current.refs' = UpdatedRefs(Current.refs, push[p].upd)
    PROVE  [RefStoreView!Next]_RefStoreView!vars
<1>1. /\ ViewUpd' = [ViewUpd EXCEPT ![p] = q.upd]
      /\ ViewAnswer' = [ViewAnswer EXCEPT ![p] = Answer(q)]
  BY ViewMoves
<1>2. ViewUpd[p] = push[p].upd /\ ViewAnswer[p] = "pending"
  BY AnswerFacts DEF ViewUpd, ViewAnswer
<1>3. ViewUpd' = ViewUpd
  BY <1>1, <1>2 DEF ViewUpd
<1>4. Answer(q) \in {"ok", "refused", "pending"}
  BY AnswerFacts
<1>5. RefStoreView!Commit(p)
  BY <1>1, <1>2, <1>3, <1>4
     DEF RefStoreView!Commit, RefStoreView!CheckPreconditions, RefStoreView!UpdatedRefs,
         CheckPreconditions, UpdatedRefs, ViewUpd, ViewAnswer
<1>6. QED
  BY <1>5 DEF RefStoreView!Next

\* Under the strict policy an update is planned as it was asked.
LEMMA StrictPlan ==
    ASSUME Policy = "strict", NEW ix, NEW u
    PROVE  PlannedUpdate(ix, u, Policy) = u
BY DEF PlannedUpdate

\* Each step of a push is a step of its client, or a stutter.
LEMMA PushingRefines ==
    ASSUME IInv, Policy = "strict", NEW p \in Pushers, Pushing(p)
    PROVE  [RefStoreView!Next]_RefStoreView!vars
<1>1. TypeOK /\ push[p] \in PushState /\ PushOk(push[p]) /\ push[p].upd \in Update
  BY PushOkFacts DEF IInv, TypeOK, PushState
<1>2. Current \in Index /\ Current.refs \in RefMap
  BY <1>1, VersionFacts DEF Index
<1>3. CASE PushBegin(p)
  <2>1. PICK r \in Requests :
          push' = [push EXCEPT ![p] = [PushIdle EXCEPT
                      !.pc = "plan",
                      !.upd = [touch |-> r.touch,
                               old |-> [x \in Refs |-> IF x \in r.touch
                                          THEN Current.refs[x] ELSE NoCommit],
                               new |-> r.new]]]
    BY <1>3 DEF PushBegin
  <2> DEFINE u == [touch |-> r.touch,
                   old |-> [x \in Refs |-> IF x \in r.touch
                              THEN Current.refs[x] ELSE NoCommit],
                   new |-> r.new]
             q == [PushIdle EXCEPT !.pc = "plan", !.upd = u]
  <2>2. u \in Update
    BY <1>2, WalAssumption DEF Update, RefMap
  <2>3. push' = [push EXCEPT ![p] = q]
    BY <2>1
  <2> HIDE DEF u
  <2>4. q.pc = "plan" /\ q.upd = u
    BY DEF PushIdle
  <2> HIDE DEF q
  <2>5. /\ ViewUpd' = [ViewUpd EXCEPT ![p] = u]
        /\ ViewAnswer' = [ViewAnswer EXCEPT ![p] = "pending"]
    <3>1. Answer(q) = "pending"
      BY <2>4, AnswerFacts
    <3>2. /\ ViewUpd' = [ViewUpd EXCEPT ![p] = q.upd]
          /\ ViewAnswer' = [ViewAnswer EXCEPT ![p] = Answer(q)]
      BY <1>1, <2>3, ViewMoves
    <3>3. QED
      BY <2>4, <3>1, <3>2
  <2>6. ViewAnswer[p] = "none"
    BY <1>3, AnswerFacts DEF PushBegin, ViewAnswer
  <2>7. Current.refs' = Current.refs
    BY <1>3 DEF PushBegin, Current, IndexAt, Generation
  <2>8. u \in RefStoreView!Update
    BY <2>2 DEF RefStoreView!Update, RefStoreView!RefMap, Update, RefMap
  <2>9. RefStoreView!Ask(p)
    BY <2>5, <2>6, <2>7, <2>8 DEF RefStoreView!Ask, ViewUpd, ViewAnswer
  <2>10. QED
    BY <2>9 DEF RefStoreView!Next
<1>4. CASE PushPlan(p)
  <2>1. push[p].pc = "plan" /\ UNCHANGED revs
    BY <1>4 DEF PushPlan
  <2>2. CASE push[p].upd.touch = {} /\ push' = [push EXCEPT ![p].pc = "ok"]
    <3> DEFINE q == [push[p] EXCEPT !.pc = "ok"]
    <3>1. push' = [push EXCEPT ![p] = q]
      BY <2>2
    <3>2. q.pc = "ok" /\ q.upd = push[p].upd
      BY <1>1 DEF PushState
    <3>3. CheckPreconditions(Current.refs, push[p].upd)
      BY <2>2 DEF CheckPreconditions
    <3>4. Current.refs' = UpdatedRefs(Current.refs, push[p].upd)
      BY <1>2, <2>1, <2>2 DEF UpdatedRefs, RefMap, Current, IndexAt, Generation
    <3> HIDE DEF q
    <3>5. QED
      BY <1>1, <2>1, <3>1, <3>2, <3>3, <3>4, TakesEffect
  <2>3. ASSUME NEW exclude,
               push' = [push EXCEPT ![p] = [@ EXCEPT
                          !.pc = IF PackObjects(Want(push[p].upd), exclude) = {}
                                 THEN "check" ELSE "upload",
                          !.basis = Generation,
                          !.exclude = exclude,
                          !.entry = NoPack,
                          !.tries = 0]]
        PROVE  [RefStoreView!Next]_RefStoreView!vars
    <3> DEFINE next == IF PackObjects(Want(push[p].upd), exclude) = {}
                       THEN "check" ELSE "upload"
               q == [push[p] EXCEPT
                          !.pc = next,
                          !.basis = Generation,
                          !.exclude = exclude,
                          !.entry = NoPack,
                          !.tries = 0]
    <3>1. push' = [push EXCEPT ![p] = q]
      BY <2>3
    <3>2. next \in {"check", "upload"}
      OBVIOUS
    <3> HIDE DEF next
    <3>3. q.pc = next /\ q.upd = push[p].upd
      BY <1>1 DEF PushState
    <3> HIDE DEF q
    <3>4. QED
      BY <1>1, <2>1, <3>1, <3>2, <3>3, GoesOnOrRefused
  <2>4. PlannedUpdate(Current, push[p].upd, Policy) = push[p].upd
    BY StrictPlan
  <2>5. QED
    BY <1>4, <2>2, <2>3, <2>4 DEF PushPlan
<1>5. CASE PushUpload(p)
  <2> DEFINE entry == LastUpload + 1
             q == [push[p] EXCEPT !.pc = "check", !.entry = entry]
  <2>1. push[p].pc = "upload" /\ UNCHANGED revs /\ push' = [push EXCEPT ![p] = q]
    BY <1>5 DEF PushUpload
  <2> HIDE DEF entry
  <2>2. q.pc = "check" /\ q.upd = push[p].upd
    BY <1>1 DEF PushState
  <2> HIDE DEF q
  <2>3. QED
    BY <1>1, <2>1, <2>2, GoesOnOrRefused
<1>6. CASE PushCheck(p)
  <2>1. push[p].pc = "check" /\ UNCHANGED revs
    BY <1>6 DEF PushCheck
  <2>2. CASE push' = [push EXCEPT ![p].pc = "refused"]
    <3> DEFINE q == [push[p] EXCEPT !.pc = "refused"]
    <3>1. push' = [push EXCEPT ![p] = q]
      BY <2>2
    <3>2. q.pc = "refused" /\ q.upd = push[p].upd
      BY <1>1 DEF PushState
    <3> HIDE DEF q
    <3>3. QED
      BY <1>1, <2>1, <3>1, <3>2, GoesOnOrRefused
  <2>3. CASE push' = [push EXCEPT ![p] = NextRound(@)]
    <3> DEFINE next == IF push[p].rounds + 1 < MaxCASAttempts THEN "plan" ELSE "refused"
               more == push[p].rounds + 1
               q == [push[p] EXCEPT !.pc = next, !.rounds = more]
    <3>1. NextRound(push[p]) = q
      BY DEF NextRound
    <3>2. next \in {"plan", "refused"}
      OBVIOUS
    <3> HIDE DEF next, more
    <3>3. q.pc = next /\ q.upd = push[p].upd
      BY <1>1 DEF PushState
    <3>4. push' = [push EXCEPT ![p] = NextRound(push[p])]
      BY <2>3
    <3> HIDE DEF q
    <3>5. QED
      BY <1>1, <2>1, <3>1, <3>2, <3>3, <3>4, GoesOnOrRefused
  <2>4. CASE push' = [push EXCEPT ![p] = [@ EXCEPT !.pc = "put", !.gen = Generation]]
    <3> DEFINE q == [push[p] EXCEPT !.pc = "put", !.gen = Generation]
    <3>1. push' = [push EXCEPT ![p] = q]
      BY <2>4
    <3>2. q.pc = "put" /\ q.upd = push[p].upd
      BY <1>1 DEF PushState
    <3> HIDE DEF q
    <3>3. QED
      BY <1>1, <2>1, <3>1, <3>2, GoesOnOrRefused
  <2>5. QED
    BY <1>6, <2>2, <2>3, <2>4 DEF PushCheck
<1>7. ASSUME push[p].pc = "put", Matches(push[p].gen), PutIndex(NextIndex(push[p]))
      PROVE  /\ CheckPreconditions(Current.refs, push[p].upd)
             /\ Current.refs' = UpdatedRefs(Current.refs, push[p].upd)
  <2>1. IndexAt(push[p].gen) = Current /\ PushChecked(push[p])
    BY <1>1, <1>7 DEF Matches, Current, PushOk
  <2>2. Planned(push[p]) = push[p].upd
    BY StrictPlan DEF Planned
  <2>3. CheckPreconditions(Current.refs, push[p].upd)
    BY <2>1, <2>2 DEF PushChecked, Fresh
  <2>4. NextIndex(push[p]) \in Index
    BY <1>7, NextIndexFacts
  <2>5. Current' = NextIndex(push[p])
    BY <1>1, <1>7, <2>4, PutFacts
  <2>6. NextIndex(push[p]).refs = UpdatedRefs(Current.refs, push[p].upd)
    BY <2>1, <2>2 DEF NextIndex, Apply
  <2>7. QED
    BY <2>3, <2>5, <2>6
<1>8. ASSUME push[p].pc = "put"
      PROVE  /\ NextAttempt(push[p]).pc \in {"check", "refused"}
             /\ NextAttempt(push[p]).upd = push[p].upd
  <2>1. NextAttempt(push[p]).pc \in {"check", "refused"}
    BY <1>1, <1>8, NextAttemptFacts
  <2>2. NextAttempt(push[p]).upd = push[p].upd
    BY <1>1 DEF NextAttempt, PushState
  <2>3. QED
    BY <2>1, <2>2
<1>9. CASE PushPut(p)
  <2>1. push[p].pc = "put"
    BY <1>9 DEF PushPut
  <2>2. CASE /\ Matches(push[p].gen) /\ PutIndex(NextIndex(push[p]))
             /\ push' = [push EXCEPT ![p].pc = "ok"]
    <3> DEFINE q == [push[p] EXCEPT !.pc = "ok"]
    <3>1. push' = [push EXCEPT ![p] = q]
      BY <2>2
    <3>2. q.pc = "ok" /\ q.upd = push[p].upd
      BY <1>1 DEF PushState
    <3> HIDE DEF q
    <3>3. QED
      BY <1>1, <1>7, <2>1, <2>2, <3>1, <3>2, TakesEffect
  <2>3. CASE push' = [push EXCEPT ![p] = NextAttempt(@)] /\ UNCHANGED revs
    <3>1. push' = [push EXCEPT ![p] = NextAttempt(push[p])]
      BY <2>3
    <3>2. QED
      BY <1>1, <1>8, <2>1, <2>3, <3>1, GoesOnOrRefused
  <2>4. QED
    BY <1>9, <2>2, <2>3 DEF PushPut
<1>10. CASE PushPutUnanswered(p)
  <2>1. push[p].pc = "put" /\ Matches(push[p].gen) /\ PutIndex(NextIndex(push[p]))
    BY <1>10 DEF PushPutUnanswered
  <2>2. CASE push' = [push EXCEPT ![p].pc = "refused"]
    <3> DEFINE q == [push[p] EXCEPT !.pc = "refused"]
    <3>1. push' = [push EXCEPT ![p] = q]
      BY <2>2
    <3>2. q.pc = "refused" /\ q.upd = push[p].upd
      BY <1>1 DEF PushState
    <3> HIDE DEF q
    <3>3. QED
      BY <1>1, <1>7, <2>1, <3>1, <3>2, TakesEffect
  <2>3. CASE push' = [push EXCEPT ![p] = NextAttempt(@)]
    <3>1. push' = [push EXCEPT ![p] = NextAttempt(push[p])]
      BY <2>3
    <3>2. QED
      BY <1>1, <1>7, <1>8, <2>1, <3>1, TakesEffect
  <2>4. QED
    BY <1>10, <2>2, <2>3 DEF PushPutUnanswered
<1>11. CASE PushError(p)
  <2> DEFINE q == [push[p] EXCEPT !.pc = "refused"]
  <2>1. /\ push' = [push EXCEPT ![p] = q] /\ UNCHANGED revs
        /\ push[p].pc \in {"plan", "upload", "check", "put"}
    BY <1>11 DEF PushError
  <2>2. q.pc = "refused" /\ q.upd = push[p].upd
    BY <1>1 DEF PushState
  <2> HIDE DEF q
  <2>3. QED
    BY <1>1, <2>1, <2>2, GoesOnOrRefused
<1>12. CASE PushAnswer(p)
  <2>1. push' = [push EXCEPT ![p] = PushIdle] /\ UNCHANGED revs
    BY <1>12 DEF PushAnswer
  <2>2. PushIdle.pc = "idle" /\ PushIdle.upd = NoUpdate
    BY DEF PushIdle
  <2>3. /\ ViewUpd' = [ViewUpd EXCEPT ![p] = NoUpdate]
        /\ ViewAnswer' = [ViewAnswer EXCEPT ![p] = "none"]
    <3>1. Answer(PushIdle) = "none"
      BY <2>2, AnswerFacts
    <3>2. /\ ViewUpd' = [ViewUpd EXCEPT ![p] = PushIdle.upd]
          /\ ViewAnswer' = [ViewAnswer EXCEPT ![p] = Answer(PushIdle)]
      BY <1>1, <2>1, ViewMoves
    <3>3. QED
      BY <2>2, <3>1, <3>2
  <2>4. ViewAnswer[p] \in {"ok", "refused"}
    BY <1>12, AnswerFacts DEF PushAnswer, ViewAnswer
  <2>5. Current.refs' = Current.refs
    BY <2>1 DEF Current, IndexAt, Generation
  <2>6. RefStoreView!NoUpdate = NoUpdate
    BY DEF RefStoreView!NoUpdate, RefStoreView!NoRefs, NoUpdate, NoRefs
  <2>7. RefStoreView!Done(p)
    BY <2>3, <2>4, <2>5, <2>6 DEF RefStoreView!Done, ViewUpd, ViewAnswer
  <2>8. QED
    BY <2>7 DEF RefStoreView!Next
<1>13. QED
  BY <1>3, <1>4, <1>5, <1>6, <1>9, <1>10, <1>11, <1>12 DEF Pushing

\* No other step moves a ref or answers a client.
LEMMA OthersRefine ==
    ASSUME IInv, UNCHANGED push, Current.refs' = Current.refs
    PROVE  UNCHANGED RefStoreView!vars
<1>1. ViewUpd' = ViewUpd /\ ViewAnswer' = ViewAnswer
  BY DEF ViewUpd, ViewAnswer, Answer
<1>2. QED
  BY <1>1, Stutters

\* A maintenance run moves no ref, its compaction least of all.
LEMMA MaintainingRefines ==
    ASSUME IInv, NEW m \in Jobs, Maintaining(m)
    PROVE  UNCHANGED push /\ Current.refs' = Current.refs
<1>1. UNCHANGED push
  BY DEF Maintaining, MaintBegin, MaintMaterialise, MaintFetch, MaintUploadBase,
         MaintPublish, MaintList, MaintMark, MaintDelete, MaintError
<1>2. CASE UNCHANGED revs
  BY <1>1, <1>2 DEF Current, IndexAt, Generation
<1>3. CASE MaintPublish(m) /\ revs' # revs
  <2>1. job[m].pc = "publish" /\ Matches(job[m].gen)
        /\ PutIndex(Compacted(IndexAt(job[m].gen), job[m].base))
    BY <1>3 DEF MaintPublish
  <2>2. IndexAt(job[m].gen) = Current /\ Current \in Index /\ TypeOK
    BY <2>1, VersionFacts DEF Matches, Current, IInv
  <2>3. job[m].base \in Pack
    BY <2>1, JobFacts DEF JobPart, JobState, Pack, NoPack
  <2>4. Compacted(Current, job[m].base) \in Index
        /\ Compacted(Current, job[m].base).refs = Current.refs
    BY <2>2, <2>3, CompactedFacts
  <2>5. Current' = Compacted(Current, job[m].base)
    BY <2>1, <2>2, <2>4, PutFacts
  <2>6. QED
    BY <1>1, <2>4, <2>5
<1>4. MaintPublish(m) \/ UNCHANGED revs
  BY DEF Maintaining, MaintBegin, MaintMaterialise, MaintFetch, MaintUploadBase,
         MaintList, MaintMark, MaintDelete, MaintError
<1>5. QED
  BY <1>2, <1>3, <1>4

\* Each step maps to a step of the abstract store, or to a stutter.
LEMMA NextRefines ==
    ASSUME IInv, Policy = "strict", [Next]_vars
    PROVE  [RefStoreView!Next]_RefStoreView!vars
<1>1. ASSUME NEW p \in Pushers, Pushing(p) PROVE [RefStoreView!Next]_RefStoreView!vars
  BY <1>1, PushingRefines
<1>2. ASSUME NEW m \in Jobs, Maintaining(m) PROVE UNCHANGED RefStoreView!vars
  BY <1>2, MaintainingRefines, OthersRefine
<1>3. ASSUME \/ \E r \in Readers : ReaderBegin(r) \/ ReaderApply(r)
             \/ Age
             \/ UNCHANGED vars
      PROVE  UNCHANGED RefStoreView!vars
  <2>1. UNCHANGED <<push, revs>>
    BY <1>3 DEF ReaderBegin, ReaderApply, Age, vars
  <2>2. Current.refs' = Current.refs
    BY <2>1 DEF Current, IndexAt, Generation
  <2>3. QED
    BY <2>1, <2>2, OthersRefine
<1>4. QED
  BY <1>1, <1>2, <1>3 DEF Next

\* The log begins as the store begins.
LEMMA InitRefines == ASSUME Init PROVE RefStoreView!Init
<1>1. Current.refs \in RefMap
  BY InitIInv, VersionFacts DEF IInv, Index
<1>2. push = [p \in Pushers |-> PushIdle] /\ PushIdle.pc = "idle" /\ PushIdle.upd = NoUpdate
  BY DEF Init, PushIdle
<1>3. \A p \in Pushers : push[p].upd = NoUpdate /\ Answer(push[p]) = "none"
  BY <1>2, AnswerFacts
<1>4. RefStoreView!RefMap = RefMap /\ RefStoreView!NoUpdate = NoUpdate
  BY DEF RefStoreView!RefMap, RefStoreView!NoUpdate, RefStoreView!NoRefs, RefMap, NoUpdate, NoRefs
<1>5. QED
  BY <1>1, <1>3, <1>4 DEF RefStoreView!Init

\* Under the strict policy every behaviour of the log, with any number of
\* clients, compactions, sweeps and faults, is one of an atomic map of refs.
THEOREM Refinement ==
    ASSUME Policy = "strict"
    PROVE  Spec => ImplementsRefStore
<1>1. Init => RefStoreView!Init
  BY InitRefines
<1>2. IInv /\ [Next]_vars => [RefStoreView!Next]_RefStoreView!vars
  BY NextRefines
<1>3. QED
  BY <1>1, <1>2, Invariance, PTL DEF Spec, ImplementsRefStore, RefStoreView!Spec

=============================================================================
