---------------------------- MODULE StorageProofs ----------------------------
(***************************************************************************)
(* What storage and delivery promise, for any number of actors: the        *)
(* webhook queue, the blobs and the large objects, each by an inductive    *)
(* invariant of its own.                                                   *)
(***************************************************************************)
EXTENDS Webhooks, BlobStore, LfsStore, SequenceTheorems, TLAPS

(***************************************************************************)
(* Webhooks: the inductive invariant.                                      *)
(***************************************************************************)

\* A row of webhook_deliveries.
DeliveryState ==
    [hook : Hooks, status : {"pending", "success", "failed", "gone"},
     attempts : 0..HookMaxAttempts, due : BOOLEAN]

\* The latest attempt whose outcome a row says.
RecordedState == [attempt : 0..HookMaxAttempts, success : BOOLEAN]

\* A delivery worker.
DispatcherState ==
    [pc : {"idle", "deliver", "finish"}, id : Nat, attempt : Nat, success : BOOLEAN]

\* The types of the queue's variables.
HookTypes ==
    /\ hook \in [Hooks -> {"active", "inactive", "absent"}]
    /\ delivery \in Seq(DeliveryState)
    /\ recorded \in Seq(RecordedState) /\ Len(recorded) = Len(delivery)
    /\ dispatcher \in [Dispatchers -> DispatcherState]
    /\ firing \subseteq Hooks

\* The workers between a claim and its outcome.
AtWork == {w \in Dispatchers : dispatcher[w].pc # "idle"}

\* A worker at work holds an attempt that its row has counted.
AttemptsCounted ==
    \A w \in AtWork : /\ dispatcher[w].id \in 1..Len(delivery)
                      /\ dispatcher[w].attempt \in 1..delivery[dispatcher[w].id].attempts

\* No two workers are at the same attempt of the same row, lapsed leases included.
AttemptsApart ==
    \A v, w \in AtWork :
        (v # w /\ dispatcher[v].id = dispatcher[w].id)
            => dispatcher[v].attempt # dispatcher[w].attempt

\* What a row says is about an attempt already claimed, and not about one whose
\* worker is still at it.
RecordsBehind ==
    /\ \A i \in 1..Len(delivery) : recorded[i].attempt <= delivery[i].attempts
    /\ \A w \in AtWork :
          dispatcher[w].attempt = delivery[dispatcher[w].id].attempts
              => recorded[dispatcher[w].id].attempt < dispatcher[w].attempt

\* What one row and the outcome recorded for it say of each other.
Verdict(d, r) ==
    (d.status # "gone" /\ r.attempt > 0 /\ r.attempt = d.attempts) =>
        /\ (d.status = "success") = r.success
        /\ ~r.success /\ d.attempts < HookMaxAttempts => d.status = "pending"

\* The inductive invariant of the delivery queue.
HookInv ==
    /\ HookTypes /\ AttemptsCounted /\ AttemptsApart /\ RecordsBehind
    /\ \A i \in 1..Len(delivery) : Verdict(delivery[i], recorded[i])

(***************************************************************************)
(* Webhooks: the steps.                                                    *)
(***************************************************************************)

\* Replacing one row of a table.
LEMMA RowReplaced ==
    ASSUME NEW S, NEW s \in Seq(S), NEW i \in 1..Len(s), NEW x \in S
    PROVE  /\ [s EXCEPT ![i] = x] \in Seq(S)
           /\ Len([s EXCEPT ![i] = x]) = Len(s)
           /\ [s EXCEPT ![i] = x][i] = x
           /\ \A j \in 1..Len(s) : j # i => [s EXCEPT ![i] = x][j] = s[j]
OBVIOUS

\* The sweep only parks rows without an attempt left.
LEMMA SweptFacts ==
    ASSUME NEW d \in DeliveryState
    PROVE  /\ Swept(d) \in DeliveryState
           /\ Swept(d).attempts = d.attempts /\ Swept(d).hook = d.hook /\ Swept(d).due = d.due
           /\ \/ Swept(d).status = d.status
              \/ d.status = "pending" /\ d.attempts >= HookMaxAttempts /\ Swept(d).status = "failed"
BY DEF Swept, DeliveryState

\* The sweep takes back no verdict.
LEMMA SweptVerdict ==
    ASSUME NEW d \in DeliveryState, NEW r \in RecordedState, Verdict(d, r)
    PROVE  Verdict(Swept(d), r)
BY SweptFacts, HookAssumption DEF Verdict, DeliveryState, RecordedState

\* Rows that keep their attempts, under the same workers, keep the invariant if
\* they keep their verdicts.
LEMMA RowsKeep ==
    ASSUME HookInv, HookTypes', Len(delivery') = Len(delivery),
           UNCHANGED <<dispatcher, recorded>>,
           \A i \in 1..Len(delivery) : /\ delivery'[i].attempts = delivery[i].attempts
                                       /\ Verdict(delivery'[i], recorded[i])
    PROVE  HookInv'
BY DEF HookInv, HookTypes, AtWork, AttemptsCounted, AttemptsApart, RecordsBehind

\* A step of Fire, of a webhook's owner or of a worker that leaves the rows alone.
LEMMA WorkersKeep ==
    ASSUME HookInv, HookTypes', UNCHANGED <<delivery, recorded>>,
           \A w \in Dispatchers : \/ dispatcher'[w].pc = "idle"
                                  \/ /\ dispatcher[w].pc # "idle"
                                     /\ dispatcher'[w].id = dispatcher[w].id
                                     /\ dispatcher'[w].attempt = dispatcher[w].attempt
    PROVE  HookInv'
<1>1. AtWork' \subseteq AtWork
  BY DEF AtWork
<1>2. \A w \in AtWork' : /\ dispatcher'[w].id = dispatcher[w].id
                         /\ dispatcher'[w].attempt = dispatcher[w].attempt
  BY DEF AtWork
<1>3. AttemptsCounted' /\ AttemptsApart' /\ RecordsBehind'
  BY <1>1, <1>2 DEF HookInv, AttemptsCounted, AttemptsApart, RecordsBehind
<1>4. QED
  BY <1>3 DEF HookInv

\* A fresh row has no verdict and no worker.
LEMMA AddDeliveryKeeps ==
    ASSUME HookInv, NEW h \in Hooks, AddDelivery(h), UNCHANGED <<hook, dispatcher>>,
           firing' \subseteq Hooks
    PROVE  HookInv'
<1>1. NewDelivery(h) \in DeliveryState /\ Unrecorded \in RecordedState
  BY HookAssumption DEF NewDelivery, DeliveryState, Unrecorded, RecordedState
<1> DEFINE n == Len(delivery)
<1>2. n \in Nat /\ delivery \in Seq(DeliveryState) /\ recorded \in Seq(RecordedState)
      /\ Len(recorded) = n
  BY DEF HookInv, HookTypes
<1>3. /\ delivery' \in Seq(DeliveryState) /\ Len(delivery') = n + 1
      /\ \A i \in 1..n : delivery'[i] = delivery[i]
      /\ delivery'[n + 1] = NewDelivery(h)
  BY <1>1, <1>2, AppendProperties DEF AddDelivery
<1>4. /\ recorded' \in Seq(RecordedState) /\ Len(recorded') = n + 1
      /\ \A i \in 1..n : recorded'[i] = recorded[i]
      /\ recorded'[n + 1] = Unrecorded
  BY <1>1, <1>2, AppendProperties DEF AddDelivery
<1> HIDE DEF n
<1>5. HookTypes'
  BY <1>3, <1>4 DEF HookInv, HookTypes
<1>6. AtWork' = AtWork /\ \A w \in AtWork : dispatcher[w].id \in 1..n
  BY DEF AtWork, HookInv, AttemptsCounted, n
<1>7. AttemptsCounted' /\ AttemptsApart'
  BY <1>2, <1>3, <1>6 DEF HookInv, AttemptsCounted, AttemptsApart
<1>8. RecordsBehind'
  <2>1. \A i \in 1..Len(delivery') : i \in 1..n \/ i = n + 1
    BY <1>2, <1>3
  <2>2. Unrecorded.attempt <= NewDelivery(h).attempts
    BY DEF Unrecorded, NewDelivery
  <2>3. QED
    BY <1>2, <1>3, <1>4, <1>6, <2>1, <2>2 DEF HookInv, RecordsBehind, n
<1>9. \A i \in 1..Len(delivery') : Verdict(delivery'[i], recorded'[i])
  <2>1. \A i \in 1..Len(delivery') : i \in 1..n \/ i = n + 1
    BY <1>2, <1>3
  <2>2. Verdict(NewDelivery(h), Unrecorded)
    BY DEF Verdict, Unrecorded
  <2>3. QED
    BY <1>3, <1>4, <2>1, <2>2 DEF HookInv, n
<1>10. QED
  BY <1>5, <1>7, <1>8, <1>9 DEF HookInv

\* Claiming: every row swept, and one of them given its next attempt.
LEMMA ClaimKeeps ==
    ASSUME HookInv, NEW w \in Dispatchers, ClaimWebhookDelivery(w)
    PROVE  HookInv'
<1> DEFINE swept == [i \in DOMAIN delivery |-> Swept(delivery[i])]
           n == Len(delivery)
<1>1. /\ n \in Nat /\ DOMAIN delivery = 1..n /\ Len(recorded) = n
      /\ \A i \in 1..n : delivery[i] \in DeliveryState /\ recorded[i] \in RecordedState
  BY DEF HookInv, HookTypes
<1>2. swept \in Seq(DeliveryState) /\ Len(swept) = n
  <2>1. \A i \in 1..n : Swept(delivery[i]) \in DeliveryState
    BY <1>1, SweptFacts
  <2>2. swept = [i \in 1..n |-> Swept(delivery[i])]
    BY <1>1
  <2>3. QED
    BY <1>1, <2>1, <2>2, IsASeq, LenProperties
<1>3. \A i \in 1..n : /\ swept[i] = Swept(delivery[i])
                      /\ swept[i].attempts = delivery[i].attempts
                      /\ Verdict(swept[i], recorded[i])
  BY <1>1, SweptFacts, SweptVerdict DEF HookInv
<1>4. dispatcher[w].pc = "idle" /\ UNCHANGED <<hook, firing, recorded>>
  BY DEF ClaimWebhookDelivery
<1>5. CASE delivery' = swept /\ UNCHANGED dispatcher
  <2>1. HookTypes'
    BY <1>2, <1>4, <1>5 DEF HookInv, HookTypes
  <2>2. QED
    BY <1>2, <1>3, <1>4, <1>5, <2>1, RowsKeep
<1>6. CASE \E i \in DOMAIN delivery :
              /\ Deliverable(swept[i])
              /\ delivery' = [swept EXCEPT ![i].attempts = @ + 1, ![i].due = FALSE]
              /\ dispatcher' = [dispatcher EXCEPT ![w] =
                     [pc |-> "deliver", id |-> i,
                      attempt |-> delivery[i].attempts + 1, success |-> FALSE]]
  <2>1. PICK i \in 1..n :
              /\ Deliverable(swept[i])
              /\ delivery' = [swept EXCEPT ![i].attempts = @ + 1, ![i].due = FALSE]
              /\ dispatcher' = [dispatcher EXCEPT ![w] =
                     [pc |-> "deliver", id |-> i,
                      attempt |-> delivery[i].attempts + 1, success |-> FALSE]]
    BY <1>1, <1>6
  <2> DEFINE a == delivery[i].attempts
             d == [swept[i] EXCEPT !.attempts = @ + 1, !.due = FALSE]
  <2>2. a \in 0..HookMaxAttempts /\ a < HookMaxAttempts /\ swept[i] \in DeliveryState
        /\ swept[i].attempts = a
    BY <1>1, <1>3, <2>1, SweptFacts DEF Deliverable, DeliveryState
  <2>3. d \in DeliveryState /\ d.attempts = a + 1
    <3>1. a + 1 \in 0..HookMaxAttempts
      BY <2>2, HookAssumption
    <3>2. d = [swept[i] EXCEPT !.attempts = a + 1, !.due = FALSE]
      BY <2>2
    <3> HIDE DEF swept, a, d
    <3>3. QED
      BY <2>2, <3>1, <3>2 DEF DeliveryState
  <2>4. delivery' = [swept EXCEPT ![i] = d]
    BY <2>1
  <2>5. /\ delivery' \in Seq(DeliveryState) /\ Len(delivery') = n /\ delivery'[i] = d
        /\ \A j \in 1..n : j # i => delivery'[j] = swept[j]
    <3> HIDE DEF swept, d
    <3>1. QED
      BY <1>2, <2>3, <2>4, RowReplaced
  <2> DEFINE me == [pc |-> "deliver", id |-> i, attempt |-> a + 1, success |-> FALSE]
  <2>6. /\ me \in DispatcherState /\ dispatcher' \in [Dispatchers -> DispatcherState]
        /\ dispatcher'[w] = me
        /\ \A v \in Dispatchers : v # w => dispatcher'[v] = dispatcher[v]
    BY <2>1, <2>2 DEF HookInv, HookTypes, DispatcherState
  <2>7. HookTypes'
    BY <1>1, <1>4, <2>5, <2>6 DEF HookInv, HookTypes
  <2>8. AtWork' = AtWork \cup {w} /\ w \notin AtWork
    BY <1>4, <2>6 DEF AtWork
  <2>9. \A j \in 1..n : delivery'[j].attempts = IF j = i THEN a + 1 ELSE delivery[j].attempts
    BY <1>3, <2>3, <2>5
  <2>10. \A j \in 1..n : delivery[j].attempts \in Nat /\ recorded[j].attempt \in Nat
    BY <1>1 DEF DeliveryState, RecordedState
  <2> HIDE DEF swept, a, d
  <2>11. \A v \in AtWork : /\ dispatcher'[v] = dispatcher[v] /\ dispatcher[v].id \in 1..n
                           /\ dispatcher[v].attempt \in 1..delivery[dispatcher[v].id].attempts
    BY <2>6, <2>8 DEF HookInv, AttemptsCounted, AtWork
  <2>12. a = delivery[i].attempts
    BY DEF a
  <2>13. AttemptsCounted'
    <3> SUFFICES ASSUME NEW v \in AtWork'
                 PROVE  /\ dispatcher'[v].id \in 1..n
                        /\ dispatcher'[v].attempt \in 1..delivery'[dispatcher'[v].id].attempts
      BY <2>5 DEF AttemptsCounted
    <3>1. CASE v = w
      BY <2>2, <2>6, <2>9, <3>1
    <3>2. CASE v \in AtWork
      <4> DEFINE j == dispatcher[v].id
      <4>1. j \in 1..n /\ dispatcher'[v] = dispatcher[v]
            /\ dispatcher[v].attempt \in 1..delivery[j].attempts
        BY <2>11, <3>2
      <4>2. delivery[j].attempts \in Nat /\ delivery'[j].attempts \in Nat
            /\ delivery[j].attempts <= delivery'[j].attempts
        <5>1. j \in 1..n
          BY <4>1
        <5> HIDE DEF j
        <5>2. CASE j = i
          BY <2>2, <2>9, <2>12, <5>1, <5>2
        <5>3. CASE j # i
          BY <2>9, <2>10, <5>1, <5>3
        <5>4. QED
          BY <5>2, <5>3
      <4> HIDE DEF j
      <4>3. dispatcher[v].attempt \in 1..delivery'[j].attempts
        BY <4>1, <4>2
      <4>4. QED
        BY <4>1, <4>3 DEF j
    <3>3. QED
      BY <2>8, <3>1, <3>2
  <2>14. AttemptsApart'
    <3> SUFFICES ASSUME NEW u \in AtWork', NEW v \in AtWork', u # v,
           dispatcher'[u].id = dispatcher'[v].id
                 PROVE  dispatcher'[u].attempt # dispatcher'[v].attempt
      BY DEF AttemptsApart
    <3>1. CASE u \in AtWork /\ v \in AtWork
      BY <2>11, <3>1 DEF HookInv, AttemptsApart
    <3>2. CASE u = w
      <4>1. v \in AtWork
        BY <2>8, <3>2
      <4>2. dispatcher[v].attempt \in 1..a
        BY <2>6, <2>11, <2>12, <3>2, <4>1
      <4>3. QED
        BY <2>2, <2>6, <2>11, <3>2, <4>1, <4>2
    <3>3. CASE v = w
      <4>1. u \in AtWork
        BY <2>8, <3>3
      <4>2. dispatcher[u].attempt \in 1..a
        BY <2>6, <2>11, <2>12, <3>3, <4>1
      <4>3. QED
        BY <2>2, <2>6, <2>11, <3>3, <4>1, <4>2
    <3>4. QED
      BY <2>8, <3>1, <3>2, <3>3
  <2>15. \A j \in 1..n : recorded[j].attempt <= delivery[j].attempts
    BY DEF HookInv, RecordsBehind
  <2>16. RecordsBehind'
    <3>1. \A j \in 1..n : recorded'[j].attempt <= delivery'[j].attempts
      BY <1>4, <2>2, <2>9, <2>10, <2>12, <2>15
    <3>2. ASSUME NEW v \in AtWork', dispatcher'[v].attempt = delivery'[dispatcher'[v].id].attempts
          PROVE  recorded'[dispatcher'[v].id].attempt < dispatcher'[v].attempt
      <4>1. CASE v = w
        BY <1>4, <2>2, <2>6, <2>10, <2>12, <2>15, <4>1
      <4>2. CASE v \in AtWork /\ dispatcher[v].id = i
        <5>1. dispatcher[v].attempt \in 1..a
          BY <2>11, <2>12, <4>2
        <5>2. QED
          BY <2>2, <2>9, <2>11, <3>2, <4>2, <5>1
      <4>3. CASE v \in AtWork /\ dispatcher[v].id # i
        BY <1>4, <2>9, <2>11, <3>2, <4>3 DEF HookInv, RecordsBehind
      <4>4. QED
        BY <2>8, <4>1, <4>2, <4>3
    <3>3. QED
      BY <2>5, <3>1, <3>2 DEF RecordsBehind
  <2>17. \A j \in 1..n : Verdict(delivery'[j], recorded'[j])
    <3> TAKE j \in 1..n
    <3>1. CASE j = i
      <4>1. recorded[i].attempt # delivery'[i].attempts
        BY <2>2, <2>9, <2>10, <2>12, <2>15
      <4>2. QED
        BY <1>4, <3>1, <4>1 DEF Verdict
    <3>2. CASE j # i
      BY <1>3, <1>4, <2>5, <3>2 DEF swept
    <3>3. QED
      BY <3>1, <3>2
  <2>18. QED
    BY <2>5, <2>7, <2>13, <2>14, <2>16, <2>17 DEF HookInv
<1>7. QED
  BY <1>5, <1>6 DEF ClaimWebhookDelivery
\* Writing an outcome: only if the claim is still the row's last one.
LEMMA FinishKeeps ==
    ASSUME HookInv, NEW w \in Dispatchers, FinishWebhookDelivery(w)
    PROVE  HookInv'
<1> DEFINE n == Len(delivery)
           me == dispatcher[w]
           i == me.id
<1>1. /\ n \in Nat /\ DOMAIN delivery = 1..n /\ Len(recorded) = n
      /\ \A j \in 1..n : delivery[j] \in DeliveryState /\ recorded[j] \in RecordedState
  BY DEF HookInv, HookTypes
<1>2. /\ w \in AtWork /\ me \in DispatcherState /\ i \in 1..n
      /\ me.attempt \in 1..delivery[i].attempts
  BY DEF FinishWebhookDelivery, HookInv, HookTypes, AtWork, AttemptsCounted
<1>3. /\ dispatcher' \in [Dispatchers -> DispatcherState]
      /\ dispatcher'[w].pc = "idle"
      /\ \A v \in Dispatchers : v # w => dispatcher'[v] = dispatcher[v]
      /\ UNCHANGED <<hook, firing>>
  <2>1. DispatcherIdle \in DispatcherState /\ DispatcherIdle.pc = "idle"
    BY DEF DispatcherIdle, DispatcherState
  <2>2. QED
    BY <2>1 DEF FinishWebhookDelivery, HookInv, HookTypes
<1>4. CASE ~StillClaimed(w)
  <2>1. UNCHANGED <<delivery, recorded>>
    BY <1>4 DEF FinishWebhookDelivery
  <2>2. HookTypes'
    BY <1>3, <2>1 DEF HookInv, HookTypes
  <2>3. QED
    BY <1>3, <2>1, <2>2, WorkersKeep
<1>5. CASE StillClaimed(w)
  <2> DEFINE d == [delivery[i] EXCEPT !.status = Outcome(w),
                       !.due = IF Outcome(w) = "pending" THEN FALSE ELSE @]
             r == [attempt |-> me.attempt, success |-> me.success]
  <2>1. delivery[i].attempts = me.attempt /\ delivery[i].status # "gone"
    BY <1>5 DEF StillClaimed
  <2>2. /\ delivery[i] \in DeliveryState /\ delivery[i].attempts \in 0..HookMaxAttempts
        /\ recorded[i] \in RecordedState /\ recorded[i].attempt \in Nat
        /\ me.success \in BOOLEAN
    BY <1>1, <1>2 DEF DeliveryState, RecordedState, DispatcherState
  <2>3. recorded[i].attempt < me.attempt
    BY <1>2, <2>1 DEF HookInv, RecordsBehind
  <2>4. delivery' = [delivery EXCEPT ![i] = d]
    BY <1>5 DEF FinishWebhookDelivery
  <2>5. recorded' = [recorded EXCEPT ![i] = r]
    <3>1. ~(me.attempt < recorded[i].attempt)
      BY <1>2, <2>1, <2>2, <2>3
    <3>2. recorded' = [recorded EXCEPT ![i] =
                   IF me.attempt < @.attempt THEN @
                   ELSE [attempt |-> me.attempt, success |-> me.success]]
      BY <1>5 DEF FinishWebhookDelivery
    <3>3. QED
      BY <1>1, <1>2, <3>1, <3>2
  <2>6. Outcome(w) \in {"pending", "success", "failed"}
    BY DEF Outcome
  <2>7. d \in DeliveryState /\ d.attempts = delivery[i].attempts /\ d.status = Outcome(w)
    BY <2>2, <2>6 DEF DeliveryState
  <2>8. r \in RecordedState
    BY <2>1, <2>2 DEF RecordedState
  <2>9. delivery \in Seq(DeliveryState) /\ recorded \in Seq(RecordedState)
    BY DEF HookInv, HookTypes
  <2>10. /\ delivery' \in Seq(DeliveryState) /\ Len(delivery') = n /\ delivery'[i] = d
         /\ \A j \in 1..n : j # i => delivery'[j] = delivery[j]
    <3> HIDE DEF d, i
    <3>1. QED
      BY <1>2, <2>4, <2>7, <2>9, RowReplaced
  <2>11. /\ recorded' \in Seq(RecordedState) /\ Len(recorded') = n /\ recorded'[i] = r
         /\ \A j \in 1..n : j # i => recorded'[j] = recorded[j]
    <3> HIDE DEF r, i
    <3>1. QED
      BY <1>1, <1>2, <2>5, <2>8, <2>9, RowReplaced
  <2>12. HookTypes'
    BY <1>3, <2>10, <2>11 DEF HookInv, HookTypes
  <2>13. /\ AtWork' = AtWork \ {w}
         /\ \A v \in AtWork' : dispatcher'[v] = dispatcher[v] /\ dispatcher[v].id \in 1..n
    BY <1>3 DEF AtWork, HookInv, AttemptsCounted
  <2>14. \A j \in 1..n : delivery'[j].attempts = delivery[j].attempts
    BY <2>7, <2>10
  <2>15. \A j \in 1..n : recorded'[j].attempt = IF j = i THEN me.attempt ELSE recorded[j].attempt
    BY <2>11
  <2>16. Verdict(d, r)
    <3>1. r.attempt = me.attempt /\ r.success = me.success
      OBVIOUS
    <3>2. d.attempts = me.attempt /\ d.status = Outcome(w)
      BY <2>1, <2>7
    <3> HIDE DEF d, r
    <3>3. CASE me.success
      <4>1. d.status = "success"
        BY <3>2, <3>3 DEF Outcome
      <4>2. QED
        BY <3>1, <3>3, <4>1 DEF Verdict
    <3>4. CASE ~me.success
      <4>1. d.status = IF me.attempt >= HookMaxAttempts THEN "failed" ELSE "pending"
        BY <3>2, <3>4 DEF Outcome
      <4>2. me.attempt \in Nat
        BY <1>2 DEF DispatcherState
      <4>3. d.status # "success" /\ (me.attempt < HookMaxAttempts => d.status = "pending")
        BY <4>1, <4>2, HookAssumption
      <4>4. QED
        BY <2>2, <3>1, <3>2, <3>4, <4>3 DEF Verdict
    <3>5. QED
      BY <3>3, <3>4
  <2> HIDE DEF d, r
  <2>17. AttemptsCounted' /\ AttemptsApart'
    BY <2>10, <2>13, <2>14 DEF HookInv, AttemptsCounted, AttemptsApart
  <2>18. RecordsBehind'
    <3>1. \A j \in 1..n : recorded'[j].attempt <= delivery'[j].attempts
      BY <1>2, <2>1, <2>2, <2>14, <2>15 DEF HookInv, RecordsBehind
    <3>2. ASSUME NEW v \in AtWork', dispatcher'[v].attempt = delivery'[dispatcher'[v].id].attempts
          PROVE  recorded'[dispatcher'[v].id].attempt < dispatcher'[v].attempt
      <4>1. CASE dispatcher[v].id = i
        <5>1. dispatcher[v].attempt = me.attempt
          BY <2>1, <2>13, <2>14, <3>2, <4>1
        <5>2. QED
          BY <1>2, <2>13, <4>1, <5>1 DEF HookInv, AttemptsApart
      <4>2. CASE dispatcher[v].id # i
        BY <2>13, <2>14, <2>15, <3>2, <4>2 DEF HookInv, RecordsBehind
      <4>3. QED
        BY <4>1, <4>2
    <3>3. QED
      BY <2>10, <3>1, <3>2 DEF RecordsBehind
  <2>19. \A j \in 1..n : Verdict(delivery'[j], recorded'[j])
    BY <2>10, <2>11, <2>16 DEF HookInv
  <2>20. QED
    BY <2>10, <2>12, <2>17, <2>18, <2>19 DEF HookInv
<1>6. QED
  BY <1>4, <1>5

\* The other steps of a worker.
LEMMA DispatchKeeps ==
    ASSUME HookInv, NEW w \in Dispatchers, Dispatch(w)
    PROVE  HookInv'
<1>1. CASE ClaimWebhookDelivery(w)
  BY <1>1, ClaimKeeps
<1>2. CASE FinishWebhookDelivery(w)
  BY <1>2, FinishKeeps
<1>3. CASE Deliver(w)
  <2>1. PICK ok \in BOOLEAN :
            /\ dispatcher[w].pc = "deliver"
            /\ dispatcher' = [dispatcher EXCEPT ![w].pc = "finish", ![w].success = ok]
            /\ UNCHANGED <<hook, delivery, firing, recorded, fired, hookEdits>>
    BY <1>3 DEF Deliver
  <2>2. dispatcher \in [Dispatchers -> DispatcherState]
    BY DEF HookInv, HookTypes
  <2>3. [dispatcher[w] EXCEPT !.pc = "finish", !.success = ok] \in DispatcherState
    BY <2>2 DEF DispatcherState
  <2>4. dispatcher' = [dispatcher EXCEPT ![w] = [dispatcher[w] EXCEPT !.pc = "finish", !.success = ok]]
    BY <2>1
  <2>5. /\ dispatcher' \in [Dispatchers -> DispatcherState]
        /\ \A v \in Dispatchers : v # w => dispatcher'[v] = dispatcher[v]
        /\ dispatcher'[w] = [dispatcher[w] EXCEPT !.pc = "finish", !.success = ok]
    BY <2>2, <2>3, <2>4
  <2>6. dispatcher'[w].id = dispatcher[w].id /\ dispatcher'[w].attempt = dispatcher[w].attempt
    BY <2>2, <2>5 DEF DispatcherState
  <2>7. HookTypes'
    BY <2>1, <2>5 DEF HookInv, HookTypes
  <2>8. QED
    BY <2>1, <2>5, <2>6, <2>7, WorkersKeep
<1>4. CASE OutcomeLost(w)
  <2>1. DispatcherIdle \in DispatcherState /\ DispatcherIdle.pc = "idle"
    BY DEF DispatcherIdle, DispatcherState
  <2>2. /\ dispatcher' \in [Dispatchers -> DispatcherState] /\ dispatcher'[w].pc = "idle"
        /\ \A v \in Dispatchers : v # w => dispatcher'[v] = dispatcher[v]
        /\ UNCHANGED <<hook, delivery, firing, recorded>>
    BY <1>4, <2>1 DEF OutcomeLost, HookInv, HookTypes
  <2>3. HookTypes'
    BY <2>2 DEF HookInv, HookTypes
  <2>4. QED
    BY <2>2, <2>3, WorkersKeep
<1>5. QED
  BY <1>1, <1>2, <1>3, <1>4 DEF Dispatch

\* Firing an event.
LEMMA FireKeeps ==
    ASSUME HookInv, ListMatchingWebhooks \/ CreateWebhookDelivery \/ FireAborted
    PROVE  HookInv'
<1>1. firing \subseteq Hooks
  BY DEF HookInv, HookTypes
<1>2. CASE UNCHANGED <<hook, delivery, dispatcher, recorded>> /\ firing' \subseteq Hooks
  <2>1. HookTypes'
    BY <1>2 DEF HookInv, HookTypes
  <2>2. QED
    BY <1>2, <2>1, WorkersKeep
<1>3. CASE CreateWebhookDelivery
  <2>1. PICK h \in firing :
            /\ \/ /\ hook[h] # "absent" /\ AddDelivery(h) /\ firing' = firing \ {h}
               \/ /\ hook[h] = "absent" /\ firing' = {} /\ UNCHANGED <<delivery, recorded>>
            /\ UNCHANGED <<hook, dispatcher, fired, hookEdits>>
    BY <1>3 DEF CreateWebhookDelivery
  <2>2. CASE AddDelivery(h) /\ firing' = firing \ {h}
    BY <1>1, <2>1, <2>2, AddDeliveryKeeps
  <2>3. QED
    BY <1>2, <2>1, <2>2
<1>4. QED
  BY <1>1, <1>2, <1>3 DEF ListMatchingWebhooks, FireAborted

\* Enabling and disabling a webhook leaves the rows alone; deleting it takes its
\* rows.
LEMMA EditKeeps ==
    ASSUME HookInv, NEW h \in Hooks, UpdateWebhook(h) \/ DeleteWebhook(h)
    PROVE  HookInv'
<1>1. CASE UpdateWebhook(h)
  <2>1. HookTypes' /\ UNCHANGED <<delivery, dispatcher, recorded>>
    BY <1>1 DEF UpdateWebhook, HookInv, HookTypes
  <2>2. QED
    BY <2>1, WorkersKeep
<1>2. CASE DeleteWebhook(h)
  <2> DEFINE n == Len(delivery)
             gone(i) == IF delivery[i].hook = h THEN [delivery[i] EXCEPT !.status = "gone"]
                                                ELSE delivery[i]
  <2>1. /\ n \in Nat /\ DOMAIN delivery = 1..n /\ Len(recorded) = n
        /\ \A i \in 1..n : delivery[i] \in DeliveryState
    BY DEF HookInv, HookTypes
  <2>2. \A i \in 1..n : /\ gone(i) \in DeliveryState /\ gone(i).attempts = delivery[i].attempts
                        /\ gone(i) = delivery[i] \/ gone(i).status = "gone"
    BY <2>1 DEF DeliveryState
  <2>3. delivery' = [i \in 1..n |-> gone(i)] /\ UNCHANGED <<firing, dispatcher, recorded>>
    BY <1>2, <2>1 DEF DeleteWebhook
  <2>4. delivery' \in Seq(DeliveryState) /\ Len(delivery') = n
    BY <2>1, <2>2, <2>3, IsASeq, LenProperties
  <2>5. HookTypes'
    BY <1>2, <2>3, <2>4 DEF DeleteWebhook, HookInv, HookTypes
  <2>6. \A i \in 1..n : /\ delivery'[i].attempts = delivery[i].attempts
                        /\ Verdict(delivery'[i], recorded[i])
    BY <2>2, <2>3 DEF HookInv, Verdict
  <2>7. QED
    BY <2>3, <2>4, <2>5, <2>6, RowsKeep
<1>3. QED
  BY <1>1, <1>2

\* A redelivery is a fresh row; an attempt that falls due is no other attempt.
LEMMA RowKeeps ==
    ASSUME HookInv, NEW i \in DOMAIN delivery, RedeliverWebhookDelivery(i) \/ AttemptDue(i)
    PROVE  HookInv'
<1>1. /\ i \in 1..Len(delivery) /\ delivery[i] \in DeliveryState
      /\ delivery \in Seq(DeliveryState) /\ delivery[i].hook \in Hooks /\ firing \subseteq Hooks
  <2>1. i \in 1..Len(delivery) /\ delivery[i] \in DeliveryState /\ delivery \in Seq(DeliveryState)
        /\ firing \subseteq Hooks
    BY DEF HookInv, HookTypes
  <2>2. QED
    BY <2>1 DEF DeliveryState
<1>2. CASE RedeliverWebhookDelivery(i)
  BY <1>1, <1>2, AddDeliveryKeeps DEF RedeliverWebhookDelivery
<1>3. CASE AttemptDue(i)
  <2> DEFINE d == [delivery[i] EXCEPT !.due = TRUE]
  <2>1. d \in DeliveryState /\ d.attempts = delivery[i].attempts /\ d.status = delivery[i].status
    BY <1>1 DEF DeliveryState
  <2>2. delivery' = [delivery EXCEPT ![i] = d] /\ UNCHANGED <<hook, firing, dispatcher, recorded>>
    BY <1>3 DEF AttemptDue
  <2>3. /\ delivery' \in Seq(DeliveryState) /\ Len(delivery') = Len(delivery) /\ delivery'[i] = d
        /\ \A j \in 1..Len(delivery) : j # i => delivery'[j] = delivery[j]
    BY <1>1, <2>1, <2>2, RowReplaced
  <2> HIDE DEF d
  <2>4. HookTypes'
    BY <2>2, <2>3 DEF HookInv, HookTypes
  <2>5. \A j \in 1..Len(delivery) : /\ delivery'[j].attempts = delivery[j].attempts
                                    /\ Verdict(delivery'[j], recorded[j])
    BY <2>1, <2>3 DEF HookInv, Verdict
  <2>6. QED
    BY <2>2, <2>3, <2>4, <2>5, RowsKeep
<1>4. QED
  BY <1>2, <1>3

\* The first state has no rows and no worker at work.
LEMMA HookInitially == HookInit => HookInv
<1> SUFFICES ASSUME HookInit PROVE HookInv
  OBVIOUS
<1>1. DispatcherIdle \in DispatcherState /\ DispatcherIdle.pc = "idle"
  BY DEF DispatcherIdle, DispatcherState
<1>2. delivery = <<>> /\ recorded = <<>>
  BY DEF HookInit
<1>3. delivery \in Seq(DeliveryState) /\ recorded \in Seq(RecordedState) /\ Len(delivery) = 0
      /\ Len(recorded) = 0
  BY <1>2
<1>4. HookTypes /\ AtWork = {}
  BY <1>1, <1>3 DEF HookInit, HookTypes, AtWork
<1>5. QED
  BY <1>3, <1>4 DEF HookInv, AttemptsCounted, AttemptsApart, RecordsBehind

\* Every step of the queue keeps the invariant.
LEMMA HookNextKeeps == ASSUME HookInv, [HookNext]_hookVars PROVE HookInv'
<1>1. CASE UNCHANGED hookVars
  <2>1. UNCHANGED <<hook, delivery, firing, dispatcher, recorded>>
    BY <1>1 DEF hookVars
  <2>2. HookTypes'
    BY <2>1 DEF HookInv, HookTypes
  <2>3. QED
    BY <2>1, <2>2 DEF HookInv, AtWork, AttemptsCounted, AttemptsApart, RecordsBehind
<1>2. CASE HookNext
  BY <1>2, FireKeeps, EditKeeps, RowKeeps, DispatchKeeps DEF HookNext
<1>3. QED
  BY <1>1, <1>2

(***************************************************************************)
(* Webhooks: the theorems.                                                 *)
(***************************************************************************)

\* The inductive invariant of the delivery queue holds in every state.
THEOREM HookInductive == HookSpec => []HookInv
<1>1. HookSpec => HookInit /\ [][HookNext]_hookVars
  BY DEF HookSpec
<1>2. QED
  BY <1>1, HookInitially, HookNextKeeps, PTL

\* The shape of the queue: no row is attempted more often than MaxAttempts, and a
\* worker at work holds an attempt its row has counted (store/webhooks.go).
THEOREM HookTypeCorrect == HookSpec => []HookTypeOK
<1>1. ASSUME HookInv PROVE HookTypeOK
  <2>1. /\ DOMAIN delivery = 1..Len(delivery) /\ DOMAIN recorded = 1..Len(delivery)
        /\ \A i \in 1..Len(delivery) : delivery[i] \in DeliveryState
    BY <1>1 DEF HookInv, HookTypes
  <2>2. QED
    BY <1>1, <2>1 DEF HookInv, HookTypes, HookTypeOK, AttemptsCounted, AtWork, DeliveryState
<1>2. QED
  BY <1>1, HookInductive, PTL

\* A row's status is what its last attempt's outcome made it, for any number of
\* workers, lapsed leases and sweeps (FinishWebhookDelivery's fence on attempts).
THEOREM VerdictStands == HookSpec => []VerdictIsLastAnswer
<1>1. ASSUME HookInv PROVE VerdictIsLastAnswer
  <2>1. DOMAIN delivery = 1..Len(delivery)
    BY <1>1 DEF HookInv, HookTypes
  <2>2. QED
    BY <1>1, <2>1 DEF HookInv, Verdict, VerdictIsLastAnswer
<1>2. QED
  BY <1>1, HookInductive, PTL

(***************************************************************************)
(* Blobs: the inductive invariant.                                         *)
(***************************************************************************)

\* A sync worker.
PublisherState ==
    [pc : {"idle", "publish", "repair"}, ref : BlobRefs \cup {"none"},
     tree : SUBSET Shas, todo : SUBSET Shas]

\* A collection.
CollectorState ==
    [pc : {"idle", "listed", "next", "claim", "remove", "commit"},
     todo : SUBSET Shas, sha : Shas \cup {"none"}]

\* The types of the variables; a worker at work has a ref, a collection at a
\* blob has that blob.
BlobTypes ==
    /\ tree \in [BlobRefs -> SUBSET Shas] /\ files \in [BlobRefs -> SUBSET Shas]
    /\ queued \subseteq BlobRefs /\ dropping \subseteq BlobRefs /\ repaired \subseteq BlobRefs
    /\ bucket \subseteq Shas
    /\ ledger \in [Shas -> {"none", "recent", "old"}]
    /\ overlap \in [Shas -> SUBSET Publishers]
    /\ publisher \in [Publishers -> PublisherState]
    /\ \A p \in Publishers : publisher[p].pc # "idle" => publisher[p].ref \in BlobRefs
    /\ collector \in [Collectors -> CollectorState]
    /\ \A c \in Collectors :
          collector[c].pc \in {"claim", "remove", "commit"} => collector[c].sha \in Shas

\* The collections that hold a ledger row.
Holding == {c \in Collectors : collector[c].pc \in {"remove", "commit"}}

\* A held row has one holder and a fresh stamp; one about to be claimed has a
\* fresh stamp, or was taken by a repair.
RowsHeldOnce ==
    /\ held = {collector[c].sha : c \in Holding}
    /\ \A c, d \in Holding : collector[c].sha = collector[d].sha => c = d
    /\ \A c \in Holding : ledger[collector[c].sha] = "recent"
    /\ \A c \in Collectors : collector[c].pc = "claim" => ledger[collector[c].sha] # "old"

\* A file of the index without an object has a row no collection may prune.
IndexCovered == \A r \in BlobRefs : \A s \in files[r] : s \in bucket \/ ledger[s] = "recent"

\* A worker about to swap the index in has published what it names, or holds
\* young the row its loss was recorded in.
PublishedCovered ==
    \A p \in Publishers : publisher[p].pc = "publish" =>
        \A s \in publisher[p].tree \ publisher[p].todo :
            s \in bucket \/ (ledger[s] = "recent" /\ p \in overlap[s])

\* A blob whose removal is decided is in no index whose repair is over.
RemovalsUnrepaired ==
    \A c \in Collectors : collector[c].pc = "remove" =>
        \A r \in repaired : collector[c].sha \notin files[r]

\* The inductive invariant of blobs.
BlobInv ==
    /\ BlobTypes /\ RowsHeldOnce /\ IndexCovered /\ PublishedCovered
    /\ RemovalsUnrepaired /\ RepairedRefsServe
(***************************************************************************)
(* Blobs: the steps.                                                       *)
(***************************************************************************)

\* A worker or a collection with nothing to do.
LEMMA IdleFacts ==
    /\ PublisherIdle \in PublisherState /\ PublisherIdle.pc = "idle"
    /\ CollectorIdle \in CollectorState /\ CollectorIdle.pc = "idle"
BY DEF PublisherIdle, PublisherState, CollectorIdle, CollectorState

\* Moving one worker.
LEMMA PublisherMoves ==
    ASSUME BlobTypes, NEW p \in Publishers, NEW to \in PublisherState, MovePublisher(p, to)
    PROVE  /\ publisher' \in [Publishers -> PublisherState] /\ publisher'[p] = to
           /\ \A q \in Publishers : q # p => publisher'[q] = publisher[q]
BY DEF BlobTypes, MovePublisher

\* Moving one collection.
LEMMA CollectorMoves ==
    ASSUME BlobTypes, NEW c \in Collectors, NEW to \in CollectorState, MoveCollector(c, to)
    PROVE  /\ collector' \in [Collectors -> CollectorState] /\ collector'[c] = to
           /\ \A d \in Collectors : d # c => collector'[d] = collector[d]
BY DEF BlobTypes, MoveCollector

\* A worker that ends is in no row's overlap, and the others stay in theirs.
LEMMA PipelineEnds ==
    ASSUME BlobTypes, NEW p \in Publishers, EndPipeline(p)
    PROVE  /\ publisher' \in [Publishers -> PublisherState] /\ publisher'[p].pc = "idle"
           /\ \A q \in Publishers : q # p => publisher'[q] = publisher[q]
           /\ overlap' \in [Shas -> SUBSET Publishers]
           /\ \A s \in Shas : \A q \in overlap[s] : q # p => q \in overlap'[s]
<1>1. MovePublisher(p, PublisherIdle) /\ overlap' = [s \in Shas |-> overlap[s] \ {p}]
  BY DEF EndPipeline
<1>2. /\ publisher' \in [Publishers -> PublisherState] /\ publisher'[p] = PublisherIdle
      /\ \A q \in Publishers : q # p => publisher'[q] = publisher[q]
  BY <1>1, IdleFacts, PublisherMoves
<1>3. QED
  BY <1>1, <1>2, IdleFacts DEF BlobTypes

\* Pushes and deletions of refs, until the pipeline sees them.
LEMMA RefsKeep ==
    ASSUME BlobInv, BlobTypes',
           UNCHANGED <<files, repaired, bucket, ledger, held, overlap, publisher, collector>>
    PROVE  BlobInv'
<1>1. RowsHeldOnce'
  BY DEF BlobInv, RowsHeldOnce, Holding
<1>2. QED
  BY <1>1 DEF BlobInv, IndexCovered, PublishedCovered, RemovalsUnrepaired, RepairedRefsServe

\* The steps of a ref's owner.
LEMMA RefStepKeeps ==
    ASSUME BlobInv, NEW r \in BlobRefs, PushTree(r) \/ DeleteRef(r) \/ DeleteRefIndex(r)
    PROVE  BlobInv'
<1>1. CASE PushTree(r)
  <2>1. PICK t \in (SUBSET Shas) \ {{}, tree[r]} :
            /\ tree' = [tree EXCEPT ![r] = t] /\ queued' = queued \cup {r}
            /\ UNCHANGED <<dropping, files, repaired, bucket, ledger, held, overlap, publisher,
                           collector>>
    BY <1>1 DEF PushTree
  <2>2. BlobTypes'
    BY <2>1 DEF BlobInv, BlobTypes
  <2>3. QED
    BY <2>1, <2>2, RefsKeep
<1>2. CASE DeleteRef(r)
  <2>1. /\ tree' = [tree EXCEPT ![r] = {}] /\ dropping' = dropping \cup {r}
        /\ UNCHANGED <<queued, files, repaired, bucket, ledger, held, overlap, publisher,
                       collector>>
    BY <1>2 DEF DeleteRef
  <2>2. BlobTypes'
    BY <2>1 DEF BlobInv, BlobTypes
  <2>3. QED
    BY <2>1, <2>2, RefsKeep
<1>3. CASE DeleteRefIndex(r)
  <2>1. /\ dropping' = dropping \ {r} /\ files' = [files EXCEPT ![r] = {}]
        /\ UNCHANGED <<tree, queued, repaired, bucket, ledger, held, overlap, publisher,
                       collector>>
    BY <1>3 DEF DeleteRefIndex
  <2>2. BlobTypes'
    BY <2>1 DEF BlobInv, BlobTypes
  <2>3. /\ files'[r] = {} /\ \A q \in BlobRefs : q # r => files'[q] = files[q]
        /\ repaired \subseteq BlobRefs
    BY <2>1 DEF BlobInv, BlobTypes
  <2>4. RowsHeldOnce' /\ PublishedCovered'
    BY <2>1 DEF BlobInv, RowsHeldOnce, Holding, PublishedCovered
  <2>5. IndexCovered' /\ RemovalsUnrepaired' /\ RepairedRefsServe'
    BY <2>1, <2>3 DEF BlobInv, IndexCovered, RemovalsUnrepaired, RepairedRefsServe
  <2>6. QED
    BY <2>2, <2>4, <2>5 DEF BlobInv
<1>4. QED
  BY <1>1, <1>2, <1>3

\* A step that only adds objects, or moves a worker by publishing one.
LEMMA PublicationKeeps ==
    ASSUME BlobInv, BlobTypes', bucket \subseteq bucket',
           UNCHANGED <<files, repaired, ledger, held, overlap, collector>>,
           \A p \in Publishers : publisher'[p].pc = "publish" =>
               /\ publisher[p].pc = "publish"
               /\ publisher'[p].tree \ publisher'[p].todo
                      \subseteq (publisher[p].tree \ publisher[p].todo) \cup bucket'
    PROVE  BlobInv'
<1>1. RowsHeldOnce'
  BY DEF BlobInv, RowsHeldOnce, Holding
<1>2. PublishedCovered'
  BY DEF BlobInv, PublishedCovered
<1>3. IndexCovered' /\ RemovalsUnrepaired' /\ RepairedRefsServe'
  BY DEF BlobInv, IndexCovered, RemovalsUnrepaired, RepairedRefsServe
<1>4. QED
  BY <1>1, <1>2, <1>3 DEF BlobInv

\* A pipeline starts from what the ref's index covers.
LEMMA ReadKeeps ==
    ASSUME BlobInv, NEW p \in Publishers, NEW r \in BlobRefs, ReadBlobTree(p, r)
    PROVE  BlobInv'
<1>1. CASE tree[r] = {}
  <2>1. /\ queued' = queued \ {r}
        /\ UNCHANGED <<tree, dropping, files, repaired, bucket, ledger, held, overlap, publisher,
                       collector>>
    BY <1>1 DEF ReadBlobTree
  <2>2. BlobTypes'
    BY <2>1 DEF BlobInv, BlobTypes
  <2>3. QED
    BY <2>1, <2>2, RefsKeep
<1>2. CASE tree[r] # {}
  <2> DEFINE to == [pc |-> "publish", ref |-> r, tree |-> tree[r], todo |-> tree[r] \ files[r]]
  <2>1. /\ MovePublisher(p, to)
        /\ overlap' = [s \in Shas |->
               IF s \in files[r] /\ ledger[s] # "none" THEN overlap[s] \cup {p} ELSE overlap[s]]
        /\ UNCHANGED <<tree, queued, dropping, files, repaired, bucket, ledger, held, collector>>
    BY <1>2 DEF ReadBlobTree
  <2>2. to \in PublisherState /\ tree[r] \subseteq Shas
    BY DEF BlobInv, BlobTypes, PublisherState
  <2>3. /\ publisher' \in [Publishers -> PublisherState] /\ publisher'[p] = to
        /\ \A q \in Publishers : q # p => publisher'[q] = publisher[q]
    <3> HIDE DEF to
    <3>1. QED
      BY <2>1, <2>2, PublisherMoves DEF BlobInv
  <2>4. /\ overlap' \in [Shas -> SUBSET Publishers]
        /\ \A s \in Shas : overlap[s] \subseteq overlap'[s]
        /\ \A s \in files[r] \cap Shas : ledger[s] # "none" => p \in overlap'[s]
    BY <2>1 DEF BlobInv, BlobTypes
  <2>5. BlobTypes'
    BY <2>1, <2>3, <2>4 DEF BlobInv, BlobTypes
  <2>6. PublishedCovered'
    <3> SUFFICES ASSUME NEW q \in Publishers, publisher'[q].pc = "publish",
                        NEW s \in publisher'[q].tree \ publisher'[q].todo
                 PROVE  s \in bucket' \/ (ledger'[s] = "recent" /\ q \in overlap'[s])
      BY DEF PublishedCovered
    <3>1. s \in Shas
      BY <2>3 DEF PublisherState
    <3>2. CASE q = p
      <4>1. s \in files[r]
        BY <2>3, <3>2
      <4>2. s \in bucket \/ ledger[s] = "recent"
        BY <4>1 DEF BlobInv, IndexCovered
      <4>3. QED
        BY <2>1, <2>4, <3>1, <3>2, <4>1, <4>2
    <3>3. CASE q # p
      BY <2>1, <2>3, <2>4, <3>1, <3>3 DEF BlobInv, PublishedCovered
    <3>4. QED
      BY <3>2, <3>3
  <2>7. RowsHeldOnce'
    BY <2>1 DEF BlobInv, RowsHeldOnce, Holding
  <2>8. IndexCovered' /\ RemovalsUnrepaired' /\ RepairedRefsServe'
    BY <2>1 DEF BlobInv, IndexCovered, RemovalsUnrepaired, RepairedRefsServe
  <2>9. QED
    BY <2>5, <2>6, <2>7, <2>8 DEF BlobInv
<1>3. QED
  BY <1>1, <1>2

\* The index is swapped: what it names is there, or its loss is on record.
LEMMA ReplaceKeeps ==
    ASSUME BlobInv, NEW p \in Publishers, ReplaceRepoFiles(p)
    PROVE  BlobInv'
<1> DEFINE r == publisher[p].ref
           t == publisher[p].tree
           to == [publisher[p] EXCEPT !.pc = "repair"]
<1>1. /\ publisher[p].pc = "publish" /\ publisher[p].todo = {}
      /\ files' = [files EXCEPT ![r] = t] /\ repaired' = repaired \ {r}
      /\ MovePublisher(p, to)
      /\ UNCHANGED <<tree, dropping, queued, bucket, ledger, held, overlap, collector>>
  BY DEF ReplaceRepoFiles
<1>2. /\ r \in BlobRefs /\ t \subseteq Shas /\ to \in PublisherState /\ to.pc = "repair"
      /\ to.ref = r
  BY <1>1 DEF BlobInv, BlobTypes, PublisherState
<1>3. /\ publisher' \in [Publishers -> PublisherState] /\ publisher'[p] = to
      /\ \A q \in Publishers : q # p => publisher'[q] = publisher[q]
  <2> HIDE DEF to
  <2>1. QED
    BY <1>1, <1>2, PublisherMoves DEF BlobInv
<1>4. /\ files' \in [BlobRefs -> SUBSET Shas] /\ files'[r] = t
      /\ \A q \in BlobRefs : q # r => files'[q] = files[q]
  BY <1>1, <1>2 DEF BlobInv, BlobTypes
<1>5. \A s \in t : s \in bucket \/ ledger[s] = "recent"
  BY <1>1 DEF BlobInv, PublishedCovered
<1> HIDE DEF to, r, t
<1>6. BlobTypes'
  BY <1>1, <1>2, <1>3, <1>4 DEF BlobInv, BlobTypes
<1>7. RowsHeldOnce'
  BY <1>1 DEF BlobInv, RowsHeldOnce, Holding
<1>8. IndexCovered'
  BY <1>1, <1>4, <1>5 DEF BlobInv, IndexCovered
<1>9. PublishedCovered'
  BY <1>1, <1>2, <1>3 DEF BlobInv, PublishedCovered
<1>10. \A q \in repaired' : q \in repaired /\ files'[q] = files[q]
  BY <1>1, <1>4 DEF BlobInv, BlobTypes
<1>11. RemovalsUnrepaired' /\ RepairedRefsServe'
  BY <1>1, <1>10 DEF BlobInv, RemovalsUnrepaired, RepairedRefsServe
<1>12. QED
  BY <1>6, <1>7, <1>8, <1>9, <1>11 DEF BlobInv

\* The repair gives back what the ledger says was taken, and nobody is taking it.
LEMMA RepairKeeps ==
    ASSUME BlobInv, NEW p \in Publishers, RepairDeletedBlobs(p)
    PROVE  BlobInv'
<1> DEFINE r == publisher[p].ref
           lost == {s \in files[r] : ledger[s] # "none"}
<1>1. /\ publisher[p].pc = "repair" /\ lost \cap held = {}
      /\ bucket' = bucket \cup lost
      /\ ledger' = [s \in Shas |-> IF s \in lost THEN "none" ELSE ledger[s]]
      /\ repaired' = repaired \cup {r}
      /\ queued' = IF tree[r] = publisher[p].tree THEN queued \ {r} ELSE queued
      /\ EndPipeline(p)
      /\ UNCHANGED <<tree, dropping, files, held, collector>>
  BY DEF RepairDeletedBlobs
<1>2. r \in BlobRefs /\ lost \subseteq Shas /\ files[r] \subseteq Shas
  BY <1>1 DEF BlobInv, BlobTypes
<1>3. /\ publisher' \in [Publishers -> PublisherState] /\ publisher'[p].pc = "idle"
      /\ \A q \in Publishers : q # p => publisher'[q] = publisher[q]
      /\ overlap' \in [Shas -> SUBSET Publishers]
      /\ \A s \in Shas : \A q \in overlap[s] : q # p => q \in overlap'[s]
  BY <1>1, PipelineEnds DEF BlobInv
<1>4. /\ ledger' \in [Shas -> {"none", "recent", "old"}]
      /\ \A s \in Shas : s \notin lost => ledger'[s] = ledger[s]
      /\ \A s \in Shas : ledger'[s] \in {"none", ledger[s]}
  BY <1>1, <1>2 DEF BlobInv, BlobTypes
<1>5. \A s \in files[r] : s \in bucket'
  BY <1>1, <1>2 DEF BlobInv, IndexCovered
<1>6. \A c \in Holding : collector[c].sha \in Shas /\ collector[c].sha \notin lost
  BY <1>1 DEF BlobInv, BlobTypes, RowsHeldOnce, Holding
<1>7. \A c \in Collectors : collector[c].pc = "remove" =>
          c \in Holding /\ collector[c].sha \notin files[r]
  <2> SUFFICES ASSUME NEW c \in Collectors, collector[c].pc = "remove", collector[c].sha \in files[r]
               PROVE  FALSE
    BY DEF Holding
  <2>1. c \in Holding /\ ledger[collector[c].sha] = "recent"
    BY DEF Holding, BlobInv, RowsHeldOnce
  <2>2. QED
    BY <1>6, <2>1
<1>8. \A q \in BlobRefs : files[q] \subseteq Shas
  BY DEF BlobInv, BlobTypes
<1> HIDE DEF lost, r
<1>9. BlobTypes'
  BY <1>1, <1>2, <1>3, <1>4 DEF BlobInv, BlobTypes
<1>10. RowsHeldOnce'
  <2>1. Holding' = Holding
    BY <1>1 DEF Holding
  <2>2. \A c \in Holding : ledger'[collector[c].sha] = "recent"
    BY <1>4, <1>6 DEF BlobInv, RowsHeldOnce
  <2>3. \A c \in Collectors : collector[c].pc = "claim" => ledger'[collector[c].sha] # "old"
    BY <1>4 DEF BlobInv, BlobTypes, RowsHeldOnce
  <2>4. QED
    BY <1>1, <2>1, <2>2, <2>3 DEF BlobInv, RowsHeldOnce
<1>11. IndexCovered'
  <2> SUFFICES ASSUME NEW q \in BlobRefs, NEW s \in files[q]
               PROVE  s \in bucket' \/ ledger'[s] = "recent"
    BY <1>1 DEF IndexCovered
  <2>1. s \in Shas /\ (s \in bucket \/ ledger[s] = "recent")
    BY <1>8 DEF BlobInv, IndexCovered
  <2>2. QED
    BY <1>1, <1>4, <2>1
<1>12. PublishedCovered'
  <2> SUFFICES ASSUME NEW q \in Publishers, publisher'[q].pc = "publish",
                      NEW s \in publisher'[q].tree \ publisher'[q].todo
               PROVE  s \in bucket' \/ (ledger'[s] = "recent" /\ q \in overlap'[s])
    BY DEF PublishedCovered
  <2>1. q # p /\ publisher'[q] = publisher[q] /\ s \in Shas
    BY <1>3 DEF PublisherState
  <2>2. s \in bucket \/ (ledger[s] = "recent" /\ q \in overlap[s])
    BY <2>1 DEF BlobInv, PublishedCovered
  <2>3. QED
    BY <1>1, <1>3, <1>4, <2>1, <2>2
<1>13. RemovalsUnrepaired'
  BY <1>1, <1>7 DEF BlobInv, RemovalsUnrepaired
<1>14. RepairedRefsServe'
  BY <1>1, <1>5 DEF BlobInv, RepairedRefsServe
<1>15. QED
  BY <1>9, <1>10, <1>11, <1>12, <1>13, <1>14 DEF BlobInv

\* The steps of a worker, its failure included.
LEMMA PipelineKeeps ==
    ASSUME BlobInv, NEW p \in Publishers, Pipeline(p) \/ PipelineFails(p)
    PROVE  BlobInv'
<1>1. ASSUME NEW r \in BlobRefs, ReadBlobTree(p, r)
      PROVE  BlobInv'
  BY <1>1, ReadKeeps
<1>2. CASE PublishBlob(p)
  <2>1. PICK s \in publisher[p].todo :
            /\ publisher[p].pc = "publish" /\ bucket' = bucket \cup {s}
            /\ MovePublisher(p, [publisher[p] EXCEPT !.todo = @ \ {s}])
            /\ UNCHANGED <<tree, dropping, queued, files, repaired, ledger, held, overlap,
                           collector>>
    BY <1>2 DEF PublishBlob
  <2> DEFINE to == [publisher[p] EXCEPT !.todo = @ \ {s}]
  <2>2. /\ to \in PublisherState /\ to.ref = publisher[p].ref /\ to.tree = publisher[p].tree
        /\ to.todo = publisher[p].todo \ {s} /\ s \in Shas
    BY DEF BlobInv, BlobTypes, PublisherState
  <2>3. MovePublisher(p, to)
    BY <2>1
  <2> HIDE DEF to
  <2>4. /\ publisher' \in [Publishers -> PublisherState] /\ publisher'[p] = to
        /\ \A q \in Publishers : q # p => publisher'[q] = publisher[q]
    BY <2>2, <2>3, PublisherMoves DEF BlobInv
  <2>5. BlobTypes'
    BY <2>1, <2>2, <2>4 DEF BlobInv, BlobTypes
  <2>6. QED
    BY <2>1, <2>2, <2>4, <2>5, PublicationKeeps
<1>3. CASE ReplaceRepoFiles(p)
  BY <1>3, ReplaceKeeps
<1>4. CASE RepairDeletedBlobs(p)
  BY <1>4, RepairKeeps
<1>5. CASE PipelineFails(p)
  <2>1. /\ EndPipeline(p)
        /\ UNCHANGED <<tree, dropping, queued, files, repaired, bucket, ledger, held, collector>>
    BY <1>5 DEF PipelineFails
  <2>2. /\ publisher' \in [Publishers -> PublisherState] /\ publisher'[p].pc = "idle"
        /\ \A q \in Publishers : q # p => publisher'[q] = publisher[q]
        /\ overlap' \in [Shas -> SUBSET Publishers]
        /\ \A s \in Shas : \A q \in overlap[s] : q # p => q \in overlap'[s]
    BY <2>1, PipelineEnds DEF BlobInv
  <2>3. BlobTypes'
    BY <2>1, <2>2 DEF BlobInv, BlobTypes
  <2>4. PublishedCovered'
    <3> SUFFICES ASSUME NEW q \in Publishers, publisher'[q].pc = "publish",
                        NEW s \in publisher'[q].tree \ publisher'[q].todo
                 PROVE  s \in bucket' \/ (ledger'[s] = "recent" /\ q \in overlap'[s])
      BY DEF PublishedCovered
    <3>1. q # p /\ publisher'[q] = publisher[q] /\ s \in Shas
      BY <2>2 DEF PublisherState
    <3>2. s \in bucket \/ (ledger[s] = "recent" /\ q \in overlap[s])
      BY <3>1 DEF BlobInv, PublishedCovered
    <3>3. QED
      BY <2>1, <2>2, <3>1, <3>2
  <2>5. RowsHeldOnce'
    BY <2>1 DEF BlobInv, RowsHeldOnce, Holding
  <2>6. IndexCovered' /\ RemovalsUnrepaired' /\ RepairedRefsServe'
    BY <2>1 DEF BlobInv, IndexCovered, RemovalsUnrepaired, RepairedRefsServe
  <2>7. QED
    BY <2>3, <2>4, <2>5, <2>6 DEF BlobInv
<1>6. QED
  BY <1>1, <1>2, <1>3, <1>4, <1>5 DEF Pipeline
\* A step that leaves the ledger's rows alone: one collection moves, without a
\* row to hold or to claim.
LEMMA CollectorMovesKeeps ==
    ASSUME BlobInv, NEW c \in Collectors, NEW to \in CollectorState, MoveCollector(c, to),
           to.pc \notin {"claim", "remove", "commit"}, c \notin Holding,
           UNCHANGED <<tree, dropping, queued, files, repaired, bucket, ledger, held, overlap,
                       publisher>>
    PROVE  BlobInv'
<1>1. /\ collector' \in [Collectors -> CollectorState] /\ collector'[c] = to
      /\ \A d \in Collectors : d # c => collector'[d] = collector[d]
  BY CollectorMoves DEF BlobInv
<1>2. Holding' = Holding /\ \A d \in Holding : d # c
  BY <1>1 DEF Holding
<1>3. BlobTypes'
  BY <1>1 DEF BlobInv, BlobTypes
<1>4. RowsHeldOnce'
  <2>1. held' = {collector'[d].sha : d \in Holding'}
    BY <1>1, <1>2 DEF BlobInv, RowsHeldOnce, Holding
  <2>2. QED
    BY <1>1, <1>2, <2>1 DEF BlobInv, RowsHeldOnce, Holding
<1>5. RemovalsUnrepaired'
  BY <1>1 DEF BlobInv, RemovalsUnrepaired
<1>6. QED
  BY <1>3, <1>4, <1>5 DEF BlobInv, IndexCovered, PublishedCovered, RepairedRefsServe

\* A collection that held a row gives it back; its row, if it had one, stays.
LEMMA ReleaseKeeps ==
    ASSUME BlobInv, NEW c \in Collectors, NEW to \in CollectorState, MoveCollector(c, to),
           to.pc \notin {"claim", "remove", "commit"},
           held' = IF c \in Holding THEN held \ {collector[c].sha} ELSE held,
           UNCHANGED <<tree, dropping, queued, files, repaired, bucket, ledger, overlap, publisher>>
    PROVE  BlobInv'
<1>1. /\ collector' \in [Collectors -> CollectorState] /\ collector'[c] = to
      /\ \A d \in Collectors : d # c => collector'[d] = collector[d]
  BY CollectorMoves DEF BlobInv
<1>2. Holding' = Holding \ {c}
  BY <1>1 DEF Holding
<1>3. BlobTypes'
  BY <1>1 DEF BlobInv, BlobTypes
<1>4. held' = {collector'[d].sha : d \in Holding'}
  <2>1. \A d \in Holding' : d \in Holding /\ d # c /\ collector'[d] = collector[d]
    BY <1>1, <1>2 DEF Holding
  <2>2. held = {collector[d].sha : d \in Holding}
    BY DEF BlobInv, RowsHeldOnce
  <2>3. \A d \in Holding, e \in Holding : collector[d].sha = collector[e].sha => d = e
    BY DEF BlobInv, RowsHeldOnce
  <2>4. held' \subseteq {collector'[d].sha : d \in Holding'}
    BY <1>2, <2>1, <2>2
  <2>5. {collector'[d].sha : d \in Holding'} \subseteq held'
    BY <2>1, <2>2, <2>3
  <2>6. QED
    BY <2>4, <2>5
<1>5. RowsHeldOnce'
  BY <1>1, <1>2, <1>4 DEF BlobInv, RowsHeldOnce, Holding
<1>6. RemovalsUnrepaired'
  BY <1>1 DEF BlobInv, RemovalsUnrepaired
<1>7. QED
  BY <1>3, <1>5, <1>6 DEF BlobInv, IndexCovered, PublishedCovered, RepairedRefsServe

\* The intent to delete is stamped afresh; every worker under way is younger.
LEMMA RecordDeletionKeeps ==
    ASSUME BlobInv, NEW c \in Collectors, RecordBlobDeletion(c)
    PROVE  BlobInv'
<1>1. PICK s \in collector[c].todo :
          /\ collector[c].pc = "next" /\ s \notin held
          /\ ledger' = [ledger EXCEPT ![s] = "recent"]
          /\ overlap' = [overlap EXCEPT ![s] = Busy]
          /\ MoveCollector(c, [pc |-> "claim", todo |-> collector[c].todo \ {s}, sha |-> s])
          /\ UNCHANGED <<tree, dropping, queued, files, repaired, bucket, held, publisher>>
  BY DEF RecordBlobDeletion
<1> DEFINE to == [pc |-> "claim", todo |-> collector[c].todo \ {s}, sha |-> s]
<1>2. s \in Shas /\ to \in CollectorState /\ to.pc = "claim" /\ to.sha = s
  BY DEF BlobInv, BlobTypes, CollectorState
<1>3. MoveCollector(c, to)
  BY <1>1
<1> HIDE DEF to
<1>4. /\ collector' \in [Collectors -> CollectorState] /\ collector'[c] = to
      /\ \A d \in Collectors : d # c => collector'[d] = collector[d]
  BY <1>2, <1>3, CollectorMoves DEF BlobInv
<1>5. /\ ledger' \in [Shas -> {"none", "recent", "old"}] /\ ledger'[s] = "recent"
      /\ \A x \in Shas : x # s => ledger'[x] = ledger[x]
      /\ \A x \in Shas : ledger'[x] \in {"recent", ledger[x]}
  BY <1>1, <1>2 DEF BlobInv, BlobTypes
<1>6. /\ overlap' \in [Shas -> SUBSET Publishers] /\ overlap'[s] = Busy
      /\ \A x \in Shas : x # s => overlap'[x] = overlap[x]
  BY <1>1, <1>2 DEF BlobInv, BlobTypes, Busy
<1>7. Holding' = Holding /\ \A d \in Holding : d # c /\ collector'[d] = collector[d]
  BY <1>1, <1>2, <1>4 DEF Holding
<1>8. BlobTypes'
  BY <1>1, <1>2, <1>4, <1>5, <1>6 DEF BlobInv, BlobTypes
<1>9. RowsHeldOnce'
  <2>1. held' = {collector'[d].sha : d \in Holding'}
    BY <1>1, <1>7 DEF BlobInv, RowsHeldOnce
  <2>2. \A d \in Holding' : ledger'[collector'[d].sha] = "recent"
    BY <1>5, <1>7 DEF BlobInv, BlobTypes, RowsHeldOnce, Holding
  <2>3. \A d \in Collectors : collector'[d].pc = "claim" => ledger'[collector'[d].sha] # "old"
    BY <1>2, <1>4, <1>5 DEF BlobInv, BlobTypes, RowsHeldOnce
  <2>4. QED
    BY <1>7, <2>1, <2>2, <2>3 DEF BlobInv, RowsHeldOnce
<1>10. IndexCovered'
  <2>1. \A r \in BlobRefs : files[r] \subseteq Shas
    BY DEF BlobInv, BlobTypes
  <2>2. QED
    BY <1>1, <1>5, <2>1 DEF BlobInv, IndexCovered
<1>11. PublishedCovered'
  <2> SUFFICES ASSUME NEW q \in Publishers, publisher[q].pc = "publish",
                      NEW x \in publisher[q].tree \ publisher[q].todo
               PROVE  x \in bucket \/ (ledger'[x] = "recent" /\ q \in overlap'[x])
    BY <1>1 DEF PublishedCovered
  <2>1. x \in Shas /\ q \in Busy
    BY DEF BlobInv, BlobTypes, PublisherState, Busy
  <2>2. x \in bucket \/ (ledger[x] = "recent" /\ q \in overlap[x])
    BY DEF BlobInv, PublishedCovered
  <2>3. QED
    BY <1>5, <1>6, <2>1, <2>2
<1>12. RemovalsUnrepaired' /\ RepairedRefsServe'
  BY <1>1, <1>2, <1>4 DEF BlobInv, RemovalsUnrepaired, RepairedRefsServe
<1>13. QED
  BY <1>8, <1>9, <1>10, <1>11, <1>12 DEF BlobInv

\* The claim is for a row that is there and a blob nothing references.
LEMMA ClaimKeepsBlobs ==
    ASSUME BlobInv, NEW c \in Collectors, ClaimBlobDeletion(c)
    PROVE  BlobInv'
<1> DEFINE s == collector[c].sha
<1>1. /\ collector[c].pc = "claim" /\ s \notin held /\ s \in Shas
      /\ collector[c] \in CollectorState
      /\ UNCHANGED <<tree, dropping, queued, files, repaired, bucket, ledger, overlap, publisher>>
  BY DEF BlobInv, BlobTypes, ClaimBlobDeletion
<1>2. CASE ledger[s] = "none" \/ s \in Referenced
  <2> DEFINE to == [collector[c] EXCEPT !.pc = "next", !.sha = "none"]
  <2>1. to \in CollectorState /\ to.pc = "next"
    BY <1>1 DEF CollectorState
  <2>2. MoveCollector(c, to) /\ held' = held
    BY <1>2 DEF ClaimBlobDeletion
  <2>3. c \notin Holding
    BY <1>1 DEF Holding
  <2> HIDE DEF to
  <2>4. QED
    BY <1>1, <2>1, <2>2, <2>3, CollectorMovesKeeps
<1>3. CASE ~(ledger[s] = "none" \/ s \in Referenced)
  <2> DEFINE to == [collector[c] EXCEPT !.pc = "remove"]
  <2>1. to \in CollectorState /\ to.pc = "remove" /\ to.sha = s
    BY <1>1 DEF CollectorState
  <2>2. MoveCollector(c, to) /\ held' = held \cup {s}
    BY <1>3 DEF ClaimBlobDeletion
  <2>3. ledger[s] = "recent" /\ \A r \in BlobRefs : s \notin files[r]
    BY <1>1, <1>3 DEF BlobInv, BlobTypes, RowsHeldOnce, Referenced
  <2> HIDE DEF to, s
  <2>4. /\ collector' \in [Collectors -> CollectorState] /\ collector'[c] = to
        /\ \A d \in Collectors : d # c => collector'[d] = collector[d]
    BY <2>1, <2>2, CollectorMoves DEF BlobInv
  <2>5. Holding' = Holding \cup {c} /\ c \notin Holding
    BY <1>1, <2>1, <2>4 DEF Holding
  <2>6. BlobTypes'
    BY <1>1, <2>1, <2>4 DEF BlobInv, BlobTypes
  <2>7. \A d \in Holding : collector'[d] = collector[d] /\ collector[d].sha \in held
    BY <2>4, <2>5 DEF BlobInv, RowsHeldOnce, Holding
  <2>8. held' = {collector'[d].sha : d \in Holding'}
    BY <2>1, <2>2, <2>4, <2>5, <2>7 DEF BlobInv, RowsHeldOnce
  <2>9. \A d, e \in Holding' : collector'[d].sha = collector'[e].sha => d = e
    BY <1>1, <2>1, <2>4, <2>5, <2>7 DEF BlobInv, RowsHeldOnce
  <2>10. \A d \in Holding' : ledger'[collector'[d].sha] = "recent"
    BY <1>1, <2>1, <2>3, <2>4, <2>5, <2>7 DEF BlobInv, RowsHeldOnce
  <2>11. \A d \in Collectors : collector'[d].pc = "claim" => ledger'[collector'[d].sha] # "old"
    BY <1>1, <2>1, <2>4 DEF BlobInv, RowsHeldOnce
  <2>12. RowsHeldOnce'
    BY <2>8, <2>9, <2>10, <2>11 DEF RowsHeldOnce
  <2>13. RemovalsUnrepaired'
    BY <1>1, <2>1, <2>3, <2>4 DEF BlobInv, BlobTypes, RemovalsUnrepaired
  <2>14. QED
    BY <1>1, <2>6, <2>12, <2>13 DEF BlobInv, IndexCovered, PublishedCovered, RepairedRefsServe
<1>4. QED
  BY <1>2, <1>3

\* The object goes: no index whose repair is over names it, and every other that
\* does finds the row.
LEMMA RemoveKeeps ==
    ASSUME BlobInv, NEW c \in Collectors, RemoveBlob(c)
    PROVE  BlobInv'
<1> DEFINE s == collector[c].sha
           to == [collector[c] EXCEPT !.pc = "commit"]
<1>1. /\ collector[c].pc = "remove" /\ bucket' = bucket \ {s}
      /\ overlap' = [overlap EXCEPT ![s] = Busy] /\ MoveCollector(c, to)
      /\ UNCHANGED <<tree, dropping, queued, files, repaired, ledger, held, publisher>>
  BY DEF RemoveBlob
<1>2. s \in Shas /\ to \in CollectorState /\ to.pc = "commit" /\ to.sha = s
  BY <1>1 DEF BlobInv, BlobTypes, CollectorState
<1>3. ledger[s] = "recent" /\ \A r \in repaired : s \notin files[r]
  BY <1>1 DEF BlobInv, RowsHeldOnce, Holding, RemovalsUnrepaired
<1> HIDE DEF to, s
<1>4. /\ collector' \in [Collectors -> CollectorState] /\ collector'[c] = to
      /\ \A d \in Collectors : d # c => collector'[d] = collector[d]
  BY <1>1, <1>2, CollectorMoves DEF BlobInv
<1>5. \A d \in Collectors : collector'[d].sha = collector[d].sha
  BY <1>2, <1>4 DEF s
<1>6. Holding' = Holding
  BY <1>1, <1>2, <1>4 DEF Holding
<1>7. /\ overlap' \in [Shas -> SUBSET Publishers] /\ overlap'[s] = Busy
      /\ \A x \in Shas : x # s => overlap'[x] = overlap[x]
  BY <1>1, <1>2 DEF BlobInv, BlobTypes, Busy
<1>8. BlobTypes'
  BY <1>1, <1>2, <1>4, <1>7 DEF BlobInv, BlobTypes
<1>9. RowsHeldOnce'
  <2>1. \A d \in Holding : d \in Collectors
    BY DEF Holding
  <2>2. held' = {collector'[d].sha : d \in Holding'}
    BY <1>1, <1>5, <1>6, <2>1 DEF BlobInv, RowsHeldOnce
  <2>3. \A d \in Collectors : collector'[d].pc = "claim" => collector[d].pc = "claim"
    BY <1>2, <1>4
  <2>4. QED
    BY <1>1, <1>5, <1>6, <2>1, <2>2, <2>3 DEF BlobInv, RowsHeldOnce
<1>10. IndexCovered'
  BY <1>1, <1>3 DEF BlobInv, IndexCovered
<1>11. PublishedCovered'
  <2> SUFFICES ASSUME NEW q \in Publishers, publisher[q].pc = "publish",
                      NEW x \in publisher[q].tree \ publisher[q].todo
               PROVE  x \in bucket' \/ (ledger[x] = "recent" /\ q \in overlap'[x])
    BY <1>1 DEF PublishedCovered
  <2>1. x \in Shas /\ q \in Busy
    BY DEF BlobInv, BlobTypes, PublisherState, Busy
  <2>2. x \in bucket \/ (ledger[x] = "recent" /\ q \in overlap[x])
    BY DEF BlobInv, PublishedCovered
  <2>3. QED
    BY <1>1, <1>3, <1>7, <2>1, <2>2
<1>12. RemovalsUnrepaired'
  BY <1>1, <1>2, <1>4 DEF BlobInv, RemovalsUnrepaired
<1>13. RepairedRefsServe'
  BY <1>1, <1>3 DEF BlobInv, RepairedRefsServe
<1>14. QED
  BY <1>8, <1>9, <1>10, <1>11, <1>12, <1>13 DEF BlobInv
\* Rows age or are forgotten only when no index needs them and no worker counts
\* on them.
LEMMA RowsFade ==
    ASSUME BlobInv, NEW to \in [Shas -> {"none", "recent", "old"}],
           \A s \in Shas : to[s] # ledger[s] =>
               /\ s \notin held
               /\ to[s] = "old" =>
                      \A c \in Collectors : collector[c].pc = "claim" => collector[c].sha # s
               /\ \A r \in BlobRefs : s \in files[r] => s \in bucket
               /\ ledger[s] # "recent" \/ overlap[s] = {}
    PROVE  /\ \A c \in Holding : to[collector[c].sha] = "recent"
           /\ \A c \in Collectors : collector[c].pc = "claim" => to[collector[c].sha] # "old"
           /\ \A r \in BlobRefs : \A s \in files[r] : s \in bucket \/ to[s] = "recent"
           /\ \A p \in Publishers : publisher[p].pc = "publish" =>
                  \A s \in publisher[p].tree \ publisher[p].todo :
                      s \in bucket \/ (to[s] = "recent" /\ p \in overlap[s])
<1>1. \A c \in Holding : to[collector[c].sha] = "recent"
  BY DEF BlobInv, BlobTypes, RowsHeldOnce, Holding
<1>2. \A c \in Collectors : collector[c].pc = "claim" => to[collector[c].sha] # "old"
  BY DEF BlobInv, BlobTypes, RowsHeldOnce
<1>3. \A r \in BlobRefs : files[r] \subseteq Shas
  BY DEF BlobInv, BlobTypes
<1>4. \A r \in BlobRefs : \A s \in files[r] : s \in bucket \/ to[s] = "recent"
  BY <1>3 DEF BlobInv, IndexCovered
<1>5. ASSUME NEW p \in Publishers, publisher[p].pc = "publish",
             NEW s \in publisher[p].tree \ publisher[p].todo
      PROVE  s \in bucket \/ (to[s] = "recent" /\ p \in overlap[s])
  <2>1. s \in Shas
    BY DEF BlobInv, BlobTypes, PublisherState
  <2>2. s \in bucket \/ (ledger[s] = "recent" /\ p \in overlap[s])
    BY <1>5 DEF BlobInv, PublishedCovered
  <2>3. QED
    BY <2>1, <2>2
<1>6. QED
  BY <1>1, <1>2, <1>4, <1>5

\* Forgetting old rows nothing references.
LEMMA PruneKeeps ==
    ASSUME BlobInv, NEW c \in Collectors, PruneBlobDeletions(c)
    PROVE  BlobInv'
<1>1. /\ ledger' = [s \in Shas |-> IF Prunable(s) THEN "none" ELSE ledger[s]]
      /\ MoveCollector(c, CollectorIdle) /\ collector[c].pc = "next"
      /\ UNCHANGED <<tree, dropping, queued, files, repaired, bucket, held, overlap, publisher>>
  BY DEF PruneBlobDeletions
<1>2. ledger' \in [Shas -> {"none", "recent", "old"}]
  BY <1>1 DEF BlobInv, BlobTypes
<1>3. \A s \in Shas : ledger'[s] # ledger[s] =>
          /\ s \notin held /\ ledger'[s] # "old" /\ ledger[s] # "recent"
          /\ \A r \in BlobRefs : s \notin files[r]
  BY <1>1 DEF Prunable, Referenced
<1>4. /\ \A d \in Holding : ledger'[collector[d].sha] = "recent"
      /\ \A d \in Collectors : collector[d].pc = "claim" => ledger'[collector[d].sha] # "old"
      /\ \A r \in BlobRefs : \A s \in files[r] : s \in bucket \/ ledger'[s] = "recent"
      /\ \A p \in Publishers : publisher[p].pc = "publish" =>
             \A s \in publisher[p].tree \ publisher[p].todo :
                 s \in bucket \/ (ledger'[s] = "recent" /\ p \in overlap[s])
  BY <1>2, <1>3, RowsFade
<1>5. /\ collector' \in [Collectors -> CollectorState] /\ collector'[c] = CollectorIdle
      /\ \A d \in Collectors : d # c => collector'[d] = collector[d]
  BY <1>1, IdleFacts, CollectorMoves DEF BlobInv
<1>6. Holding' = Holding /\ \A d \in Holding : collector'[d] = collector[d]
  BY <1>1, <1>5, IdleFacts DEF Holding
<1>7. BlobTypes'
  BY <1>1, <1>2, <1>5, IdleFacts DEF BlobInv, BlobTypes
<1>8. RowsHeldOnce'
  <2>1. held' = {collector'[d].sha : d \in Holding'}
    BY <1>1, <1>6 DEF BlobInv, RowsHeldOnce
  <2>2. \A d \in Collectors : collector'[d].pc = "claim" => collector'[d] = collector[d]
    BY <1>5, IdleFacts
  <2>3. QED
    BY <1>4, <1>6, <2>1, <2>2 DEF BlobInv, RowsHeldOnce
<1>9. IndexCovered' /\ PublishedCovered'
  BY <1>1, <1>4 DEF IndexCovered, PublishedCovered
<1>10. RemovalsUnrepaired' /\ RepairedRefsServe'
  BY <1>1, <1>5, IdleFacts DEF BlobInv, RemovalsUnrepaired, RepairedRefsServe
<1>11. QED
  BY <1>7, <1>8, <1>9, <1>10 DEF BlobInv

\* A day passes for a row: nothing that began before its stamp is under way.
LEMMA AgeKeeps ==
    ASSUME BlobInv, NEW x \in Shas, LedgerAges(x)
    PROVE  BlobInv'
<1>1. /\ ledger[x] = "recent" /\ overlap[x] = {}
      /\ \A r \in BlobRefs \ repaired : x \notin files[r]
      /\ \A c \in Collectors : collector[c].sha = x =>
             collector[c].pc \notin {"claim", "remove", "commit"}
      /\ ledger' = [ledger EXCEPT ![x] = "old"]
      /\ UNCHANGED <<tree, dropping, queued, files, repaired, bucket, held, overlap, publisher,
                     collector>>
  BY DEF LedgerAges
<1>2. /\ ledger' \in [Shas -> {"none", "recent", "old"}]
      /\ \A s \in Shas : s # x => ledger'[s] = ledger[s]
  BY <1>1 DEF BlobInv, BlobTypes
<1>3. x \notin held
  BY <1>1 DEF BlobInv, RowsHeldOnce, Holding
<1>4. \A r \in BlobRefs : x \in files[r] => x \in bucket
  BY <1>1 DEF BlobInv, RepairedRefsServe
<1>5. /\ \A d \in Holding : ledger'[collector[d].sha] = "recent"
      /\ \A d \in Collectors : collector[d].pc = "claim" => ledger'[collector[d].sha] # "old"
      /\ \A r \in BlobRefs : \A s \in files[r] : s \in bucket \/ ledger'[s] = "recent"
      /\ \A p \in Publishers : publisher[p].pc = "publish" =>
             \A s \in publisher[p].tree \ publisher[p].todo :
                 s \in bucket \/ (ledger'[s] = "recent" /\ p \in overlap[s])
  <2>1. \A s \in Shas : ledger'[s] # ledger[s] =>
          /\ s \notin held
          /\ ledger'[s] = "old" =>
                 \A c \in Collectors : collector[c].pc = "claim" => collector[c].sha # s
          /\ \A r \in BlobRefs : s \in files[r] => s \in bucket
          /\ ledger[s] # "recent" \/ overlap[s] = {}
    BY <1>1, <1>2, <1>3, <1>4
  <2>2. QED
    BY <1>2, <2>1, RowsFade
<1>6. BlobTypes'
  BY <1>1, <1>2 DEF BlobInv, BlobTypes
<1>7. RowsHeldOnce'
  BY <1>1, <1>5 DEF BlobInv, RowsHeldOnce, Holding
<1>8. IndexCovered' /\ PublishedCovered'
  BY <1>1, <1>5 DEF IndexCovered, PublishedCovered
<1>9. RemovalsUnrepaired' /\ RepairedRefsServe'
  BY <1>1 DEF BlobInv, RemovalsUnrepaired, RepairedRefsServe
<1>10. QED
  BY <1>6, <1>7, <1>8, <1>9 DEF BlobInv

\* The steps of a collection, its death included.
LEMMA CollectKeeps ==
    ASSUME BlobInv, NEW c \in Collectors, Collect(c) \/ CollectorDies(c)
    PROVE  BlobInv'
<1>0. collector[c] \in CollectorState /\ bucket \subseteq Shas
  BY DEF BlobInv, BlobTypes
<1>1. ASSUME NEW old \in SUBSET Shas, ListBlobs(c, old)
      PROVE  BlobInv'
  <2> DEFINE to == [collector[c] EXCEPT !.pc = "listed", !.todo = old]
  <2>1. to \in CollectorState /\ to.pc = "listed"
    BY <1>0 DEF CollectorState
  <2>2. /\ MoveCollector(c, to) /\ c \notin Holding
        /\ UNCHANGED <<tree, dropping, queued, files, repaired, bucket, ledger, held, overlap,
                       publisher>>
    BY <1>1 DEF ListBlobs, Holding
  <2> HIDE DEF to
  <2>3. QED
    BY <2>1, <2>2, CollectorMovesKeeps
<1>2. CASE OrphanedBlobs(c)
  <2> DEFINE to == [collector[c] EXCEPT !.pc = "next", !.todo = @ \ Referenced]
  <2>1. to \in CollectorState /\ to.pc = "next"
    BY <1>0 DEF CollectorState
  <2>2. /\ MoveCollector(c, to) /\ c \notin Holding
        /\ UNCHANGED <<tree, dropping, queued, files, repaired, bucket, ledger, held, overlap,
                       publisher>>
    BY <1>2 DEF OrphanedBlobs, Holding
  <2> HIDE DEF to
  <2>3. QED
    BY <2>1, <2>2, CollectorMovesKeeps
<1>3. CASE CommitBlobDeletion(c)
  <2> DEFINE to == [collector[c] EXCEPT !.pc = "next", !.sha = "none"]
  <2>1. to \in CollectorState /\ to.pc = "next"
    BY <1>0 DEF CollectorState
  <2>2. /\ MoveCollector(c, to) /\ c \in Holding /\ held' = held \ {collector[c].sha}
        /\ UNCHANGED <<tree, dropping, queued, files, repaired, bucket, ledger, overlap, publisher>>
    BY <1>3 DEF CommitBlobDeletion, Holding
  <2> HIDE DEF to
  <2>3. QED
    BY <2>1, <2>2, ReleaseKeeps
<1>4. CASE CollectorDies(c)
  <2>1. /\ MoveCollector(c, CollectorIdle)
        /\ held' = IF c \in Holding THEN held \ {collector[c].sha} ELSE held
        /\ UNCHANGED <<tree, dropping, queued, files, repaired, bucket, ledger, overlap, publisher>>
    BY <1>4 DEF CollectorDies, Holding
  <2>2. QED
    BY <2>1, IdleFacts, ReleaseKeeps
<1>5. QED
  BY <1>1, <1>2, <1>3, <1>4, RecordDeletionKeeps, ClaimKeepsBlobs, RemoveKeeps, PruneKeeps
  DEF Collect

\* Every step keeps the invariant.
LEMMA BlobStepKeeps ==
    ASSUME BlobInv, [BlobNext]_blobVars
    PROVE  BlobInv'
<1>1. ASSUME NEW s \in Shas, PublishAhead(s)
      PROVE  BlobInv'
  <2>1. /\ bucket' = bucket \cup {s}
        /\ UNCHANGED <<tree, dropping, queued, files, repaired, ledger, held, overlap, publisher,
                       collector>>
    BY <1>1 DEF PublishAhead
  <2>2. BlobTypes'
    BY <2>1 DEF BlobInv, BlobTypes
  <2>3. QED
    BY <2>1, <2>2, PublicationKeeps
<1>2. CASE UNCHANGED blobVars
  <2>1. BlobTypes'
    BY <1>2 DEF blobVars, BlobInv, BlobTypes
  <2>2. QED
    BY <1>2, <2>1, RefsKeep DEF blobVars
<1>3. QED
  BY <1>1, <1>2, RefStepKeeps, PipelineKeeps, CollectKeeps, AgeKeeps DEF BlobNext

\* Nothing is pushed yet.
LEMMA BlobInitHolds ==
    ASSUME BlobInit
    PROVE  BlobInv
<1>1. BlobTypes
  BY IdleFacts DEF BlobInit, BlobTypes
<1>2. Holding = {} /\ \A c \in Collectors : collector[c].pc = "idle"
  BY IdleFacts DEF BlobInit, Holding
<1>3. RowsHeldOnce
  BY <1>2 DEF BlobInit, RowsHeldOnce
<1>4. IndexCovered /\ RepairedRefsServe
  BY DEF BlobInit, IndexCovered, RepairedRefsServe
<1>5. PublishedCovered /\ RemovalsUnrepaired
  BY <1>2, IdleFacts DEF BlobInit, PublishedCovered, RemovalsUnrepaired
<1>6. QED
  BY <1>1, <1>3, <1>4, <1>5 DEF BlobInv

\* The invariant holds of every state.
THEOREM BlobInductive == BlobSpec => []BlobInv
<1>1. BlobInit => BlobInv
  BY BlobInitHolds
<1>2. BlobInv /\ [BlobNext]_blobVars => BlobInv'
  BY BlobStepKeeps
<1>3. QED
  BY <1>1, <1>2, PTL DEF BlobSpec

\* Blobs: the shapes of their state, and that a ledger row a collection holds is
\* there and is its own.
THEOREM BlobTypesHold == BlobSpec => []BlobTypeOK
<1>1. BlobInv => BlobTypeOK
  <2> SUFFICES ASSUME BlobInv
               PROVE  BlobTypeOK
    OBVIOUS
  <2>1. \A s \in held : ledger[s] # "none"
    BY DEF BlobInv, RowsHeldOnce
  <2>2. \A c \in Collectors :
            collector[c].pc \in {"remove", "commit"} => collector[c].sha \in held
    BY DEF BlobInv, RowsHeldOnce, Holding
  <2>3. QED
    BY <2>1, <2>2 DEF BlobInv, BlobTypes, BlobTypeOK
<1>2. QED
  BY <1>1, BlobInductive, PTL

\* store/gc.go: a blob the index names is in the bucket or its removal is in the
\* ledger, however many workers and collections overlap and whichever dies.
THEOREM BlobLossesRecorded == BlobSpec => []LossesRecorded
<1>1. BlobInv => LossesRecorded
  BY DEF BlobInv, IndexCovered, LossesRecorded, Referenced
<1>2. QED
  BY <1>1, BlobInductive, PTL

\* syncer: once a ref's repair pass is over its files can be served, and no
\* collection under way takes one of them.
THEOREM BlobRepairedRefsServe == BlobSpec => []RepairedRefsServe
<1>1. BlobInv => RepairedRefsServe
  BY DEF BlobInv
<1>2. QED
  BY <1>1, BlobInductive, PTL

(***************************************************************************)
(* Large objects: the inductive invariant.                                 *)
(***************************************************************************)

\* What a client's staging key holds.
StagedState == [body : {"none", "good", "forged"}, gen : Nat]

\* A request of the API.
UploadState ==
    [pc : {"idle", "dedup", "hash", "publish", "record", "clean", "commit", "stamp"},
     repo : LfsRepos \cup {"none"}, oid : Oids \cup {"none"}, gen : Nat]

\* The collection.
SweepState ==
    [pc : {"idle", "rows", "links", "next", "remove", "delete"},
     seen : SUBSET Oids, orphans : SUBSET Oids, untracked : SUBSET Oids,
     oid : Oids \cup {"none"}]

\* The types of the variables uploads, links and the collection turn on; a
\* request under way is for an object of a repository, and so is a claim.
LfsTypes ==
    /\ live \subseteq LfsRepos /\ quota \in LfsQuotas
    /\ staged \in [LfsRepos -> [Oids -> StagedState]]
    /\ lfs \in [Oids -> {"absent", "good", "forged"}]
    /\ torn \subseteq Oids /\ lfsRow \subseteq Oids
    /\ link \in [LfsRepos -> [Oids -> {"none", "uploaded", "committed"}]]
    /\ upload \in [Uploads -> UploadState]
    /\ \A u \in Uploads :
          upload[u].pc # "idle" => upload[u].repo \in LfsRepos /\ upload[u].oid \in Oids
    /\ sweep \in SweepState
    /\ sweep.pc \in {"remove", "delete"} => sweep.oid \in Oids
    /\ puts \in Nat

\* A generation is of one upload: those there are have been counted, and one
\* whose bytes were hashed is still of those bytes if it is still there.
GenerationsPin ==
    /\ \A r \in LfsRepos, o \in Oids :
          /\ staged[r][o].gen <= puts
          /\ staged[r][o].gen = 0 => staged[r][o] = Unstaged
    /\ \A u \in Uploads :
          /\ upload[u].pc \in {"hash", "publish"} => upload[u].gen \in 1..puts
          /\ (upload[u].pc = "publish" /\ StagedBy(u).gen = upload[u].gen)
                => StagedBy(u).body = "good"

\* What the collector's transaction holds is what it is about to remove, and
\* nothing links to it.
ClaimsUnlinked ==
    /\ claimed = IF sweep.pc \in {"remove", "delete"} THEN {sweep.oid} ELSE {}
    /\ LinkedOids \cap claimed = {}

\* A row has bytes behind it, or a collection died on them, or one is about to
\* delete the row.
RowsBacked ==
    \A o \in lfsRow :
        \/ lfs[o] # "absent"
        \/ o \in torn
        \/ sweep.pc = "delete" /\ sweep.oid = o

\* The inductive invariant of large objects.
LfsInv ==
    /\ LfsTypes /\ GenerationsPin /\ ContentAddressed
    /\ ClaimsUnlinked /\ LinkedOids \subseteq lfsRow /\ RowsBacked
(***************************************************************************)
(* Large objects: the steps.                                               *)
(***************************************************************************)

\* A request that moves on, or ends, without taking up a generation.
LEMMA GenerationsKeep ==
    ASSUME GenerationsPin, UNCHANGED <<staged, puts>>,
           \A u \in Uploads : upload'[u].pc \in {"hash", "publish"} => upload'[u] = upload[u]
    PROVE  GenerationsPin'
BY DEF GenerationsPin, StagedBy

\* A step that leaves the bucket, the ledger and the collection alone.
LEMMA LedgerKept ==
    ASSUME LfsInv, LfsTypes', GenerationsPin', UNCHANGED <<lfs, torn, lfsRow, claimed, link, sweep>>
    PROVE  LfsInv'
<1>1. LinkedOids' = LinkedOids
  BY DEF LinkedOids
<1>2. QED
  BY <1>1 DEF LfsInv, ContentAddressed, ClaimsUnlinked, RowsBacked

\* A step of the pushes, the jobs or the owners that changes nothing above.
LEMMA GitKept ==
    ASSUME LfsInv, UNCHANGED <<live, quota, staged, lfs, torn, lfsRow, claimed, link, upload,
           sweep, puts>>
    PROVE  LfsInv'
<1>1. LfsTypes'
  BY DEF LfsInv, LfsTypes
<1>2. GenerationsPin'
  BY DEF LfsInv, GenerationsPin, StagedBy
<1>3. QED
  BY <1>1, <1>2, LedgerKept

\* One request that moves on, and nothing else the invariant is about.
LEMMA RequestMoves ==
    ASSUME LfsInv, NEW u \in Uploads, NEW to \in UploadState, MoveUpload(u, to),
           to.pc # "idle" => to.repo \in LfsRepos /\ to.oid \in Oids,
           UNCHANGED <<live, quota, lfs, torn, lfsRow, claimed, link, sweep>>,
           UNCHANGED <<staged, puts>>,
           to.pc \in {"hash", "publish"} =>
               /\ to.gen \in 1..puts
               /\ (to.pc = "publish" /\ staged[to.repo][to.oid].gen = to.gen)
                     => staged[to.repo][to.oid].body = "good"
    PROVE  LfsInv'
<1>1. upload' \in [Uploads -> UploadState] /\ upload'[u] = to
      /\ \A v \in Uploads : v # u => upload'[v] = upload[v]
  BY DEF LfsInv, LfsTypes, MoveUpload
<1>2. LfsTypes'
  BY <1>1 DEF LfsInv, LfsTypes
<1>3. GenerationsPin'
  BY <1>1 DEF LfsInv, GenerationsPin, StagedBy
<1>4. QED
  BY <1>2, <1>3, LedgerKept

\* Idle is a request like any other.
LEMMA UploadIdleFact == UploadIdle \in UploadState /\ UploadIdle.pc = "idle"
BY DEF UploadIdle, UploadState

\* The steps of a request that only move it.
LEMMA RequestKeeps ==
    ASSUME LfsInv, NEW u \in Uploads, NEW r \in LfsRepos, NEW o \in Oids,
           Batch(u, r, o) \/ PromoteStaged(u, r, o) \/ VerifyCommitLFSFile(u, r, o)
    PROVE  LfsInv'
<1>1. CASE Batch(u, r, o)
  <2> DEFINE to == [UploadIdle EXCEPT !.pc = "dedup", !.repo = r, !.oid = o]
  <2>1. to \in UploadState /\ to.pc = "dedup" /\ to.repo = r /\ to.oid = o
    BY DEF UploadIdle, UploadState
  <2>2. MoveUpload(u, to) /\ UNCHANGED <<live, quota, staged, lfs, torn, lfsRow, claimed, link,
         sweep, puts>>
    BY <1>1 DEF Batch, adminVars, bucketVars, ledgerVars
  <2> HIDE DEF to
  <2>3. QED
    BY <2>1, <2>2, RequestMoves
<1>2. CASE PromoteStaged(u, r, o)
  <2> DEFINE to == [pc |-> "hash", repo |-> r, oid |-> o, gen |-> staged[r][o].gen]
  <2>1. staged[r][o].gen \in Nat /\ staged[r][o].gen <= puts /\ staged[r][o].gen # 0 /\ puts \in Nat
    BY <1>2 DEF LfsInv, LfsTypes, GenerationsPin, PromoteStaged, StagedState
  <2>2. to \in UploadState /\ to.pc = "hash" /\ to.repo = r /\ to.oid = o /\ to.gen \in 1..puts
    BY <2>1 DEF UploadState
  <2>3. MoveUpload(u, to) /\ UNCHANGED <<live, quota, staged, lfs, torn, lfsRow, claimed, link,
         sweep, puts>>
    BY <1>2 DEF PromoteStaged, adminVars, bucketVars, ledgerVars
  <2> HIDE DEF to
  <2>4. QED
    BY <2>2, <2>3, RequestMoves
<1>3. CASE VerifyCommitLFSFile(u, r, o)
  <2> DEFINE to == [UploadIdle EXCEPT !.pc = "commit", !.repo = r, !.oid = o]
  <2>1. to \in UploadState /\ to.pc = "commit" /\ to.repo = r /\ to.oid = o
    BY DEF UploadIdle, UploadState
  <2>2. MoveUpload(u, to) /\ UNCHANGED <<live, quota, staged, lfs, torn, lfsRow, claimed, link,
         sweep, puts>>
    BY <1>3 DEF VerifyCommitLFSFile, adminVars, bucketVars, ledgerVars
  <2> HIDE DEF to
  <2>3. QED
    BY <2>1, <2>2, RequestMoves
<1>4. QED
  BY <1>1, <1>2, <1>3

\* The digest is of the generation that was measured.
LEMMA ConfirmDigestKeeps ==
    ASSUME LfsInv, NEW u \in Uploads, ConfirmDigest(u)
    PROVE  LfsInv'
<1>1. /\ upload[u] \in UploadState /\ upload[u].pc = "hash" /\ upload[u].gen \in 1..puts
      /\ upload[u].repo \in LfsRepos /\ upload[u].oid \in Oids
      /\ UNCHANGED <<live, quota, staged, lfs, torn, lfsRow, claimed, link, sweep, puts>>
  BY DEF LfsInv, LfsTypes, GenerationsPin, ConfirmDigest, adminVars, bucketVars, ledgerVars
<1>2. CASE StagedBy(u) = [body |-> "good", gen |-> upload[u].gen]
  <2> DEFINE to == [upload[u] EXCEPT !.pc = "publish"]
  <2>1. to \in UploadState /\ to.pc = "publish" /\ to.repo = upload[u].repo
        /\ to.oid = upload[u].oid /\ to.gen = upload[u].gen
    BY <1>1 DEF UploadState
  <2>2. MoveUpload(u, to)
    BY <1>2 DEF ConfirmDigest
  <2>3. staged[to.repo][to.oid].body = "good"
    BY <1>2, <2>1 DEF StagedBy
  <2> HIDE DEF to
  <2>4. QED
    BY <1>1, <2>1, <2>2, <2>3, RequestMoves
<1>3. CASE StagedBy(u) # [body |-> "good", gen |-> upload[u].gen]
  <2>1. MoveUpload(u, UploadIdle)
    BY <1>3 DEF ConfirmDigest
  <2>2. QED
    BY <1>1, <2>1, UploadIdleFact, RequestMoves
<1>4. QED
  BY <1>2, <1>3

\* What is copied is the generation whose bytes were hashed.
LEMMA PublishStagedKeeps ==
    ASSUME LfsInv, NEW u \in Uploads, PublishStaged(u)
    PROVE  LfsInv'
<1>1. /\ upload[u] \in UploadState /\ upload[u].pc = "publish"
      /\ upload[u].repo \in LfsRepos /\ upload[u].oid \in Oids
      /\ UNCHANGED <<live, quota, staged, lfsRow, claimed, link, sweep, puts>>
  BY DEF LfsInv, LfsTypes, PublishStaged, adminVars, ledgerVars
<1>2. CASE StagedBy(u).gen = upload[u].gen
  <2> DEFINE to == [upload[u] EXCEPT !.pc = "record"]
             o == upload[u].oid
  <2>1. to \in UploadState /\ to.pc = "record" /\ to.repo = upload[u].repo /\ to.oid = o
    BY <1>1 DEF UploadState
  <2>2. MoveUpload(u, to) /\ Landed(o, StagedBy(u).body)
    BY <1>2 DEF PublishStaged
  <2>3. StagedBy(u).body = "good"
    BY <1>1, <1>2 DEF LfsInv, GenerationsPin
  <2>4. /\ lfs' \in [Oids -> {"absent", "good", "forged"}] /\ lfs'[o] = "good"
        /\ \A q \in Oids : q # o => lfs'[q] = lfs[q]
        /\ torn' = torn \ {o}
    BY <1>1, <2>2, <2>3 DEF LfsInv, LfsTypes, Landed
  <2>5. /\ upload' \in [Uploads -> UploadState] /\ upload'[u] = to
        /\ \A v \in Uploads : v # u => upload'[v] = upload[v]
    BY <2>1, <2>2 DEF LfsInv, LfsTypes, MoveUpload
  <2> HIDE DEF to
  <2>6. LfsTypes'
    BY <1>1, <2>1, <2>4, <2>5 DEF LfsInv, LfsTypes
  <2>7. GenerationsPin'
    BY <1>1, <2>1, <2>5, GenerationsKeep DEF LfsInv
  <2>8. ContentAddressed'
    BY <2>4 DEF LfsInv, ContentAddressed
  <2>9. LinkedOids' = LinkedOids
    BY <1>1 DEF LinkedOids
  <2>10. RowsBacked'
    BY <1>1, <2>4 DEF LfsInv, LfsTypes, RowsBacked
  <2>11. QED
    BY <1>1, <2>6, <2>7, <2>8, <2>9, <2>10 DEF LfsInv, ClaimsUnlinked
<1>3. CASE StagedBy(u).gen # upload[u].gen
  <2>1. MoveUpload(u, UploadIdle) /\ UNCHANGED <<lfs, torn>>
    BY <1>3 DEF PublishStaged, bucketVars
  <2>2. QED
    BY <1>1, <2>1, UploadIdleFact, RequestMoves
<1>4. QED
  BY <1>2, <1>3

\* A record makes a row of bytes that are there, for an object no collector holds.
LEMMA RecordKeeps ==
    ASSUME LfsInv, NEW u \in Uploads, NEW r \in LfsRepos, NEW o \in Oids, NEW to \in UploadState,
           CanRecord(r, o), RecordLFSObject(r, o), MoveUpload(u, to),
           to.pc \notin {"hash", "publish"},
           to.pc # "idle" => to.repo \in LfsRepos /\ to.oid \in Oids,
           UNCHANGED <<live, quota, staged, lfs, torn, sweep, puts>>
    PROVE  LfsInv'
<1>1. CASE link[r][o] = "none" /\ Recorded(r, o)
  <2>1. lfsRow' = lfsRow \cup {o} /\ link' = [link EXCEPT ![r][o] = "uploaded"]
        /\ claimed' = claimed
    BY <1>1 DEF RecordLFSObject
  <2>2. o \notin claimed /\ lfs[o] # "absent"
    BY <1>1 DEF CanRecord, Recorded
  <2>3. /\ link' \in [LfsRepos -> [Oids -> {"none", "uploaded", "committed"}]]
        /\ \A q \in LfsRepos, p \in Oids : (q # r \/ p # o) => link'[q][p] = link[q][p]
    BY <2>1 DEF LfsInv, LfsTypes
  <2>4. LinkedOids' \subseteq LinkedOids \cup {o}
    BY <2>3 DEF LinkedOids
  <2>5. /\ upload' \in [Uploads -> UploadState] /\ upload'[u] = to
        /\ \A v \in Uploads : v # u => upload'[v] = upload[v]
    BY DEF LfsInv, LfsTypes, MoveUpload
  <2>6. LfsTypes'
    BY <2>1, <2>3, <2>5 DEF LfsInv, LfsTypes
  <2>7. GenerationsPin'
    BY <2>5, GenerationsKeep DEF LfsInv
  <2>8. ClaimsUnlinked' /\ LinkedOids' \subseteq lfsRow'
    BY <2>1, <2>2, <2>4 DEF LfsInv, ClaimsUnlinked
  <2>9. RowsBacked'
    BY <2>1, <2>2 DEF LfsInv, RowsBacked
  <2>10. QED
    BY <2>6, <2>7, <2>8, <2>9 DEF LfsInv, ContentAddressed
<1>2. CASE ~(link[r][o] = "none" /\ Recorded(r, o))
  <2>1. UNCHANGED <<lfsRow, claimed, link>>
    BY <1>2 DEF RecordLFSObject, ledgerVars
  <2>2. QED
    BY <2>1, RequestMoves
<1>3. QED
  BY <1>1, <1>2
\* A stamp links rows that are there and that no collector holds.
LEMMA LinkKeeps ==
    ASSUME LfsInv, NEW r \in LfsRepos, NEW S, LinkLFSObjects(r, S),
           UNCHANGED <<live, quota, staged, lfs, torn, sweep, puts>>,
           upload' \in [Uploads -> UploadState],
           \A u \in Uploads : upload'[u].pc = "idle" \/ upload'[u] = upload[u]
    PROVE  LfsInv'
<1>1. /\ S \cap lfsRow \cap claimed = {} /\ UNCHANGED <<lfsRow, claimed>>
      /\ link' = [link EXCEPT ![r] = [o \in Oids |-> IF o \in S \cap lfsRow THEN "committed"
                                                                         ELSE @[o]]]
  BY DEF LinkLFSObjects
<1>2. /\ \A q \in LfsRepos : q # r => link'[q] = link[q]
      /\ \A o \in Oids : link'[r][o] = IF o \in S \cap lfsRow THEN "committed" ELSE link[r][o]
      /\ link' \in [LfsRepos -> [Oids -> {"none", "uploaded", "committed"}]]
  BY <1>1 DEF LfsInv, LfsTypes
<1>3. LinkedOids' \subseteq LinkedOids \cup (S \cap lfsRow)
  BY <1>2 DEF LinkedOids
<1>4. LfsTypes'
  BY <1>1, <1>2 DEF LfsInv, LfsTypes
<1>5. GenerationsPin'
  BY GenerationsKeep DEF LfsInv
<1>6. ClaimsUnlinked' /\ LinkedOids' \subseteq lfsRow'
  BY <1>1, <1>3 DEF LfsInv, ClaimsUnlinked
<1>7. RowsBacked'
  BY <1>1 DEF LfsInv, RowsBacked
<1>8. QED
  BY <1>4, <1>5, <1>6, <1>7 DEF LfsInv, ContentAddressed

\* A step that only takes links away, or repositories.
LEMMA UnlinkKeeps ==
    ASSUME LfsInv, live' \subseteq live,
           link' \in [LfsRepos -> [Oids -> {"none", "uploaded", "committed"}]],
           \A r \in LfsRepos, o \in Oids : link'[r][o] \in {"none", link[r][o]},
           UNCHANGED <<quota, staged, lfs, torn, lfsRow, claimed, upload, sweep, puts>>
    PROVE  LfsInv'
<1>1. LinkedOids' \subseteq LinkedOids
  BY DEF LinkedOids
<1>2. LfsTypes'
  BY DEF LfsInv, LfsTypes
<1>3. GenerationsPin'
  BY GenerationsKeep DEF LfsInv
<1>4. QED
  BY <1>1, <1>2, <1>3 DEF LfsInv, ContentAddressed, ClaimsUnlinked, RowsBacked

\* The other steps of a request, its end included.
LEMMA UploadStepKeeps ==
    ASSUME LfsInv, NEW u \in Uploads, UploadStep(u) \/ UploadDies(u)
    PROVE  LfsInv'
<1> DEFINE r == upload[u].repo
           o == upload[u].oid
<1>0. /\ upload[u] \in UploadState
      /\ upload[u].pc # "idle" => r \in LfsRepos /\ o \in Oids
  BY DEF LfsInv, LfsTypes
<1>1. CASE Dedup(u)
  <2>1. /\ r \in LfsRepos /\ o \in Oids /\ CanRecord(r, o) /\ RecordLFSObject(r, o)
        /\ MoveUpload(u, UploadIdle)
        /\ UNCHANGED <<live, quota, staged, lfs, torn, sweep, puts>>
    BY <1>0, <1>1 DEF Dedup, adminVars, bucketVars
  <2>2. QED
    BY <2>1, RecordKeeps, UploadIdleFact
<1>2. CASE ConfirmDigest(u)
  BY <1>2, ConfirmDigestKeeps
<1>3. CASE PublishStaged(u)
  BY <1>3, PublishStagedKeeps
<1>4. CASE RecordPromoted(u)
  <2> DEFINE to == IF Recorded(r, o) THEN [upload[u] EXCEPT !.pc = "clean"] ELSE UploadIdle
  <2>1. /\ r \in LfsRepos /\ o \in Oids /\ CanRecord(r, o) /\ RecordLFSObject(r, o)
        /\ MoveUpload(u, to)
        /\ UNCHANGED <<live, quota, staged, lfs, torn, sweep, puts>>
    BY <1>0, <1>4 DEF RecordPromoted, adminVars, bucketVars
  <2>2. /\ to \in UploadState /\ to.pc \in {"clean", "idle"}
        /\ to.pc # "idle" => to.repo \in LfsRepos /\ to.oid \in Oids
    <3>1. CASE Recorded(r, o)
      BY <1>0, <2>1, <3>1 DEF UploadState
    <3>2. CASE ~Recorded(r, o)
      BY <3>2, UploadIdleFact
    <3>3. QED
      BY <3>1, <3>2
  <2> HIDE DEF to
  <2>3. QED
    BY <2>1, <2>2, RecordKeeps
<1>5. CASE DeleteStaged(u)
  <2>1. /\ r \in LfsRepos /\ o \in Oids /\ MoveUpload(u, UploadIdle)
        /\ staged' = [staged EXCEPT ![r][o] = Unstaged]
        /\ UNCHANGED <<live, quota, lfs, torn, lfsRow, claimed, link, sweep, puts>>
    BY <1>0, <1>5 DEF DeleteStaged, adminVars, bucketVars, ledgerVars
  <2>2. /\ upload' \in [Uploads -> UploadState] /\ upload'[u] = UploadIdle
        /\ \A v \in Uploads : v # u => upload'[v] = upload[v]
    BY <2>1, UploadIdleFact DEF LfsInv, LfsTypes, MoveUpload
  <2>3. /\ staged' \in [LfsRepos -> [Oids -> StagedState]] /\ staged'[r][o] = Unstaged
        /\ \A q \in LfsRepos, p \in Oids : (q # r \/ p # o) => staged'[q][p] = staged[q][p]
    BY <2>1 DEF LfsInv, LfsTypes, Unstaged, StagedState
  <2>4. LfsTypes'
    BY <2>1, <2>2, <2>3, UploadIdleFact DEF LfsInv, LfsTypes
  <2>5. GenerationsPin'
    <3>1. ASSUME NEW v \in Uploads, upload'[v].pc = "publish", StagedBy(v)'.gen = upload'[v].gen
          PROVE  StagedBy(v)'.body = "good"
      <4>1. v # u /\ upload'[v] = upload[v] /\ upload[v].gen \in 1..puts
            /\ upload[v].repo \in LfsRepos /\ upload[v].oid \in Oids
        BY <2>2, <3>1, UploadIdleFact DEF LfsInv, LfsTypes, GenerationsPin
      <4>2. CASE upload[v].repo = r /\ upload[v].oid = o
        BY <2>3, <3>1, <4>1, <4>2 DEF StagedBy, Unstaged
      <4>3. CASE upload[v].repo # r \/ upload[v].oid # o
        BY <2>3, <3>1, <4>1, <4>3 DEF StagedBy, LfsInv, GenerationsPin
      <4>4. QED
        BY <4>2, <4>3
    <3>2. \A v \in Uploads : upload'[v].pc \in {"hash", "publish"} => upload'[v].gen \in 1..puts'
      BY <2>1, <2>2, UploadIdleFact DEF LfsInv, GenerationsPin
    <3>3. \A q \in LfsRepos, p \in Oids : /\ staged'[q][p].gen <= puts'
                                          /\ staged'[q][p].gen = 0 => staged'[q][p] = Unstaged
      BY <2>1, <2>3 DEF LfsInv, LfsTypes, GenerationsPin, Unstaged
    <3>4. QED
      BY <3>1, <3>2, <3>3 DEF GenerationsPin
  <2>6. QED
    BY <2>1, <2>4, <2>5, LedgerKept
<1>6. CASE CommitLands(u)
  <2> DEFINE to == [upload[u] EXCEPT !.pc = "stamp"]
  <2>1. /\ upload[u].pc = "commit" /\ MoveUpload(u, to)
        /\ UNCHANGED <<live, quota, staged, lfs, torn, lfsRow, claimed, link, sweep, puts>>
    BY <1>6 DEF CommitLands, adminVars, bucketVars, ledgerVars
  <2>2. to \in UploadState /\ to.pc = "stamp" /\ to.repo = r /\ to.oid = o
    BY <1>0 DEF UploadState
  <2>3. r \in LfsRepos /\ o \in Oids
    BY <1>0, <2>1
  <2> HIDE DEF to, r, o
  <2>4. QED
    BY <2>1, <2>2, <2>3, RequestMoves
<1>7. CASE StampCommit(u)
  <2>1. /\ r \in LfsRepos /\ MoveUpload(u, UploadIdle)
        /\ UNCHANGED <<live, quota, staged, lfs, torn, sweep, puts>>
    BY <1>0, <1>7 DEF StampCommit, adminVars, bucketVars
  <2>2. /\ upload' \in [Uploads -> UploadState]
        /\ \A v \in Uploads : upload'[v].pc = "idle" \/ upload'[v] = upload[v]
    BY <2>1, UploadIdleFact DEF LfsInv, LfsTypes, MoveUpload
  <2>3. CASE r \in live
    <3>1. LinkLFSObjects(r, {o})
      BY <1>7, <2>3 DEF StampCommit
    <3>2. QED
      BY <2>1, <2>2, <3>1, LinkKeeps
  <2>4. CASE r \notin live
    <3>1. UNCHANGED <<lfsRow, claimed, link>>
      BY <1>7, <2>4 DEF StampCommit, ledgerVars
    <3>2. QED
      BY <2>1, <3>1, UploadIdleFact, RequestMoves
  <2>5. QED
    BY <2>3, <2>4
<1>8. CASE UploadDies(u)
  <2>1. /\ MoveUpload(u, UploadIdle)
        /\ UNCHANGED <<live, quota, staged, lfs, torn, lfsRow, claimed, link, sweep, puts>>
    BY <1>8 DEF UploadDies, adminVars, bucketVars, ledgerVars
  <2>2. QED
    BY <2>1, UploadIdleFact, RequestMoves
<1>9. QED
  BY <1>1, <1>2, <1>3, <1>4, <1>5, <1>6, <1>7, <1>8 DEF UploadStep

\* Staging: a generation nobody has seen, or none.
LEMMA StagingKeeps ==
    ASSUME LfsInv, NEW r \in LfsRepos, NEW o \in Oids, PutStaged(r, o) \/ GcStaging(r, o)
    PROVE  LfsInv'
<1>1. UNCHANGED <<live, quota, upload, lfs, torn, lfsRow, claimed, link, sweep>> /\ puts \in Nat
      /\ puts' \in Nat /\ puts <= puts'
  BY DEF LfsInv, LfsTypes, PutStaged, GcStaging, adminVars, bucketVars, ledgerVars
<1>2. PICK x \in StagedState :
          /\ staged' = [staged EXCEPT ![r][o] = x]
          /\ (x.gen = 0 /\ x = Unstaged) \/ (x.gen = puts + 1 /\ puts' = puts + 1)
  <2>1. CASE PutStaged(r, o)
    <3>1. PICK body \in {"good", "forged"} :
              staged' = [staged EXCEPT ![r][o] = [body |-> body, gen |-> puts + 1]]
      BY <2>1 DEF PutStaged
    <3>2. [body |-> body, gen |-> puts + 1] \in StagedState /\ puts' = puts + 1
      BY <1>1, <2>1 DEF StagedState, PutStaged
    <3>3. QED
      BY <3>1, <3>2
  <2>2. CASE GcStaging(r, o)
    BY <2>2 DEF GcStaging, Unstaged, StagedState
  <2>3. QED
    BY <2>1, <2>2
<1>3. /\ staged' \in [LfsRepos -> [Oids -> StagedState]] /\ staged'[r][o] = x
      /\ \A q \in LfsRepos, p \in Oids : (q # r \/ p # o) => staged'[q][p] = staged[q][p]
  BY <1>2 DEF LfsInv, LfsTypes
<1>4. LfsTypes'
  BY <1>1, <1>3 DEF LfsInv, LfsTypes
<1>5. GenerationsPin'
  <2>1. ASSUME NEW v \in Uploads, upload'[v].pc = "publish", StagedBy(v)'.gen = upload'[v].gen
        PROVE  StagedBy(v)'.body = "good"
    <3>1. /\ upload'[v] = upload[v] /\ upload[v].gen \in 1..puts
          /\ upload[v].repo \in LfsRepos /\ upload[v].oid \in Oids
      BY <1>1, <2>1 DEF LfsInv, LfsTypes, GenerationsPin
    <3>2. CASE upload[v].repo = r /\ upload[v].oid = o
      BY <1>1, <1>2, <1>3, <2>1, <3>1, <3>2 DEF StagedBy
    <3>3. CASE upload[v].repo # r \/ upload[v].oid # o
      BY <1>3, <2>1, <3>1, <3>3 DEF StagedBy, LfsInv, GenerationsPin
    <3>4. QED
      BY <3>2, <3>3
  <2>2. \A v \in Uploads : upload'[v].pc \in {"hash", "publish"} => upload'[v].gen \in 1..puts'
    BY <1>1 DEF LfsInv, GenerationsPin
  <2>3. \A q \in LfsRepos, p \in Oids : /\ staged'[q][p].gen <= puts'
                                        /\ staged'[q][p].gen = 0 => staged'[q][p] = Unstaged
    <3> TAKE q \in LfsRepos, p \in Oids
    <3>1. /\ staged[q][p].gen <= puts /\ staged[q][p].gen \in Nat
          /\ staged[q][p].gen = 0 => staged[q][p] = Unstaged
      BY DEF LfsInv, LfsTypes, GenerationsPin, StagedState
    <3>2. CASE q = r /\ p = o
      BY <1>1, <1>2, <1>3, <3>2
    <3>3. CASE q # r \/ p # o
      <4>1. staged'[q][p] = staged[q][p]
        BY <1>3, <3>3
      <4>2. QED
        BY <1>1, <3>1, <4>1
    <3>4. QED
      BY <3>2, <3>3
  <2>4. QED
    BY <2>1, <2>2, <2>3 DEF GenerationsPin
<1>6. QED
  BY <1>1, <1>4, <1>5, LedgerKept

\* Pushes, jobs and the end of a repository.
LEMMA RepoKeeps ==
    ASSUME LfsInv, NEW r \in LfsRepos,
           PushPointers(r) \/ SyncStep(r) \/ IndexerDies(r) \/ DeleteRepo(r)
    PROVE  LfsInv'
<1>1. CASE LinkRevision(r)
  <2>1. /\ LinkLFSObjects(r, indexer[r].allowed)
        /\ UNCHANGED <<live, quota, staged, lfs, torn, sweep, puts, upload>>
    BY <1>1 DEF LinkRevision, adminVars, bucketVars
  <2>2. upload' \in [Uploads -> UploadState] /\ \A u \in Uploads : upload'[u] = upload[u]
    BY <2>1 DEF LfsInv, LfsTypes
  <2>3. QED
    BY <2>1, <2>2, LinkKeeps
<1>2. CASE PruneRepoLFSLinks(r)
  <2>1. PICK old \in SUBSET {o \in Oids : link[r][o] = "uploaded" /\ o \notin lfsIndex[r]} :
            link' = [link EXCEPT ![r] = [o \in Oids |-> IF o \in old THEN "none" ELSE @[o]]]
    BY <1>2 DEF PruneRepoLFSLinks
  <2>2. UNCHANGED <<live, quota, staged, lfs, torn, lfsRow, claimed, upload, sweep, puts>>
    BY <1>2 DEF PruneRepoLFSLinks, adminVars, bucketVars
  <2>3. /\ link' \in [LfsRepos -> [Oids -> {"none", "uploaded", "committed"}]]
        /\ \A q \in LfsRepos, p \in Oids : link'[q][p] \in {"none", link[q][p]}
    BY <2>1 DEF LfsInv, LfsTypes
  <2>4. QED
    BY <2>2, <2>3, UnlinkKeeps
<1>3. CASE DeleteRepo(r)
  <2>1. /\ live' \subseteq live /\ link' = [link EXCEPT ![r] = [o \in Oids |-> "none"]]
        /\ UNCHANGED <<quota, staged, lfs, torn, lfsRow, claimed, upload, sweep, puts>>
    BY <1>3 DEF DeleteRepo, bucketVars
  <2>2. /\ link' \in [LfsRepos -> [Oids -> {"none", "uploaded", "committed"}]]
        /\ \A q \in LfsRepos, p \in Oids : link'[q][p] \in {"none", link[q][p]}
    BY <2>1 DEF LfsInv, LfsTypes
  <2>3. QED
    BY <2>1, <2>2, UnlinkKeeps
<1>4. CASE PushPointers(r) \/ IndexerDies(r)
  <2>1. UNCHANGED <<live, quota, staged, lfs, torn, lfsRow, claimed, link, upload, sweep, puts>>
    BY <1>4 DEF PushPointers, IndexerDies, adminVars, bucketVars, ledgerVars
  <2>2. QED
    BY <2>1, GitKept
<1>5. CASE EnqueueSync(r) \/ ReadPointers(r) \/ FilterLFSByQuota(r) \/ IndexerGivesUp(r)
           \/ IndexRevision(r) \/ HasUnsettledSyncJobs(r)
  <2>1. UNCHANGED <<live, quota, staged, lfs, torn, lfsRow, claimed, link, upload, sweep, puts>>
    BY <1>5 DEF EnqueueSync, ReadPointers, FilterLFSByQuota, IndexerGivesUp, IndexRevision,
                HasUnsettledSyncJobs, adminVars, bucketVars, ledgerVars
  <2>2. QED
    BY <2>1, GitKept
<1>6. QED
  BY <1>1, <1>2, <1>3, <1>4, <1>5 DEF SyncStep
\* The collection moves on without touching the bucket or the ledger.
LEMMA SweepMoves ==
    ASSUME LfsInv, sweep' \in SweepState, sweep'.pc \notin {"remove", "delete"},
           sweep.pc \notin {"remove", "delete"},
           UNCHANGED <<live, quota, staged, lfs, torn, lfsRow, claimed, link, upload, puts>>
    PROVE  LfsInv'
<1>1. LfsTypes'
  BY DEF LfsInv, LfsTypes
<1>2. LinkedOids' = LinkedOids
  BY DEF LinkedOids
<1>3. GenerationsPin'
  BY GenerationsKeep DEF LfsInv
<1>4. ClaimsUnlinked' /\ RowsBacked'
  BY <1>2 DEF LfsInv, ClaimsUnlinked, RowsBacked
<1>5. QED
  BY <1>1, <1>2, <1>3, <1>4 DEF LfsInv, ContentAddressed

\* The collection claims an object nothing links to.
LEMMA ClaimMoves ==
    ASSUME LfsInv, NEW o \in Oids, o \notin LinkedOids, sweep' \in SweepState,
           sweep.pc = "next", sweep'.pc = "remove", sweep'.oid = o, claimed' = claimed \cup {o},
           UNCHANGED <<live, quota, staged, lfs, torn, lfsRow, link, upload, puts>>
    PROVE  LfsInv'
<1>1. LfsTypes'
  BY DEF LfsInv, LfsTypes
<1>2. LinkedOids' = LinkedOids
  BY DEF LinkedOids
<1>3. GenerationsPin'
  BY GenerationsKeep DEF LfsInv
<1>4. ClaimsUnlinked' /\ RowsBacked'
  BY <1>2 DEF LfsInv, ClaimsUnlinked, RowsBacked
<1>5. QED
  BY <1>1, <1>2, <1>3, <1>4 DEF LfsInv, ContentAddressed

\* The steps of the collection up to a claim, and its end.
LEMMA SweepKeeps ==
    ASSUME LfsInv,
           \/ \E old \in SUBSET Oids : ListLfs(old)
           \/ ListLFSObjects \/ ListReferencedLFSOIDs
           \/ \E o \in Oids : ClaimOrphaned(o) \/ ClaimUntracked(o)
           \/ SweepEnds
    PROVE  LfsInv'
<1>0. sweep \in SweepState /\ lfsRow \subseteq Oids
  BY DEF LfsInv, LfsTypes
<1>1. ASSUME NEW old \in SUBSET Oids, ListLfs(old)
      PROVE  LfsInv'
  <2>1. sweep' \in SweepState /\ sweep'.pc = "rows"
    BY <1>1 DEF ListLfs, SweepIdle, SweepState
  <2>2. QED
    BY <1>1, <2>1, SweepMoves DEF ListLfs, adminVars, bucketVars, ledgerVars
<1>2. CASE ListLFSObjects
  <2>1. sweep' \in SweepState /\ sweep'.pc = "links"
    BY <1>0, <1>2 DEF ListLFSObjects, SweepState
  <2>2. QED
    BY <1>2, <2>1, SweepMoves DEF ListLFSObjects, adminVars, bucketVars, ledgerVars
<1>3. CASE ListReferencedLFSOIDs
  <2>1. sweep' \in SweepState /\ sweep'.pc = "next"
    BY <1>0, <1>3 DEF ListReferencedLFSOIDs, SweepState
  <2>2. QED
    BY <1>3, <2>1, SweepMoves DEF ListReferencedLFSOIDs, adminVars, bucketVars, ledgerVars
<1>4. ASSUME NEW o \in Oids, ClaimOrphaned(o)
      PROVE  LfsInv'
  <2>1. sweep.pc = "next"
        /\ UNCHANGED <<live, quota, staged, lfs, torn, lfsRow, link, upload, puts>>
    BY <1>4 DEF ClaimOrphaned, adminVars, bucketVars
  <2>2. CASE o \in lfsRow \ LinkedOids
    <3>1. /\ sweep' \in SweepState /\ sweep'.pc = "remove" /\ sweep'.oid = o
          /\ claimed' = claimed \cup {o}
      BY <1>0, <1>4, <2>2 DEF ClaimOrphaned, SweepState
    <3>2. QED
      BY <2>1, <2>2, <3>1, ClaimMoves
  <2>3. CASE o \notin lfsRow \ LinkedOids
    <3>1. sweep' \in SweepState /\ sweep'.pc = "next" /\ claimed' = claimed
      BY <1>0, <1>4, <2>1, <2>3 DEF ClaimOrphaned, SweepState
    <3>2. QED
      BY <2>1, <3>1, SweepMoves
  <2>4. QED
    BY <2>2, <2>3
<1>5. ASSUME NEW o \in Oids, ClaimUntracked(o)
      PROVE  LfsInv'
  <2>1. sweep.pc = "next"
        /\ UNCHANGED <<live, quota, staged, lfs, torn, lfsRow, link, upload, puts>>
    BY <1>5 DEF ClaimUntracked, adminVars, bucketVars
  <2>2. CASE o \notin lfsRow
    <3>1. /\ sweep' \in SweepState /\ sweep'.pc = "remove" /\ sweep'.oid = o
          /\ claimed' = claimed \cup {o}
      BY <1>0, <1>5, <2>2 DEF ClaimUntracked, SweepState
    <3>2. o \notin LinkedOids
      BY <2>2 DEF LfsInv
    <3>3. QED
      BY <2>1, <3>1, <3>2, ClaimMoves
  <2>3. CASE o \in lfsRow
    <3>1. sweep' \in SweepState /\ sweep'.pc = "next" /\ claimed' = claimed
      BY <1>0, <1>5, <2>1, <2>3 DEF ClaimUntracked, SweepState
    <3>2. QED
      BY <2>1, <3>1, SweepMoves
  <2>4. QED
    BY <2>2, <2>3
<1>6. CASE SweepEnds
  <2>1. sweep' \in SweepState /\ sweep'.pc = "idle"
    BY <1>6 DEF SweepEnds, SweepIdle, SweepState
  <2>2. QED
    BY <1>6, <2>1, SweepMoves DEF SweepEnds, adminVars, bucketVars, ledgerVars
<1>7. QED
  BY <1>1, <1>2, <1>3, <1>4, <1>5, <1>6

\* Bytes and row of a claimed object go, together or not.
LEMMA RemovalKeeps ==
    ASSUME LfsInv, RemoveLfs \/ DeleteLfsRow \/ SweepDies
    PROVE  LfsInv'
<1>0. /\ sweep \in SweepState /\ torn \subseteq Oids /\ lfsRow \subseteq Oids
      /\ sweep.pc \in {"remove", "delete"} => sweep.oid \in Oids /\ claimed = {sweep.oid}
                                              /\ sweep.oid \notin LinkedOids
      /\ UNCHANGED <<live, quota, staged, link, upload, puts>>
  <2>1. sweep \in SweepState /\ torn \subseteq Oids /\ lfsRow \subseteq Oids
    BY DEF LfsInv, LfsTypes
  <2>2. sweep.pc \in {"remove", "delete"} => sweep.oid \in Oids /\ claimed = {sweep.oid}
    BY DEF LfsInv, LfsTypes, ClaimsUnlinked
  <2>3. LinkedOids \cap claimed = {}
    BY DEF LfsInv, ClaimsUnlinked
  <2>4. UNCHANGED <<live, quota, staged, link, upload, puts>>
    BY DEF RemoveLfs, DeleteLfsRow, SweepDies, adminVars, ledgerVars
  <2>5. QED
    BY <2>1, <2>2, <2>3, <2>4
<1>1. LinkedOids' = LinkedOids
  BY <1>0 DEF LinkedOids
<1>2. GenerationsPin'
  BY <1>0, GenerationsKeep DEF LfsInv
<1>3. CASE RemoveLfs
  <2>1. /\ sweep.pc = "remove" /\ sweep' \in SweepState /\ sweep'.pc = "delete"
        /\ sweep'.oid = sweep.oid
        /\ lfs' = [lfs EXCEPT ![sweep.oid] = "absent"]
        /\ UNCHANGED <<torn, lfsRow, claimed>>
    BY <1>0, <1>3 DEF RemoveLfs, SweepState, ledgerVars
  <2>2. /\ lfs' \in [Oids -> {"absent", "good", "forged"}]
        /\ \A o \in Oids : o # sweep.oid => lfs'[o] = lfs[o]
        /\ lfs'[sweep.oid] = "absent"
    BY <1>0, <2>1 DEF LfsInv, LfsTypes
  <2>3. LfsTypes'
    BY <1>0, <2>1, <2>2 DEF LfsInv, LfsTypes
  <2>4. ContentAddressed'
    BY <1>0, <2>1, <2>2 DEF LfsInv, ContentAddressed
  <2>5. ClaimsUnlinked' /\ RowsBacked'
    BY <1>0, <1>1, <2>1, <2>2 DEF LfsInv, ClaimsUnlinked, RowsBacked
  <2>6. QED
    BY <1>1, <1>2, <2>1, <2>3, <2>4, <2>5 DEF LfsInv
<1>4. CASE DeleteLfsRow
  <2>1. /\ sweep.pc = "delete" /\ sweep' \in SweepState /\ sweep'.pc = "next"
        /\ lfsRow' = lfsRow \ {sweep.oid} /\ torn' = torn \ {sweep.oid}
        /\ claimed' = claimed \ {sweep.oid} /\ lfs' = lfs
    BY <1>0, <1>4 DEF DeleteLfsRow, SweepState
  <2>2. LfsTypes'
    BY <1>0, <2>1 DEF LfsInv, LfsTypes
  <2>3. ClaimsUnlinked' /\ RowsBacked' /\ LinkedOids' \subseteq lfsRow'
    BY <1>0, <1>1, <2>1 DEF LfsInv, ClaimsUnlinked, RowsBacked
  <2>4. QED
    BY <1>2, <2>1, <2>2, <2>3 DEF LfsInv, ContentAddressed
<1>5. CASE SweepDies
  <2>1. /\ sweep' \in SweepState /\ sweep'.pc = "idle"
        /\ torn' = IF sweep.pc = "delete" THEN torn \cup ({sweep.oid} \cap lfsRow) ELSE torn
        /\ claimed' = claimed \ {sweep.oid} /\ UNCHANGED <<lfs, lfsRow>>
    BY <1>0, <1>5 DEF SweepDies, SweepIdle, SweepState
  <2>2. LfsTypes'
    BY <1>0, <2>1 DEF LfsInv, LfsTypes
  <2>3. ClaimsUnlinked'
    BY <1>0, <1>1, <2>1 DEF LfsInv, ClaimsUnlinked
  <2>4. RowsBacked'
    BY <1>0, <2>1 DEF LfsInv, RowsBacked
  <2>5. QED
    BY <1>1, <1>2, <2>1, <2>2, <2>3, <2>4 DEF LfsInv, ContentAddressed
<1>6. QED
  BY <1>3, <1>4, <1>5

\* Every step keeps the invariant.
LEMMA LfsStepKeeps ==
    ASSUME LfsInv, [LfsNext]_lfsVars
    PROVE  LfsInv'
<1>1. ASSUME NEW u \in Uploads, Request(u)
      PROVE  LfsInv'
  <2>1. PICK r \in LfsRepos, o \in Oids :
            Batch(u, r, o) \/ PromoteStaged(u, r, o) \/ VerifyCommitLFSFile(u, r, o)
    BY <1>1 DEF Request
  <2>2. QED
    BY <2>1, RequestKeeps
<1>2. ASSUME NEW u \in Uploads, UploadStep(u) \/ UploadDies(u)
      PROVE  LfsInv'
  BY <1>2, UploadStepKeeps
<1>3. ASSUME NEW r \in LfsRepos, NEW o \in Oids, PutStaged(r, o) \/ GcStaging(r, o)
      PROVE  LfsInv'
  BY <1>3, StagingKeeps
<1>4. ASSUME NEW r \in LfsRepos,
             PushPointers(r) \/ SyncStep(r) \/ IndexerDies(r) \/ DeleteRepo(r)
      PROVE  LfsInv'
  BY <1>4, RepoKeeps
<1>5. CASE SweepStep \/ SweepDies
  BY <1>5, SweepKeeps, RemovalKeeps DEF SweepStep
<1>6. CASE UNCHANGED lfsVars
  <2>1. UNCHANGED <<live, quota, staged, lfs, torn, lfsRow, claimed, link, upload, sweep, puts>>
    BY <1>6 DEF lfsVars
  <2>2. QED
    BY <2>1, GitKept
<1>7. QED
  BY <1>1, <1>2, <1>3, <1>4, <1>5, <1>6 DEF LfsNext

\* Nothing is uploaded yet.
LEMMA LfsInitHolds ==
    ASSUME LfsInit
    PROVE  LfsInv
<1>1. LfsTypes
  <2>1. Unstaged \in StagedState /\ SweepIdle \in SweepState
    BY DEF Unstaged, StagedState, SweepIdle, SweepState
  <2>2. QED
    BY <2>1, UploadIdleFact DEF LfsInit, LfsTypes, SweepIdle
<1>2. GenerationsPin
  BY DEF LfsInit, GenerationsPin, Unstaged, UploadIdle
<1>3. LinkedOids = {}
  BY DEF LfsInit, LinkedOids
<1>4. ContentAddressed /\ ClaimsUnlinked /\ RowsBacked
  BY <1>3 DEF LfsInit, ContentAddressed, ClaimsUnlinked, RowsBacked, SweepIdle
<1>5. QED
  BY <1>1, <1>2, <1>3, <1>4 DEF LfsInv

\* The invariant holds of every state.
THEOREM LfsInductive == LfsSpec => []LfsInv
<1>1. LfsInit => LfsInv
  BY LfsInitHolds
<1>2. LfsInv /\ [LfsNext]_lfsVars => LfsInv'
  BY LfsStepKeeps
<1>3. QED
  BY <1>1, <1>2, PTL DEF LfsSpec

\* Large objects: the shapes of their state, that every link has its row, and
\* that the ledger rows a collector holds are those of the object it removes.
THEOREM LfsTypesHold == LfsSpec => []LfsTypeOK
<1>1. LfsInv => LfsTypeOK
  BY DEF LfsInv, LfsTypes, ClaimsUnlinked, LfsTypeOK
<1>2. QED
  BY <1>1, LfsInductive, PTL

\* lfs/promote.go: whatever is staged again, copied late or recorded twice, an
\* object of lfs/ hashes to its name.
THEOREM LfsContentAddressed == LfsSpec => []ContentAddressed
<1>1. LfsInv => ContentAddressed
  BY DEF LfsInv
<1>2. QED
  BY <1>1, LfsInductive, PTL

\* store/gc.go: no interleaving of uploads, commits, sync jobs and collections
\* takes the bytes behind a link; only a collection that dies between the bucket
\* and its row can.
THEOREM LfsLinksServe == LfsSpec => []LinksServe
<1>1. LfsInv => LinksServe
  <2> SUFFICES ASSUME LfsInv, NEW o \in LinkedOids
               PROVE  lfs[o] # "absent" \/ o \in torn
    BY DEF LinksServe
  <2>1. o \in lfsRow /\ (sweep.pc = "delete" => o # sweep.oid)
    BY DEF LfsInv, ClaimsUnlinked
  <2>2. QED
    BY <2>1 DEF LfsInv, RowsBacked
<1>2. QED
  BY <1>1, LfsInductive, PTL
\* One step, and the links that commits were stamped with.
LEMMA CommittedLinkStays ==
    ASSUME LfsInv, [LfsNext]_lfsVars, NEW r \in live', NEW o \in Oids, link[r][o] = "committed"
    PROVE  link'[r][o] = "committed"
<1>0. /\ link \in [LfsRepos -> [Oids -> {"none", "uploaded", "committed"}]]
      /\ live \subseteq LfsRepos /\ live' \subseteq LfsRepos
  BY LfsStepKeeps DEF LfsInv, LfsTypes
<1>1. ASSUME NEW q \in LfsRepos, NEW p \in Oids, RecordLFSObject(q, p)
      PROVE  link'[r][o] = "committed"
  BY <1>0, <1>1 DEF RecordLFSObject, ledgerVars
<1>2. ASSUME NEW q \in LfsRepos, NEW S, LinkLFSObjects(q, S)
      PROVE  link'[r][o] = "committed"
  BY <1>0, <1>2 DEF LinkLFSObjects
<1>3. ASSUME NEW u \in Uploads, Request(u) \/ UploadDies(u)
      PROVE  link'[r][o] = "committed"
  BY <1>3 DEF Request, Batch, PromoteStaged, VerifyCommitLFSFile, UploadDies, ledgerVars
<1>4. ASSUME NEW u \in Uploads, UploadStep(u)
      PROVE  link'[r][o] = "committed"
  <2>0. upload[u].pc # "idle" => upload[u].repo \in LfsRepos /\ upload[u].oid \in Oids
    BY DEF LfsInv, LfsTypes
  <2>1. CASE Dedup(u) \/ RecordPromoted(u)
    BY <1>1, <2>0, <2>1 DEF Dedup, RecordPromoted
  <2>2. CASE StampCommit(u)
    <3>1. upload[u].repo \in LfsRepos
      BY <2>0, <2>2 DEF StampCommit
    <3>2. LinkLFSObjects(upload[u].repo, {upload[u].oid}) \/ UNCHANGED link
      BY <2>2 DEF StampCommit, ledgerVars
    <3>3. QED
      BY <1>2, <3>1, <3>2
  <2>3. CASE ConfirmDigest(u) \/ PublishStaged(u) \/ DeleteStaged(u) \/ CommitLands(u)
    BY <2>3 DEF ConfirmDigest, PublishStaged, DeleteStaged, CommitLands, ledgerVars
  <2>4. QED
    BY <1>4, <2>1, <2>2, <2>3 DEF UploadStep
<1>5. ASSUME NEW q \in LfsRepos, NEW p \in Oids, PutStaged(q, p) \/ GcStaging(q, p)
      PROVE  link'[r][o] = "committed"
  BY <1>5 DEF PutStaged, GcStaging, ledgerVars
<1>6. ASSUME NEW q \in LfsRepos, PushPointers(q) \/ IndexerDies(q)
      PROVE  link'[r][o] = "committed"
  BY <1>6 DEF PushPointers, IndexerDies, ledgerVars
<1>7. ASSUME NEW q \in LfsRepos, DeleteRepo(q)
      PROVE  link'[r][o] = "committed"
  <2>1. r # q
    BY <1>7 DEF DeleteRepo
  <2>2. QED
    BY <1>0, <1>7, <2>1 DEF DeleteRepo
<1>8. ASSUME NEW q \in LfsRepos, SyncStep(q)
      PROVE  link'[r][o] = "committed"
  <2>1. CASE LinkRevision(q)
    BY <1>2, <2>1 DEF LinkRevision
  <2>2. CASE PruneRepoLFSLinks(q)
    <3>1. PICK old \in SUBSET {p \in Oids : link[q][p] = "uploaded" /\ p \notin lfsIndex[q]} :
              link' = [link EXCEPT ![q] = [p \in Oids |-> IF p \in old THEN "none" ELSE @[p]]]
      BY <2>2 DEF PruneRepoLFSLinks
    <3>2. CASE r = q
      <4>1. o \notin old
        BY <3>1, <3>2
      <4>2. QED
        BY <1>0, <3>1, <3>2, <4>1
    <3>3. CASE r # q
      BY <1>0, <3>1, <3>3
    <3>4. QED
      BY <3>2, <3>3
  <2>3. CASE EnqueueSync(q) \/ ReadPointers(q) \/ FilterLFSByQuota(q) \/ IndexerGivesUp(q)
             \/ IndexRevision(q) \/ HasUnsettledSyncJobs(q)
    BY <2>3 DEF EnqueueSync, ReadPointers, FilterLFSByQuota, IndexerGivesUp, IndexRevision,
                HasUnsettledSyncJobs, ledgerVars
  <2>4. QED
    BY <1>8, <2>1, <2>2, <2>3 DEF SyncStep
<1>9. CASE SweepStep \/ SweepDies
  BY <1>9 DEF SweepStep, SweepDies, ListLfs, ListLFSObjects, ListReferencedLFSOIDs, ClaimOrphaned,
              ClaimUntracked, RemoveLfs, DeleteLfsRow, SweepEnds, ledgerVars
<1>10. CASE UNCHANGED lfsVars
  BY <1>10 DEF lfsVars
<1>11. QED
  BY <1>3, <1>4, <1>5, <1>6, <1>7, <1>8, <1>9, <1>10 DEF LfsNext

\* store/files.go: a link a commit was stamped with outlives every request, sync
\* job and collection, until its repository is deleted.
THEOREM LfsCommittedLinksStay == LfsSpec => CommittedLinksStay
<1>1. LfsInv /\ [LfsNext]_lfsVars =>
          [\A r \in live', o \in Oids :
              link[r][o] = "committed" => link'[r][o] = "committed"]_lfsVars
  BY CommittedLinkStays
<1>2. QED
  BY <1>1, LfsInductive, PTL DEF LfsSpec, CommittedLinksStay

=============================================================================
