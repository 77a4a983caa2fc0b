--------------------------- MODULE DeliveryProofs ---------------------------
(***************************************************************************)
(* Proofs about RunDelivery, for any number of offline directories, points,*)
(* heartbeats, mishaps and refusals: no point of a living shim is lost     *)
(* unsaid, the state file of `tf experiments sync` never runs ahead of the *)
(* server, and a run that was finished stays so unless a client abandoned a*)
(* request or a timer outlived finish().                                   *)
(*                                                                         *)
(* A client waits for at most one call, and its variables say which one:   *)
(* the batch being sent is that of the shim's call, the lines behind the   *)
(* cursor are those of the syncer's.  So the answer to a call says what the*)
(* server has, of which the client then lets go.                           *)
(***************************************************************************)
EXTENDS RunDelivery, FiniteSetTheorems, SequenceTheorems, WellFoundedInduction, TLAPS

\* Who may have written a point to a directory.
PointsOf(d) == IF d = "spill" THEN {"shim"} \X (1..MaxLogged) ELSE {d} \X (1..MaxOffline)

\* The calls a client waits for.
Awaited(from) == {q \in calls : q.from = from /\ q.awaited}

ShimState ==
    [pc : {"logging", "draining", "drained", "closing", "finishing", "spilled", "done", "dead"},
     buf : Seq(PointsOf("spill")), sending : Seq(PointsOf("spill")), logged : 0..MaxLogged,
     tries : 0..DrainAttempts, lock : {"free", "timer", "finish"}, finishOK : BOOLEAN,
     spill : {"none", "open", "unavailable"}, dropped : SUBSET PointsOf("spill")]

BudgetState ==
    [pings : Nat, mishaps : Nat, refusals : Nat, abandoned : BOOLEAN, late : BOOLEAN]

LineState == [finish : BOOLEAN, pts : SUBSET LoggedPoints]

SyncerState ==
    [pc : {"idle", "resolve", "record", "send", "sent", "answered", "ending", "ended"},
     dir : Dirs, last : Nat, over : BOOLEAN, upTo : Nat, run : RunNames \cup {0}]

\* A buffer grows past its cap only by points logged since it was last put back,
\* and finish() drains it a bounded number of times.
ShimTyped ==
    /\ shim \in ShimState
    /\ Len(shim.buf) <= BufferMax + shim.logged
    /\ shim.pc = "logging" => shim.tries = 0
    /\ shim.pc = "draining" => shim.tries < DrainAttempts

\* The variables keep their types.
DeliveryTypes ==
    /\ ShimTyped
    /\ lines \in [Dirs -> Seq(LineState)]
    /\ syncState \in [Dirs -> [run : RunNames \cup {0}, synced : Nat, done : BOOLEAN]]
    /\ syncer \in SyncerState
    /\ calls \subseteq CallState
    /\ runStatus \in [RunNames -> {"none", "running", "finished"}]
    /\ received \in [RunNames -> SUBSET LoggedPoints]
    /\ budget \in BudgetState

\* Directories hold points of their writer, and a finish record is their last.
LinesEnd ==
    /\ \A d \in Dirs : \A i \in 1..Len(lines[d]) :
          /\ lines[d][i].pts \subseteq PointsOf(d)
          /\ lines[d][i].finish => i = Len(lines[d]) /\ lines[d][i].pts = {}
    /\ \A i \in 1..Len(lines["spill"]) : lines["spill"][i].finish => shim.pc = "done"

\* Once finish() is past its drain, what is buffered or being sent fits the buffer:
\* a timer that comes late puts back what it took, and evicts nothing.
Capped ==
    /\ shim.pc = "closing" => Len(shim.buf) <= BufferMax
    /\ shim.pc \in {"finishing", "spilled", "done"} =>
          Len(shim.sending) + Len(shim.buf) <= BufferMax

\* The shim waits for one call, which carries the first chunk of what it is
\* sending; after finish() only a late timer does.
ShimWaits ==
    /\ \A q, r \in Awaited("shim") : q = r
    /\ \A q \in Awaited("shim") :
          /\ shim.lock # "free"
          /\ IF q.kind = "log" THEN q.pts = ToSet(Chunk(shim.sending)) ELSE shim.sending = <<>>
          /\ q.kind = "finish" => shim.pc = "finishing"
    /\ shim.lock = "free" => shim.sending = <<>>
    /\ shim.pc = "dead" => shim.lock = "free"
    /\ shim.pc \in {"spilled", "done"} => shim.lock = "free" \/ budget.late
    /\ Capped
    /\ \A q \in calls : q.from = "shim" => q.run = 1 /\ q.pts \subseteq PointsOf("spill")

\* A handler past the insert has inserted its batch.
Inserted ==
    \A q \in calls :
        /\ q.kind # "log" => q.pts = {}
        /\ q.kind = "finish" => q.want = "finished"
        /\ q.pc \in {"count", "answer"} => q.pts \subseteq received[q.run]

\* The lines of a batch under way.
Batch(d, from, to) == UNION {lines[d][i].pts : i \in from + 1..to}

\* The pass of tf experiments sync knows what is on disk and waits for one call,
\* which carries the lines behind the cursor.
SyncWaits ==
    /\ \A q, r \in Awaited("sync") : q = r
    /\ \A q \in Awaited("sync") :
          /\ q.run = syncer.run
          /\ \/ q.kind = "log" /\ syncer.pc = "sent"
                /\ q.pts = Batch(syncer.dir, syncState[syncer.dir].synced, syncer.upTo)
             \/ q.kind = "finish" /\ syncer.pc = "ending"
    /\ syncer.pc = "answered" =>
          Batch(syncer.dir, syncState[syncer.dir].synced, syncer.upTo) \subseteq received[syncer.run]

\* Where a pass x stands in a directory with state file st and lines l.
Stands(x, st, l) ==
    /\ x.pc # "idle" =>
          /\ l # <<>> /\ ~st.done
          /\ st.synced <= x.last /\ x.last <= Len(l)
          /\ \A i \in 1..x.last : ~l[i].finish
          /\ x.over => Len(l) = x.last + 1 /\ l[x.last + 1].finish
    /\ x.pc \in {"resolve", "record"} => st.run = 0
    /\ x.pc = "record" => x.run # 0
    /\ x.pc \in {"send", "sent", "answered", "ending", "ended"} => x.run = st.run /\ st.run # 0
    /\ x.pc \in {"sent", "answered"} => x.upTo \in st.synced + 1..x.last
    /\ x.pc \in {"ending", "ended"} => x.over /\ st.synced = x.last
    /\ x.dir = "spill" /\ x.pc # "idle" => x.run \in {0, 1}

PassAt == Stands(syncer, syncState[syncer.dir], lines[syncer.dir])

\* What is on disk about the passes before.
OnDisk ==
    /\ \A d \in Dirs :
          /\ syncState[d].synced <= Len(lines[d])
          /\ \A i \in 1..syncState[d].synced : ~lines[d][i].finish
          /\ syncState[d].run = 0 => syncState[d].synced = 0 /\ ~syncState[d].done
          /\ syncState[d].done => lines[d] # <<>> /\ lines[d][Len(lines[d])].finish
          /\ \A i \in 1..Len(lines[d]) : (i <= syncState[d].synced \/ syncState[d].done) =>
                syncState[d].run # 0 /\ lines[d][i].pts \subseteq received[syncState[d].run]
    /\ syncState["spill"].run \in {0, 1}

\* The points of an offline directory go to the run its state file names.
OneRun ==
    \A d \in OfflineDirs :
        /\ \A q \in calls : q.pts \cap PointsOf(d) # {} => q.run = syncState[d].run
        /\ \A n \in RunNames : received[n] \cap PointsOf(d) # {} => n = syncState[d].run

\* Every request has a client that waits for it, no timer outlived finish(), and
\* the run is the shim's alone.
Undisturbed ==
    /\ ~budget.abandoned /\ ~budget.late
    /\ \A d \in OfflineDirs : syncState[d].run # 1

\* How the run got finished: by the shim's request with nothing spilled, or by
\* the replay of the spill directory once that is complete.
FinishedBy ==
    /\ ~budget.abandoned => \A q \in calls : q.awaited
    /\ Undisturbed =>
          /\ lines["spill"] = <<>> =>
                /\ shim.finishOK /\ shim.pc \in {"spilled", "done"} => runStatus[1] = "finished"
                /\ \A q \in calls : q.from = "shim" /\ q.kind = "finish" /\ q.pc = "answer" =>
                      runStatus[1] = "finished"
          /\ syncer.dir = "spill" =>
                /\ syncer.pc = "ended" => runStatus[1] = "finished"
                /\ \A q \in calls : q.from = "sync" /\ q.kind = "finish" /\ q.pc = "answer" =>
                      runStatus[1] = "finished"
          /\ syncState["spill"].done => runStatus[1] = "finished"

DeliveryInv ==
    /\ DeliveryTypes /\ LinesEnd /\ ShimWaits /\ Inserted /\ SyncWaits /\ PassAt /\ OnDisk
    /\ OneRun /\ PointsSurvive /\ FinishedBy

(***************************************************************************)
(* The data.                                                               *)
(***************************************************************************)

\* What a sequence holds, and what an append and a concatenation add to it.
LEMMA Elements ==
  ASSUME NEW S, NEW s \in Seq(S), NEW t \in Seq(S), NEW e \in S
  PROVE  /\ ToSet(s) = {s[i] : i \in 1..Len(s)} /\ ToSet(s) \subseteq S
         /\ ToSet(Append(s, e)) = ToSet(s) \cup {e}
         /\ ToSet(s \o t) = ToSet(s) \cup ToSet(t)
<1>1. \A u \in Seq(S) : ToSet(u) = {u[i] : i \in 1..Len(u)} /\ ToSet(u) \subseteq S
  BY LenProperties, ElementOfSeq DEF ToSet
<1>2. ToSet(Append(s, e)) = ToSet(s) \cup {e}
  <2> DEFINE a == Append(s, e)
  <2>1. a \in Seq(S) /\ Len(a) = Len(s) + 1 /\ (\A i \in 1..Len(s) : a[i] = s[i]) /\ a[Len(s) + 1] = e
    BY AppendProperties
  <2>2. ToSet(a) = {a[i] : i \in 1..Len(a)}
    BY <2>1, <1>1
  <2>3. ToSet(s) = {s[i] : i \in 1..Len(s)} /\ Len(s) \in Nat
    BY <1>1, LenProperties
  <2> HIDE DEF a
  <2> QED
    BY <2>1, <2>2, <2>3 DEF a
<1>3. ToSet(s \o t) = ToSet(s) \cup ToSet(t)
  <2> DEFINE a == s \o t
  <2>1. a \in Seq(S) /\ Len(a) = Len(s) + Len(t)
        /\ \A i \in 1..Len(s) + Len(t) : a[i] = IF i <= Len(s) THEN s[i] ELSE t[i - Len(s)]
    BY ConcatProperties
  <2>2. ToSet(a) = {a[i] : i \in 1..Len(a)} /\ ToSet(s) = {s[i] : i \in 1..Len(s)}
        /\ ToSet(t) = {t[i] : i \in 1..Len(t)}
    BY <2>1, <1>1
  <2>3. Len(s) \in Nat /\ Len(t) \in Nat
    BY LenProperties
  <2> HIDE DEF a
  <2>4. \A i \in 1..Len(t) : i + Len(s) \in 1..Len(a) /\ a[i + Len(s)] = t[i]
    <3> SUFFICES ASSUME NEW i \in 1..Len(t)
                 PROVE i + Len(s) \in 1..Len(a) /\ a[i + Len(s)] = t[i]
      OBVIOUS
    <3>1. i + Len(s) \in 1..Len(s) + Len(t) /\ ~(i + Len(s) <= Len(s))
          /\ (i + Len(s)) - Len(s) = i
      BY <2>3
    <3> QED
      BY <3>1, <2>1
  <2>5. \A i \in 1..Len(s) : i \in 1..Len(a) /\ a[i] = s[i]
    BY <2>1, <2>3
  <2>6. \A i \in 1..Len(a) : a[i] \in ToSet(s) \cup ToSet(t)
    <3> SUFFICES ASSUME NEW i \in 1..Len(a) PROVE a[i] \in ToSet(s) \cup ToSet(t)
      OBVIOUS
    <3>1. CASE i <= Len(s)
      BY <3>1, <2>1, <2>2, <2>3
    <3>2. CASE ~(i <= Len(s))
      <4>1. i - Len(s) \in 1..Len(t) /\ a[i] = t[i - Len(s)]
        BY <3>2, <2>1, <2>3
      <4> QED
        BY <4>1, <2>2
    <3> QED
      BY <3>1, <3>2
  <2> QED
    BY <2>2, <2>4, <2>5, <2>6 DEF a
<1> QED
  BY <1>1, <1>2, <1>3

\* A sequence cut after its first k elements.
LEMMA Split ==
  ASSUME NEW S, NEW s \in Seq(S), NEW k \in Nat
  PROVE  LET front == SubSeq(s, 1, IF Len(s) < k THEN Len(s) ELSE k)
             back == SubSeq(s, k + 1, Len(s))
         IN /\ front \in Seq(S) /\ back \in Seq(S)
            /\ Len(back) = IF k <= Len(s) THEN Len(s) - k ELSE 0
            /\ ToSet(front) \cup ToSet(back) = ToSet(s)
<1> DEFINE n == Len(s)
           m == IF n < k THEN n ELSE k
           front == SubSeq(s, 1, m)
           back == SubSeq(s, k + 1, n)
<1>1. n \in Nat /\ m \in 0..n /\ m <= k /\ (m # k => m = n)
  BY LenProperties
<1>2. \A i \in 1..n : s[i] \in S
  BY ElementOfSeq
<1> HIDE DEF n, m
<1>3. back \in Seq(S) /\ Len(back) = (IF k + 1 <= n THEN n - (k + 1) + 1 ELSE 0)
      /\ \A i \in 1..n - (k + 1) + 1 : back[i] = s[k + 1 + i - 1]
  <2>1. k + 1 \in Int /\ n \in Int /\ \A i \in k + 1..n : s[i] \in S
    BY <1>1, <1>2
  <2> QED
    BY <2>1, SubSeqProperties
<1>4. front \in Seq(S) /\ Len(front) = (IF 1 <= m THEN m - 1 + 1 ELSE 0)
      /\ \A i \in 1..m - 1 + 1 : front[i] = s[1 + i - 1]
  <2>1. 1 \in Int /\ m \in Int /\ \A i \in 1..m : s[i] \in S
    BY <1>1, <1>2
  <2> QED
    BY <2>1, SubSeqProperties
<1> HIDE DEF back, front
<1>5. Len(back) = (IF k <= n THEN n - k ELSE 0) /\ (\A i \in 1..n - k : back[i] = s[k + i])
      /\ Len(front) = m /\ \A i \in 1..m : front[i] = s[i]
  <2>1. Len(back) = (IF k <= n THEN n - k ELSE 0) /\ Len(front) = m
    BY <1>1, <1>3, <1>4
  <2>2. \A i \in 1..n - k : back[i] = s[k + i]
    <3> SUFFICES ASSUME NEW i \in 1..n - k PROVE back[i] = s[k + i]
      OBVIOUS
    <3>1. i \in 1..n - (k + 1) + 1 /\ k + 1 + i - 1 = k + i
      BY <1>1
    <3> QED
      BY <3>1, <1>3
  <2>3. \A i \in 1..m : front[i] = s[i]
    <3> SUFFICES ASSUME NEW i \in 1..m PROVE front[i] = s[i]
      OBVIOUS
    <3>1. i \in 1..m - 1 + 1 /\ 1 + i - 1 = i
      BY <1>1
    <3> QED
      BY <3>1, <1>4
  <2> QED
    BY <2>1, <2>2, <2>3
<1>6. ToSet(back) = {back[i] : i \in 1..Len(back)} /\ ToSet(front) = {front[i] : i \in 1..Len(front)}
      /\ ToSet(s) = {s[i] : i \in 1..n}
  <2>1. \A u \in Seq(S) : ToSet(u) = {u[i] : i \in 1..Len(u)}
    BY LenProperties DEF ToSet
  <2> QED
    BY <2>1, <1>3, <1>4 DEF n
<1>7. ToSet(front) \cup ToSet(back) = ToSet(s)
  <2>1. \A i \in 1..n : i \in 1..m \/ (i - k \in 1..Len(back) /\ i - k \in 1..n - k /\ k + (i - k) = i)
    BY <1>1, <1>5
  <2>2. \A i \in 1..n : s[i] \in ToSet(front) \cup ToSet(back)
    BY <2>1, <1>5, <1>6
  <2>3. \A i \in 1..Len(back) : i \in 1..n - k /\ k + i \in 1..n
    BY <1>1, <1>5
  <2>4. \A i \in 1..m : i \in 1..n
    BY <1>1
  <2> QED
    BY <2>2, <2>3, <2>4, <1>5, <1>6
<1> QED
  BY <1>3, <1>4, <1>5, <1>7 DEF front, back, n, m

\* The buffer after a failed batch keeps to the cap, and what it does not keep is
\* what is spilled: nothing, if it fits.
LEMMA BatchPutBack ==
  ASSUME NEW S, NEW s \in Seq(S), NEW t \in Seq(S), BufferMax \in Nat
  PROVE  LET buf == s \o t
             kept == SubSeq(buf, Overflow(buf) + 1, Len(buf))
             gone == SubSeq(buf, 1, Overflow(buf))
         IN /\ kept \in Seq(S) /\ gone \in Seq(S) /\ Len(kept) <= BufferMax
            /\ ToSet(kept) \cup ToSet(gone) = ToSet(s) \cup ToSet(t)
            /\ Len(s) + Len(t) <= BufferMax => ToSet(gone) = {}
<1> DEFINE buf == s \o t
           n == Len(buf)
           k == Overflow(buf)
           kept == SubSeq(buf, k + 1, n)
           gone == SubSeq(buf, 1, k)
<1>1. buf \in Seq(S) /\ n \in Nat /\ n = Len(s) + Len(t)
  BY ConcatProperties, LenProperties
<1>2. k \in Nat /\ k <= n /\ (n - k <= BufferMax) /\ (n <= BufferMax => k = 0)
  BY <1>1 DEF Overflow
<1> HIDE DEF k, buf, n
<1>3. k = IF n < k THEN n ELSE k
  BY <1>1, <1>2
<1>4. kept \in Seq(S) /\ gone \in Seq(S) /\ Len(kept) = n - k
      /\ ToSet(kept) \cup ToSet(gone) = ToSet(buf)
  BY <1>1, <1>2, <1>3, Split DEF n
<1>5. n <= BufferMax => ToSet(gone) = {}
  <2>1. \A u \in Seq(S) : SubSeq(u, 1, 0) = <<>>
    BY SubSeqProperties
  <2>2. ToSet(<<>>) = {}
    BY DEF ToSet
  <2> QED
    BY <1>1, <1>2, <2>1, <2>2
<1>6. ToSet(buf) = ToSet(s) \cup ToSet(t)
  <2>1. \A e \in S : ToSet(s \o t) = ToSet(s) \cup ToSet(t)
    BY Elements
  <2>2. CASE S = {}
    <3>1. s = <<>> /\ t = <<>>
      BY <2>2, EmptySeq, ElementOfSeq
    <3> QED
      BY <3>1 DEF buf, ToSet
  <2> QED
    BY <2>1, <2>2 DEF buf
<1> QED
  BY <1>1, <1>2, <1>4, <1>5, <1>6 DEF kept, gone, buf, n, k

\* What is sent is the chunk under way and what is left for the requests after it.
LEMMA ChunkAndRest ==
  ASSUME NEW S, NEW s \in Seq(S)
  PROVE  /\ Chunk(s) \in Seq(S) /\ Rest(s) \in Seq(S)
         /\ Len(Rest(s)) \in Nat /\ Len(Rest(s)) <= Len(s)
         /\ ToSet(Chunk(s)) \cup ToSet(Rest(s)) = ToSet(s)
<1>1. PerRequest \in Nat /\ Len(s) \in Nat
  BY DeliveryAssumption, LenProperties
<1> QED
  BY <1>1, Split, LenProperties DEF Chunk, Rest

\* Run names, and whose points are whose.
LEMMA Names ==
  /\ 1 \in RunNames /\ 0 \notin RunNames /\ RunNames \subseteq Nat
  /\ "spill" \in Dirs /\ OfflineDirs \subseteq Dirs
  /\ \A d \in Dirs : PointsOf(d) \subseteq LoggedPoints
  /\ \A d, e \in Dirs : d # e => PointsOf(d) \cap PointsOf(e) = {}
<1>1. Cardinality(OfflineDirs) \in Nat
  BY DeliveryAssumption, FS_CardinalityType
<1>2. 1 \in RunNames /\ 0 \notin RunNames /\ RunNames \subseteq Nat
  BY <1>1 DEF RunNames
<1>3. \A d \in Dirs : PointsOf(d) \subseteq LoggedPoints
  BY DEF PointsOf, LoggedPoints, Dirs
<1>4. \A d, e \in Dirs : d # e => PointsOf(d) \cap PointsOf(e) = {}
  BY DeliveryAssumption DEF PointsOf, Dirs
<1> QED
  BY <1>2, <1>3, <1>4 DEF Dirs

\* Two requests of one client for the same thing.
Same(q, r) ==
    r.from = q.from /\ r.kind = q.kind /\ r.run = q.run /\ r.pts = q.pts /\ r.want = q.want

\* A handler that got on is the same request, still waited for or not.
LEMMA Advanced ==
  ASSUME NEW q \in CallState, NEW pc \in {"load", "upsert", "insert", "count", "answer"}
  PROVE  /\ [q EXCEPT !.pc = pc] \in CallState
         /\ Same(q, [q EXCEPT !.pc = pc]) /\ [q EXCEPT !.pc = pc].awaited = q.awaited
         /\ [q EXCEPT !.pc = pc].pc = pc
BY DEF CallState, Same

\* A request nobody waits for any more.
LEMMA Abandoned ==
  ASSUME NEW q \in CallState
  PROVE  /\ [q EXCEPT !.awaited = FALSE] \in CallState
         /\ Same(q, [q EXCEPT !.awaited = FALSE]) /\ ~[q EXCEPT !.awaited = FALSE].awaited
         /\ [q EXCEPT !.awaited = FALSE].pc = q.pc
BY DEF CallState, Same

\* When a client dies its requests go on, and nobody waits for them.
LEMMA Orphans ==
  ASSUME calls \subseteq CallState, NEW from, NEW r \in Orphaned(from)
  PROVE  /\ r \in CallState
         /\ \E q \in calls : Same(q, r) /\ r.pc = q.pc
         /\ r.awaited => r \in calls /\ r.from # from
<1>1. PICK q \in calls : r = [q EXCEPT !.awaited = @ /\ q.from # from]
  BY DEF Orphaned
<1>2. q \in CallState
  OBVIOUS
<1>3. PICK a \in BOOLEAN : a = (q.awaited /\ q.from # from)
  OBVIOUS
<1>4. r = [q EXCEPT !.awaited = a]
  BY <1>1, <1>3, Zenon
<1>5. r \in CallState /\ Same(q, r) /\ r.pc = q.pc /\ r.awaited = a
  BY <1>2, <1>4 DEF CallState, Same
<1>6. a => r = q
  <2> SUFFICES ASSUME a PROVE r = q
    OBVIOUS
  <2>1. a = TRUE /\ q.awaited = TRUE
    BY <1>3, <1>2 DEF CallState
  <2> QED
    BY <2>1, <1>4, <1>2 DEF CallState
<1> QED
  BY <1>3, <1>5, <1>6 DEF Same

(***************************************************************************)
(* What a client hears of its request.                                     *)
(***************************************************************************)

\* Points given to the disk are in the spill directory or said to be dropped.
SpillOutcome(s, pts, b) ==
    /\ \E x \in {"none", "open", "unavailable"} : \E D \in SUBSET PointsOf("spill") :
          /\ shim' = [s EXCEPT !.spill = x, !.dropped = D]
          /\ s.dropped \subseteq D
          /\ \/ pts \subseteq D
             \/ pts # {} /\ lines' = [lines EXCEPT !["spill"] = Append(@, LogLine(pts))]
    /\ \/ UNCHANGED lines
       \/ pts # {} /\ lines' = [lines EXCEPT !["spill"] = Append(@, LogLine(pts))]
    /\ budget' \in {b, [b EXCEPT !.refusals = @ + 1]}

\* Whether the disk takes them or not.
LEMMA SpillsEnds ==
  ASSUME NEW s \in ShimState, NEW pts \in SUBSET PointsOf("spill"), NEW b, Spills(s, pts, b)
  PROVE  SpillOutcome(s, pts, b)
<1>1. s.spill \in {"none", "open", "unavailable"} /\ s.dropped \in SUBSET PointsOf("spill")
      /\ s.dropped \cup pts \in SUBSET PointsOf("spill")
  BY DEF ShimState
<1>2. \A x : s = [s EXCEPT !.spill = s.spill, !.dropped = s.dropped]
              /\ [s EXCEPT !.spill = x] = [s EXCEPT !.spill = x, !.dropped = s.dropped]
  BY DEF ShimState
<1>3. \A x : Dropped(s, pts) = [s EXCEPT !.spill = s.spill, !.dropped = s.dropped \cup pts]
              /\ [Dropped(s, pts) EXCEPT !.spill = x]
                   = [s EXCEPT !.spill = x, !.dropped = s.dropped \cup pts]
  BY DEF Dropped, ShimState
<1>4. CASE pts = {} /\ shim' = s /\ budget' = b /\ UNCHANGED lines
  BY <1>1, <1>2, <1>4 DEF SpillOutcome
<1>5. CASE /\ pts # {} /\ s.spill # "unavailable"
           /\ lines' = [lines EXCEPT !["spill"] = Append(@, LogLine(pts))]
           /\ shim' = [s EXCEPT !.spill = "open"] /\ budget' = b
  BY <1>1, <1>2, <1>5 DEF SpillOutcome
<1>6. CASE shim' = Dropped(s, pts) /\ budget' = b /\ UNCHANGED lines
  BY <1>1, <1>3, <1>6 DEF SpillOutcome
<1>7. CASE /\ budget' = [b EXCEPT !.refusals = @ + 1] /\ UNCHANGED lines
           /\ \E spill \in {"open", IF s.spill = "none" THEN "unavailable" ELSE "open"} :
                shim' = [Dropped(s, pts) EXCEPT !.spill = spill]
  <2>1. PICK x \in {"open", IF s.spill = "none" THEN "unavailable" ELSE "open"} :
           shim' = [Dropped(s, pts) EXCEPT !.spill = x]
    BY <1>7
  <2>2. x \in {"none", "open", "unavailable"}
    OBVIOUS
  <2>3. shim' = [s EXCEPT !.spill = x, !.dropped = s.dropped \cup pts]
    BY <1>3, <2>1
  <2> QED
    BY <1>1, <1>7, <2>2, <2>3 DEF SpillOutcome
<1> QED
  BY <1>4, <1>5, <1>6, <1>7 DEF Spills

\* A client hears of q, which it waited for: the shim may go on to the next chunk.
Ended(q, outcome, b) ==
    /\ q.awaited /\ Heard(q, outcome, b)
    /\ UNCHANGED <<syncState, runStatus, received>>
    /\ b \in BudgetState /\ b.late = budget.late /\ (budget.abandoned => b.abandoned)
    /\ \/ outcome = "sent" /\ q.pc = "answer" /\ calls' = (calls \ {q}) \cup NextChunk(q)
       \/ outcome \in {"retry", "drop"} /\ calls' = calls \ {q}
       \/ /\ outcome = "retry" /\ b.abandoned
          /\ calls' = (calls \ {q}) \cup {[q EXCEPT !.awaited = FALSE]}

LEMMA EndedMoves ==
  ASSUME DeliveryTypes, NEW q \in calls, Answer(q) \/ LoseCall(q) \/ RefuseCall(q) \/ TimeOut(q)
  PROVE  \E outcome \in {"sent", "retry", "drop"} : \E b : Ended(q, outcome, b)
<1>8. budget \in BudgetState
  BY DEF DeliveryTypes
<1>1. /\ budget \in BudgetState
      /\ [budget EXCEPT !.refusals = @ + 1] \in BudgetState
      /\ [budget EXCEPT !.refusals = @ + 1].abandoned = budget.abandoned
      /\ [budget EXCEPT !.refusals = @ + 1].late = budget.late
  BY <1>8 DEF BudgetState
<1>2. Mishap \in BudgetState /\ Mishap.abandoned = budget.abandoned /\ Mishap.late = budget.late
  BY <1>1 DEF BudgetState, Mishap
<1> DEFINE m == [Mishap EXCEPT !.abandoned = TRUE]
<1>3. m \in BudgetState /\ m.abandoned /\ m.late = budget.late
  BY <1>2 DEF BudgetState
<1>4. CASE Answer(q)
  <2>1. Ended(q, "sent", budget)
    BY <1>1, <1>4 DEF Answer, Ended
  <2> QED
    BY <2>1
<1>5. CASE LoseCall(q)
  <2>1. Ended(q, "retry", Mishap)
    BY <1>2, <1>5 DEF LoseCall, Ended
  <2> QED
    BY <2>1
<1>6. CASE RefuseCall(q)
  <2>1. Ended(q, "drop", [budget EXCEPT !.refusals = @ + 1])
    BY <1>1, <1>6 DEF RefuseCall, Ended
  <2> QED
    BY <2>1
<1>7. CASE TimeOut(q)
  <2>1. Heard(q, "retry", m) /\ q.awaited /\ UNCHANGED <<syncState, runStatus, received>>
        /\ calls' = (calls \ {q}) \cup {[q EXCEPT !.awaited = FALSE]}
    BY <1>7 DEF TimeOut
  <2> HIDE DEF m
  <2>2. Ended(q, "retry", m)
    BY <1>3, <2>1 DEF Ended
  <2> QED
    BY <2>2
<1> QED
  BY <1>4, <1>5, <1>6, <1>7

\* The budget of a step, whether or not the disk refused a write.
LEMMA SpillsBudget ==
  ASSUME NEW s, NEW pts, NEW b \in BudgetState, Spills(s, pts, b)
  PROVE  budget' \in BudgetState /\ budget'.abandoned = b.abandoned /\ budget'.late = b.late
<1>1. budget' = b \/ budget' = [b EXCEPT !.refusals = @ + 1]
  BY DEF Spills
<1> QED
  BY <1>1 DEF BudgetState

LEMMA HeardBudget ==
  ASSUME NEW q, NEW outcome, NEW b \in BudgetState, Heard(q, outcome, b)
  PROVE  budget' \in BudgetState /\ budget'.abandoned = b.abandoned /\ budget'.late = b.late
<1>1. budget' = b \/ \E s, pts : Spills(s, pts, b)
  BY DEF Heard, ShimHears
<1> QED
  BY <1>1, SpillsBudget

\* What disturbed a run is not forgotten.
LEMMA BudgetMoves ==
  ASSUME DeliveryTypes, DeliveryNext
  PROVE  /\ budget' \in BudgetState
         /\ budget.abandoned => budget'.abandoned
         /\ budget.late => budget'.late
<1>1. budget \in BudgetState
  BY DEF DeliveryTypes
<1>2. ASSUME NEW from, budget' = AfterKill(from)
      PROVE  /\ budget' \in BudgetState /\ (budget.abandoned => budget'.abandoned)
             /\ budget'.late = budget.late
  <2>1. PICK a \in BOOLEAN : a = (budget.abandoned \/ \E q \in calls : q.from = from)
    OBVIOUS
  <2>2. budget' = [budget EXCEPT !.mishaps = budget.mishaps + 1, !.abandoned = a]
    BY <1>2, <2>1, Zenon DEF AfterKill
  <2>3. (budget.abandoned => a) /\ a \in BOOLEAN
    BY <2>1
  <2>4. budget'.abandoned = a /\ budget'.late = budget.late
    BY <1>1, <2>2 DEF BudgetState
  <2>5. budget' \in BudgetState
    <3>1. PICK m \in Nat : m = budget.mishaps + 1
      BY <1>1 DEF BudgetState
    <3>2. budget' = [budget EXCEPT !.mishaps = m, !.abandoned = a]
      BY <2>2, <3>1
    <3> QED
      BY <1>1, <3>2 DEF BudgetState
  <2> QED
    BY <2>3, <2>4, <2>5, Zenon
<1>3. CASE ShimDies \/ SyncerDies
  BY <1>2, <1>3 DEF ShimDies, SyncerDies
<1>4. CASE Ping
  BY <1>1, <1>4 DEF Ping, BudgetState
<1>5. CASE LateTick
  BY <1>1, <1>5 DEF LateTick, BudgetState
<1>6. CASE EndDrain
  <2>1. UNCHANGED budget \/ \E s, pts : Spills(s, pts, budget)
    BY <1>6 DEF EndDrain
  <2> QED
    BY <1>1, <2>1, SpillsBudget
<1>7. CASE CloseSpill
  BY <1>1, <1>7 DEF CloseSpill, BudgetState
<1>8. ASSUME NEW q \in calls, Answer(q) \/ LoseCall(q) \/ RefuseCall(q) \/ TimeOut(q)
      PROVE  /\ budget' \in BudgetState /\ (budget.abandoned => budget'.abandoned)
             /\ budget'.late = budget.late
  BY <1>8, EndedMoves, HeardBudget DEF Ended
<1>9. CASE UNCHANGED budget
  BY <1>1, <1>9
<1>10. ASSUME NEW q \in calls, Handle(q) \/ Unheard(q) PROVE UNCHANGED budget
  BY <1>10 DEF Handle, LoadRun, UpsertStatus, InsertBatch, UpsertCounters, Unheard
<1> QED
  BY <1>3, <1>4, <1>5, <1>6, <1>7, <1>8, <1>9, <1>10 DEF DeliveryNext, Shimming, WriteOffline, Syncing,
     LogPoint, FlushBuffer, FinishRun, DrainFlush, PostFinish, OpenDir, ResolveRunName,
     RecordRunName, SendBatch, SendFinish, WriteCursor, WriteDone

(***************************************************************************)
(* Directories only grow.                                                  *)
(***************************************************************************)

\* A step leaves run.jsonl of every directory alone or appends one line to a
\* directory that has no finish record; only CloseSpill finishes the spill.
LinesStep ==
    \/ UNCHANGED lines
    \/ \E d \in Dirs : \E x \in LineState :
          /\ lines' = [lines EXCEPT ![d] = Append(@, x)]
          /\ \A i \in 1..Len(lines[d]) : ~lines[d][i].finish
          /\ x.pts \subseteq PointsOf(d) /\ (x.finish => x.pts = {})
          /\ d = "spill" => (x.finish => shim'.pc = "done")

\* Every step of the system is such a step.
LEMMA LinesMove ==
  ASSUME DeliveryTypes, LinesEnd, ShimWaits, DeliveryNext
  PROVE  LinesStep /\ (shim.pc = "done" => shim'.pc = "done")
<1>1. ASSUME NEW pts \in SUBSET PointsOf("spill"), pts # {} => shim.pc # "done",
             \/ UNCHANGED lines
             \/ pts # {} /\ lines' = [lines EXCEPT !["spill"] = Append(@, LogLine(pts))]
      PROVE  LinesStep
  <2>1. CASE UNCHANGED lines
    BY <2>1 DEF LinesStep
  <2>2. CASE pts # {} /\ lines' = [lines EXCEPT !["spill"] = Append(@, LogLine(pts))]
    <3> DEFINE x == LogLine(pts)
    <3>1. x \in LineState /\ x.pts = pts /\ ~x.finish
      BY Names DEF LogLine, LineState
    <3>2. lines' = [lines EXCEPT !["spill"] = Append(@, x)]
      BY <2>2
    <3>3. \A i \in 1..Len(lines["spill"]) : ~lines["spill"][i].finish
      BY <1>1, <2>2 DEF LinesEnd
    <3> HIDE DEF x
    <3> QED
      BY <3>1, <3>2, <3>3, Names DEF LinesStep
  <2> QED
    BY <1>1, <2>1, <2>2
<1>2. shim \in ShimState /\ ToSet(shim.buf) \subseteq PointsOf("spill")
      /\ ToSet(shim.sending) \subseteq PointsOf("spill")
  <2>1. shim.buf \in Seq(PointsOf("spill")) /\ shim.sending \in Seq(PointsOf("spill"))
        /\ shim \in ShimState
    BY DEF DeliveryTypes, ShimTyped, ShimState
  <2>2. \A s \in Seq(PointsOf("spill")) : ToSet(s) \subseteq PointsOf("spill")
    BY LenProperties, ElementOfSeq DEF ToSet
  <2> QED
    BY <2>1, <2>2
<1>3. CASE EndDrain
  <2> DEFINE s == [shim EXCEPT !.pc = "closing", !.buf = <<>>]
  <2>1. shim.pc = "drained" /\ (UNCHANGED lines \/ Spills(s, ToSet(shim.buf), budget))
    BY <1>3 DEF EndDrain
  <2>2. s \in ShimState
    BY <1>2, EmptySeq DEF ShimState
  <2> HIDE DEF s
  <2>3. Spills(s, ToSet(shim.buf), budget) => SpillOutcome(s, ToSet(shim.buf), budget)
    BY <1>2, <2>2, SpillsEnds
  <2> QED
    BY <2>1, <2>3, <1>1, <1>2 DEF LinesStep, SpillOutcome
<1>4. CASE CloseSpill
  <2>1. shim.pc = "spilled" /\ shim'.pc = "done"
    BY <1>4, <1>2 DEF CloseSpill, ShimState
  <2>2. CASE UNCHANGED lines
    BY <2>1, <2>2 DEF LinesStep
  <2>3. CASE lines' = [lines EXCEPT !["spill"] = Append(@, FinishLine)]
    <3>1. FinishLine \in LineState /\ FinishLine.pts = {}
      BY DEF FinishLine, LineState
    <3>2. \A i \in 1..Len(lines["spill"]) : ~lines["spill"][i].finish
      BY <2>1 DEF LinesEnd
    <3> QED
      BY <2>1, <2>3, <3>1, <3>2, Names DEF LinesStep
  <2> QED
    BY <1>4, <2>1, <2>2, <2>3 DEF CloseSpill
<1>5. ASSUME NEW d \in OfflineDirs, WriteOffline(d) PROVE LinesStep /\ UNCHANGED shim
  <2> DEFINE n == Len(lines[d]) + 1
             x == IF n > MaxOffline THEN FinishLine ELSE LogLine({<<d, n>>})
  <2>1. lines[d] \in Seq(LineState) /\ d \in Dirs /\ d # "spill"
    BY DeliveryAssumption DEF DeliveryTypes, Dirs
  <2>2. n \in Nat /\ n >= 1 /\ MaxOffline \in Nat
    BY <2>1, LenProperties, DeliveryAssumption
  <2>3. lines' = [lines EXCEPT ![d] = Append(@, x)]
    BY <1>5 DEF WriteOffline
  <2>4. \A i \in 1..Len(lines[d]) : ~lines[d][i].finish
    BY <1>5, <2>1, LenProperties DEF WriteOffline
  <2> HIDE DEF n
  <2>5. x \in LineState /\ x.pts \subseteq PointsOf(d) /\ (x.finish => x.pts = {})
    <3>1. CASE n > MaxOffline
      BY <3>1 DEF FinishLine, LineState
    <3>2. CASE ~(n > MaxOffline)
      <4>1. {<<d, n>>} \subseteq PointsOf(d)
        BY <3>2, <2>2, <2>1 DEF PointsOf
      <4>2. {<<d, n>>} \subseteq LoggedPoints
        BY <4>1, <2>1, Names
      <4> QED
        BY <3>2, <4>1, <4>2 DEF LogLine, LineState
    <3> QED
      BY <3>1, <3>2
  <2> HIDE DEF x
  <2> QED
    BY <2>1, <2>3, <2>4, <2>5, <1>5 DEF LinesStep, WriteOffline
<1>6. ASSUME NEW q \in calls, q.awaited, NEW outcome, NEW b, Heard(q, outcome, b)
      PROVE  LinesStep /\ (shim.pc = "done" => shim'.pc = "done")
  <2>1. CASE q.from # "shim"
    BY <1>6, <2>1 DEF Heard, LinesStep
  <2>2. CASE q.from = "shim"
    <3> DEFINE s == [shim EXCEPT !.lock = "free"]
               pts == Evicted(s)
    <3>1. ShimHears(q, outcome, b) /\ (q.kind = "finish" => shim.pc # "done")
      BY <1>6, <2>2 DEF Heard, ShimWaits, Awaited
    <3>2. s \in ShimState /\ s.pc = shim.pc /\ s.sending = shim.sending /\ s.buf = shim.buf
      BY <1>2 DEF ShimState
    <3>3. CASE UNCHANGED lines /\ ~Spills(PutBack(s), pts, b)
      <4>1. q.kind = "finish" \/ shim'.pc = shim.pc
        BY <1>2, <3>1, <3>2, <3>3 DEF ShimHears, ShimState, Sent, Dropped
      <4> QED
        BY <3>1, <3>3, <4>1 DEF LinesStep
    <3>4. CASE Spills(PutBack(s), pts, b)
      <4>1. s.sending \in Seq(PointsOf("spill")) /\ s.buf \in Seq(PointsOf("spill"))
            /\ BufferMax \in Nat
        BY <3>2, DeliveryAssumption DEF ShimState
      <4> HIDE DEF s, pts
      <4>2. pts \subseteq PointsOf("spill")
            /\ (Len(s.sending) + Len(s.buf) <= BufferMax => pts = {})
        <5> DEFINE gone == SubSeq(s.sending \o s.buf, 1, Overflow(s.sending \o s.buf))
        <5>1. gone \in Seq(PointsOf("spill"))
              /\ (Len(s.sending) + Len(s.buf) <= BufferMax => ToSet(gone) = {})
          BY <4>1, BatchPutBack
        <5>2. pts = ToSet(gone)
          BY DEF Evicted, pts
        <5>3. \A u \in Seq(PointsOf("spill")) : ToSet(u) \subseteq PointsOf("spill")
          BY LenProperties, ElementOfSeq DEF ToSet
        <5> HIDE DEF gone
        <5> QED
          BY <5>1, <5>2, <5>3
      <4>3. pts # {} => shim.pc # "done"
        BY <3>2, <4>2 DEF ShimWaits, Capped
      <4>4. PutBack(s) \in ShimState /\ PutBack(s).pc = shim.pc
        <5> DEFINE buf == s.sending \o s.buf
                   kept == SubSeq(buf, Overflow(buf) + 1, Len(buf))
        <5>1. kept \in Seq(PointsOf("spill")) /\ <<>> \in Seq(PointsOf("spill"))
          BY <4>1, BatchPutBack, EmptySeq
        <5>2. PutBack(s) = [s EXCEPT !.buf = kept, !.sending = <<>>]
          BY DEF PutBack
        <5> HIDE DEF kept
        <5> QED
          BY <3>2, <5>1, <5>2 DEF ShimState
      <4>5. SpillOutcome(PutBack(s), pts, b)
        BY <3>4, <4>2, <4>4, SpillsEnds
      <4>6. LinesStep
        BY <1>1, <4>2, <4>3, <4>5 DEF SpillOutcome
      <4>7. shim'.pc = shim.pc
        BY <4>4, <4>5 DEF SpillOutcome, ShimState
      <4> QED
        BY <4>6, <4>7
    <3> QED
      BY <3>1, <3>3, <3>4 DEF ShimHears
  <2> QED
    BY <2>1, <2>2
<1>7. CASE LogPoint \/ FlushBuffer \/ LateTick \/ Ping \/ FinishRun \/ DrainFlush \/ PostFinish
  BY <1>7, <1>2 DEF LogPoint, FlushBuffer, LateTick, Flush, Ping, FinishRun, DrainFlush, PostFinish,
     LinesStep, ShimState
<1>8. CASE ShimDies \/ Syncing \/ SyncerDies
  BY <1>8 DEF ShimDies, Syncing, SyncerDies, OpenDir, ResolveRunName, RecordRunName, SendBatch,
     SendFinish, WriteCursor, WriteDone, LinesStep
<1>9. ASSUME NEW q \in calls, Handle(q) \/ Unheard(q) PROVE UNCHANGED <<lines, shim>>
  BY <1>9 DEF Handle, LoadRun, UpsertStatus, InsertBatch, UpsertCounters, Unheard
<1>10. ASSUME NEW q \in calls, Answer(q) \/ LoseCall(q) \/ RefuseCall(q) \/ TimeOut(q)
       PROVE  q.awaited /\ \E outcome, b : Heard(q, outcome, b)
  BY <1>10, EndedMoves DEF Ended
<1> QED
  BY <1>3, <1>4, <1>5, <1>6, <1>7, <1>8, <1>9, <1>10 DEF DeliveryNext, Shimming, LinesStep

\* What a reader of a directory has seen stays, and a directory with a finish
\* record is complete.
LEMMA LinesGrow ==
  ASSUME DeliveryTypes, LinesStep, NEW d \in Dirs
  PROVE  /\ lines[d] \in Seq(LineState) /\ lines'[d] \in Seq(LineState)
         /\ Len(lines[d]) \in Nat /\ Len(lines'[d]) \in Nat /\ Len(lines[d]) <= Len(lines'[d])
         /\ lines[d] # <<>> => lines'[d] # <<>>
         /\ \A i \in 1..Len(lines[d]) : lines'[d][i] = lines[d][i]
         /\ \A i \in 1..Len(lines[d]) : lines[d][i].finish => lines'[d] = lines[d]
         /\ \A i \in 1..Len(lines'[d]) : i > Len(lines[d]) =>
               /\ i = Len(lines'[d]) /\ lines'[d][i].pts \subseteq PointsOf(d)
               /\ \A j \in 1..Len(lines[d]) : ~lines[d][j].finish
               /\ lines'[d][i].finish => lines'[d][i].pts = {}
               /\ d = "spill" /\ lines'[d][i].finish => shim'.pc = "done"
<1>1. lines \in [Dirs -> Seq(LineState)] /\ lines[d] \in Seq(LineState) /\ Len(lines[d]) \in Nat
  BY LenProperties DEF DeliveryTypes
<1>2. CASE lines'[d] = lines[d]
  BY <1>1, <1>2
<1>3. CASE lines'[d] # lines[d]
  <2>1. PICK x \in LineState :
          /\ lines' = [lines EXCEPT ![d] = Append(@, x)]
          /\ \A i \in 1..Len(lines[d]) : ~lines[d][i].finish
          /\ x.pts \subseteq PointsOf(d) /\ (x.finish => x.pts = {})
          /\ d = "spill" => (x.finish => shim'.pc = "done")
    BY <1>1, <1>3 DEF LinesStep
  <2>2. lines'[d] = Append(lines[d], x)
    BY <1>1, <2>1
  <2>3. lines'[d] \in Seq(LineState) /\ lines'[d] # <<>> /\ Len(lines'[d]) = Len(lines[d]) + 1
        /\ (\A i \in 1..Len(lines[d]) : lines'[d][i] = lines[d][i])
        /\ lines'[d][Len(lines[d]) + 1] = x
    BY <1>1, <2>2, AppendProperties
  <2>4. \A i \in 1..Len(lines'[d]) : i > Len(lines[d]) => i = Len(lines[d]) + 1
    BY <1>1, <2>3
  <2> QED
    BY <1>1, <2>1, <2>3, <2>4
<1> QED
  BY <1>2, <1>3

\* A finish record stays the last line.
LEMMA LinesStayEnded ==
  ASSUME DeliveryTypes, LinesEnd, LinesStep, shim.pc = "done" => shim'.pc = "done"
  PROVE  LinesEnd'
<1>1. ASSUME NEW d \in Dirs, NEW i \in 1..Len(lines'[d])
      PROVE  /\ lines'[d][i].pts \subseteq PointsOf(d)
             /\ lines'[d][i].finish => i = Len(lines'[d]) /\ lines'[d][i].pts = {}
             /\ d = "spill" /\ lines'[d][i].finish => shim'.pc = "done"
  <2>1. CASE i > Len(lines[d])
    BY <2>1, LinesGrow
  <2>2. CASE ~(i > Len(lines[d]))
    <3>1. i \in 1..Len(lines[d]) /\ lines'[d][i] = lines[d][i]
          /\ (lines[d][i].finish => lines'[d] = lines[d])
      BY <2>2, LinesGrow
    <3> QED
      BY <3>1, <1>1 DEF LinesEnd
  <2> QED
    BY <2>1, <2>2
<1> QED
  BY <1>1, Names DEF LinesEnd, PointsOf

\* How many lines there are before the finish record, if there is one.
LEMMA CountLines ==
  ASSUME DeliveryTypes, LinesEnd, NEW d \in Dirs
  PROVE  /\ LogLines(d) \in Nat /\ LogLines(d) <= Len(lines[d])
         /\ \A i \in 1..LogLines(d) : ~lines[d][i].finish
         /\ LogLines(d) < Len(lines[d]) =>
              Len(lines[d]) = LogLines(d) + 1 /\ lines[d][LogLines(d) + 1].finish
<1> DEFINE n == Len(lines[d])
           L == {i \in DOMAIN lines[d] : ~lines[d][i].finish}
<1>1. n \in Nat /\ DOMAIN lines[d] = 1..n
  BY LenProperties DEF DeliveryTypes
<1>4. LogLines(d) = Cardinality(L)
  BY DEF LogLines
<1>2. CASE \E i \in 1..n : lines[d][i].finish
  <2>1. n \in 1..n /\ lines[d][n].finish /\ \A i \in 1..n : lines[d][i].finish => i = n
    BY <1>2, <1>1 DEF LinesEnd
  <2>2. L = 1..(n - 1)
    BY <2>1, <1>1
  <2> HIDE DEF L
  <2>3. Cardinality(1..(n - 1)) = n - 1
    BY <2>1, <1>1, FS_Interval
  <2> QED
    BY <2>1, <2>2, <2>3, <1>1, <1>4
<1>3. CASE ~\E i \in 1..n : lines[d][i].finish
  <2>1. L = 1..n
    BY <1>3, <1>1
  <2> HIDE DEF L
  <2>2. Cardinality(1..n) = n
    BY <1>1, FS_Interval
  <2> QED
    BY <2>1, <2>2, <1>1, <1>3, <1>4
<1> QED
  BY <1>2, <1>3

\* resolveRunName finds a name.
LEMMA Resolves ==
  ASSUME DeliveryTypes, NEW d \in Dirs
  PROVE  Resolved(d) \in RunNames /\ (d = "spill" => Resolved(d) = 1)
<1>1. CASE d = "spill"
  BY <1>1, Names DEF Resolved
<1>2. CASE d # "spill"
  <2> DEFINE T == {n \in RunNames : runStatus[n] = "none" \/ n = Cardinality(RunNames)}
  <2>1. Cardinality(OfflineDirs) \in Nat
    BY DeliveryAssumption, FS_CardinalityType
  <2>2. Cardinality(RunNames) = Cardinality(OfflineDirs) + 1
    BY <2>1, FS_Interval DEF RunNames
  <2>3. T # {} /\ T \subseteq Nat
    BY <2>1, <2>2 DEF RunNames
  <2>4. PICK t \in T : \A u \in T : ~(<<u, t>> \in OpToRel(<, Nat))
    BY <2>3, WFMin, NatLessThanWellFounded
  <2>5. \A m \in 1..t - 1 : m \in RunNames /\ m \notin T
    <3> SUFFICES ASSUME NEW m \in 1..t - 1 PROVE m \in RunNames /\ m \notin T
      OBVIOUS
    <3>1. t \in RunNames /\ t \in Nat /\ m \in Nat /\ m < t
      BY <2>3
    <3>2. m \in RunNames
      BY <3>1, <2>1 DEF RunNames
    <3>3. m \notin T
      BY <3>1, <2>4 DEF OpToRel
    <3> QED
      BY <3>2, <3>3
  <2>6. \E n \in RunNames :
            /\ runStatus[n] = "none" \/ n = Cardinality(RunNames)
            /\ \A m \in 1..n - 1 : runStatus[m] # "none"
    BY <2>5
  <2> HIDE DEF T
  <2> QED
    BY <1>2, <2>6 DEF Resolved
<1> QED
  BY <1>1, <1>2

(***************************************************************************)
(* Types.                                                                  *)
(***************************************************************************)

\* Spilling changes the state of the spill and the points dropped, nothing else.
LEMMA SpilledTyped ==
  ASSUME NEW s \in ShimState, NEW pts, NEW b, SpillOutcome(s, pts, b)
  PROVE  /\ shim' \in ShimState /\ shim'.pc = s.pc /\ shim'.buf = s.buf /\ shim'.sending = s.sending
         /\ shim'.logged = s.logged /\ shim'.tries = s.tries /\ shim'.lock = s.lock
         /\ shim'.finishOK = s.finishOK /\ s.dropped \subseteq shim'.dropped
<1>1. PICK x \in {"none", "open", "unavailable"}, D \in SUBSET PointsOf("spill") :
         shim' = [s EXCEPT !.spill = x, !.dropped = D] /\ s.dropped \subseteq D
  BY DEF SpillOutcome
<1>2. x \in {"none", "open", "unavailable"} /\ D \in SUBSET PointsOf("spill")
  OBVIOUS
<1> QED
  BY <1>1, <1>2 DEF ShimState

\* The failed batch put back, within the cap.
LEMMA PutBackTyped ==
  ASSUME NEW s \in ShimState
  PROVE  /\ PutBack(s) \in ShimState /\ Len(PutBack(s).buf) <= BufferMax /\ PutBack(s).sending = <<>>
         /\ PutBack(s).pc = s.pc /\ PutBack(s).logged = s.logged /\ PutBack(s).tries = s.tries
         /\ PutBack(s).lock = s.lock /\ PutBack(s).finishOK = s.finishOK
         /\ PutBack(s).dropped = s.dropped
         /\ Evicted(s) \subseteq PointsOf("spill")
         /\ ToSet(s.sending) \cup ToSet(s.buf) = ToSet(PutBack(s).buf) \cup Evicted(s)
<1> DEFINE S == PointsOf("spill")
           u == s.sending
           v == s.buf
           k == Overflow(u \o v)
           kept == SubSeq(u \o v, k + 1, Len(u \o v))
           gone == SubSeq(u \o v, 1, k)
<1>1. u \in Seq(S) /\ v \in Seq(S) /\ BufferMax \in Nat /\ <<>> \in Seq(S)
  BY DeliveryAssumption, EmptySeq DEF ShimState
<1>2. PutBack(s) = [s EXCEPT !.buf = kept, !.sending = <<>>] /\ Evicted(s) = ToSet(gone)
  BY DEF PutBack, Evicted
<1> HIDE DEF S, u, v, k
<1>3. kept \in Seq(S) /\ gone \in Seq(S) /\ Len(kept) <= BufferMax
  BY <1>1, BatchPutBack DEF k
<1>4. ToSet(kept) \cup ToSet(gone) = ToSet(u) \cup ToSet(v)
  BY <1>1, BatchPutBack DEF k
<1> HIDE DEF kept, gone
<1>5. ToSet(gone) \subseteq S
  BY <1>3, LenProperties, ElementOfSeq DEF ToSet
<1>6. PutBack(s) \in ShimState /\ PutBack(s).buf = kept
  BY <1>1, <1>2, <1>3 DEF ShimState, S
<1> QED
  BY <1>1, <1>2, <1>3, <1>4, <1>5, <1>6 DEF ShimState, S, u, v

\* What a call returns to the shim leaves it well typed, and its buffer at the cap.
LEMMA HeardTyped ==
  ASSUME ShimTyped, NEW q, NEW outcome, NEW b, ShimHears(q, outcome, b)
  PROVE  ShimTyped'
<1> DEFINE s == [shim EXCEPT !.lock = "free"]
<1>1. shim \in ShimState /\ BufferMax \in Nat /\ s \in ShimState /\ s.pc = shim.pc /\ s.buf = shim.buf
      /\ s.sending = shim.sending /\ s.logged = shim.logged /\ s.tries = shim.tries
      /\ <<>> \in Seq(PointsOf("spill")) /\ shim.sending \in Seq(PointsOf("spill"))
  BY DeliveryAssumption, EmptySeq DEF ShimTyped, ShimState
<1>2. CASE Sent
  <2>1. Rest(shim.sending) \in Seq(PointsOf("spill"))
    BY <1>1, ChunkAndRest
  <2>2. \/ shim' = [shim EXCEPT !.lock = "free", !.sending = <<>>]
        \/ shim' = [shim EXCEPT !.sending = Rest(shim.sending)]
    BY <1>2 DEF Sent
  <2>3. shim' \in ShimState /\ shim'.pc = shim.pc /\ shim'.buf = shim.buf
        /\ shim'.logged = shim.logged /\ shim'.tries = shim.tries
    BY <1>1, <2>1, <2>2 DEF ShimState
  <2> QED
    BY <2>3 DEF ShimTyped
<1> HIDE DEF s
<1>3. CASE shim' = s
  BY <1>1, <1>3 DEF ShimTyped
<1>4. CASE shim' = [s EXCEPT !.pc = "spilled", !.finishOK = (outcome = "sent")]
  <2>1. PICK ok \in BOOLEAN : ok = (outcome = "sent")
    OBVIOUS
  <2>2. shim' = [s EXCEPT !.pc = "spilled", !.finishOK = ok]
    BY <1>4, <2>1, Zenon
  <2> QED
    BY <1>1, <2>2 DEF ShimTyped, ShimState
<1>5. CASE shim' = [Dropped(s, ToSet(s.sending)) EXCEPT !.sending = <<>>]
  <2>1. s.dropped \cup ToSet(s.sending) \in SUBSET PointsOf("spill")
    <3>1. ToSet(s.sending) \subseteq PointsOf("spill")
      BY <1>1, LenProperties, ElementOfSeq DEF ToSet
    <3> QED
      BY <1>1, <3>1 DEF ShimState
  <2> DEFINE D == s.dropped \cup ToSet(s.sending)
  <2>2. shim' = [s EXCEPT !.dropped = D, !.sending = <<>>]
    BY <1>1, <1>5 DEF Dropped, ShimState
  <2> HIDE DEF D
  <2> QED
    BY <1>1, <2>1, <2>2 DEF ShimTyped, ShimState, D
<1>6. CASE Spills(PutBack(s), Evicted(s), b)
  <2>1. SpillOutcome(PutBack(s), Evicted(s), b)
    BY <1>1, <1>6, PutBackTyped, SpillsEnds
  <2>2. shim' \in ShimState /\ Len(shim'.buf) <= BufferMax /\ shim'.pc = shim.pc
        /\ shim'.tries = shim.tries /\ shim'.logged = shim.logged
    BY <1>1, <2>1, PutBackTyped, SpilledTyped
  <2>3. shim.logged \in Nat /\ Len(shim'.buf) \in Nat
    BY <1>1, <2>2, LenProperties DEF ShimState
  <2> QED
    BY <2>2, <2>3, <1>1 DEF ShimTyped
<1> QED
  BY <1>2, <1>3, <1>4, <1>5, <1>6 DEF ShimHears, s

\* The shim keeps its types.
LEMMA ShimKeepsTypes ==
  ASSUME ShimTyped, DeliveryNext
  PROVE  ShimTyped'
<1>1. /\ shim \in ShimState /\ shim.buf \in Seq(PointsOf("spill")) /\ shim.logged \in Nat
      /\ shim.tries \in Nat /\ <<>> \in Seq(PointsOf("spill")) /\ Len(<<>>) = 0
      /\ BufferMax \in Nat /\ DrainAttempts \in Nat /\ MaxLogged \in Nat
  BY EmptySeq, DeliveryAssumption DEF ShimTyped, ShimState
<1>2. CASE LogPoint
  <2> DEFINE e == <<"shim", shim.logged + 1>>
             b == Append(shim.buf, e)
  <2>1. e \in PointsOf("spill")
    BY <1>1, <1>2 DEF LogPoint, PointsOf
  <2>2. b \in Seq(PointsOf("spill")) /\ Len(b) = Len(shim.buf) + 1 /\ Len(shim.buf) \in Nat
    BY <1>1, <2>1, AppendProperties, LenProperties
  <2>3. shim' = [shim EXCEPT !.logged = shim.logged + 1, !.buf = b]
    BY <1>2 DEF LogPoint
  <2>4. shim.logged + 1 \in 0..MaxLogged
    BY <1>1, <1>2 DEF LogPoint
  <2> HIDE DEF b
  <2>5. shim' \in ShimState /\ shim'.logged = shim.logged + 1 /\ shim'.buf = b /\ shim'.pc = shim.pc
        /\ shim'.tries = shim.tries
    BY <1>1, <2>2, <2>3, <2>4 DEF ShimState
  <2> QED
    BY <1>1, <2>2, <2>5 DEF ShimTyped
<1>3. CASE FlushBuffer \/ LateTick
  <2>1. shim' = [shim EXCEPT !.buf = <<>>, !.sending = shim.buf, !.lock = "timer"]
    BY <1>3 DEF FlushBuffer, LateTick, Flush
  <2>2. shim' \in ShimState /\ shim'.logged = shim.logged /\ shim'.buf = <<>> /\ shim'.pc = shim.pc
        /\ shim'.tries = shim.tries
    BY <1>1, <2>1 DEF ShimState
  <2>3. Len(shim'.buf) <= BufferMax + shim'.logged
    BY <1>1, <2>2
  <2> QED
    BY <2>2, <2>3 DEF ShimTyped
<1>4. CASE Ping
  BY <1>1, <1>4 DEF Ping, ShimTyped, ShimState
<1>5. CASE FinishRun
  <2>1. shim' = [shim EXCEPT !.pc = "draining"] /\ shim.tries = 0 /\ 0 < DrainAttempts
    BY <1>5, DeliveryAssumption DEF FinishRun, ShimTyped
  <2>2. shim' \in ShimState /\ shim'.pc = "draining" /\ shim'.tries = shim.tries
        /\ shim'.buf = shim.buf /\ shim'.logged = shim.logged
    BY <1>1, <2>1 DEF ShimState
  <2> QED
    BY <2>1, <2>2 DEF ShimTyped
<1>6. CASE DrainFlush
  <2>1. shim.pc = "draining" /\ shim.tries + 1 \in 0..DrainAttempts
    BY <1>1, <1>6 DEF DrainFlush, ShimTyped
  <2>2. CASE shim' = [shim EXCEPT !.pc = "drained", !.tries = @ + 1]
    BY <1>1, <2>1, <2>2 DEF ShimTyped, ShimState
  <2>3. CASE shim' = [shim EXCEPT !.pc = "drained", !.tries = @ + 1, !.buf = <<>>,
                                  !.sending = shim.buf, !.lock = "finish"]
    <3>1. shim' \in ShimState /\ shim'.logged = shim.logged /\ shim'.buf = <<>>
          /\ shim'.pc = "drained"
      BY <1>1, <2>1, <2>3 DEF ShimState
    <3> QED
      BY <1>1, <3>1 DEF ShimTyped
  <2> QED
    BY <2>2, <2>3, <1>6 DEF DrainFlush
<1>7. CASE EndDrain
  <2>1. CASE shim' = [shim EXCEPT !.pc = "draining"] /\ shim.tries < DrainAttempts
    BY <1>1, <2>1 DEF ShimTyped, ShimState
  <2>2. CASE Spills([shim EXCEPT !.pc = "closing", !.buf = <<>>], ToSet(shim.buf), budget)
    <3> DEFINE s == [shim EXCEPT !.pc = "closing", !.buf = <<>>]
    <3>1. s \in ShimState /\ s.logged = shim.logged /\ s.buf = <<>> /\ s.pc = "closing"
      BY <1>1 DEF ShimState
    <3>2. ToSet(shim.buf) \subseteq PointsOf("spill")
      BY <1>1, LenProperties, ElementOfSeq DEF ToSet
    <3> HIDE DEF s
    <3>3. SpillOutcome(s, ToSet(shim.buf), budget)
      BY <2>2, <3>1, <3>2, SpillsEnds DEF s
    <3>4. shim' \in ShimState /\ shim'.logged = shim.logged /\ shim'.buf = <<>> /\ shim'.pc = "closing"
      BY <3>1, <3>3, SpilledTyped
    <3> QED
      BY <1>1, <3>4 DEF ShimTyped
  <2> QED
    BY <2>1, <2>2, <1>7 DEF EndDrain
<1>8. CASE PostFinish \/ CloseSpill
  BY <1>1, <1>8 DEF PostFinish, CloseSpill, ShimTyped, ShimState
<1>9. CASE ShimDies
  <2>1. shim' = [shim EXCEPT !.pc = "dead", !.lock = "free", !.buf = <<>>, !.sending = <<>>]
    BY <1>9 DEF ShimDies
  <2>2. shim' \in ShimState /\ shim'.logged = shim.logged /\ shim'.buf = <<>> /\ shim'.pc = "dead"
    BY <1>1, <2>1 DEF ShimState
  <2> QED
    BY <1>1, <2>2 DEF ShimTyped
<1>10. ASSUME NEW q \in calls, NEW outcome, NEW b, Heard(q, outcome, b) PROVE ShimTyped'
  BY <1>10, HeardTyped DEF Heard, ShimTyped
<1>11. ASSUME NEW q \in calls, Answer(q) \/ LoseCall(q) \/ RefuseCall(q) \/ TimeOut(q) PROVE ShimTyped'
  BY <1>10, <1>11 DEF Answer, LoseCall, RefuseCall, TimeOut
<1>12. ASSUME NEW q \in calls, Handle(q) \/ Unheard(q) PROVE UNCHANGED shim
  BY <1>12 DEF Handle, LoadRun, UpsertStatus, InsertBatch, UpsertCounters, Unheard
<1>13. CASE Syncing \/ SyncerDies \/ \E d \in OfflineDirs : WriteOffline(d)
  BY <1>13 DEF Syncing, SyncerDies, OpenDir, ResolveRunName, RecordRunName, SendBatch,
     SendFinish, WriteCursor, WriteDone, WriteOffline, ShimTyped
<1> QED
  BY <1>2, <1>3, <1>4, <1>5, <1>6, <1>7, <1>8, <1>9, <1>11, <1>12, <1>13
     DEF DeliveryNext, Shimming, ShimTyped

(***************************************************************************)
(* Requests.                                                               *)
(***************************************************************************)

\* The lines of a batch hold points of their directory, and stay what they are.
LEMMA BatchOf ==
  ASSUME DeliveryTypes, LinesEnd, NEW d \in Dirs, NEW from \in Nat, NEW to \in Nat, to <= Len(lines[d])
  PROVE  /\ Batch(d, from, to) \subseteq PointsOf(d)
         /\ LinesStep => UNION {lines'[d][i].pts : i \in from + 1..to} = Batch(d, from, to)
<1>1. Len(lines[d]) \in Nat /\ \A i \in from + 1..to : i \in 1..Len(lines[d])
  BY LenProperties DEF DeliveryTypes
<1>2. Batch(d, from, to) \subseteq PointsOf(d)
  BY <1>1 DEF LinesEnd, Batch
<1>3. ASSUME LinesStep
      PROVE  UNION {lines'[d][i].pts : i \in from + 1..to} = Batch(d, from, to)
  <2>1. \A i \in from + 1..to : lines'[d][i] = lines[d][i]
    BY <1>1, <1>3, LinesGrow
  <2>2. {lines'[d][i].pts : i \in from + 1..to} = {lines[d][i].pts : i \in from + 1..to}
    BY <2>1
  <2> QED
    BY <2>2 DEF Batch
<1> QED
  BY <1>2, <1>3

\* A request a client has just sent.
Fresh(r) ==
    /\ r.pc = "load" /\ r.awaited
    /\ r.kind # "log" => r.pts = {}
    /\ r.kind = "finish" => r.want = "finished"
    /\ \/ r.from = "shim" /\ r.run = 1 /\ r.pts \subseteq PointsOf("spill")
       \/ /\ r.from = "sync" /\ syncer.pc = "send" /\ r.run = syncer.run
          /\ r.pts \subseteq PointsOf(syncer.dir) /\ r.kind # "ping"

\* After a step of a client: its requests are those there were, or fresh, and it
\* does not start to wait for an old one.
ClientStep ==
    /\ \A r \in calls' :
          /\ r \in CallState
          /\ \/ Fresh(r)
             \/ /\ \E q \in calls : Same(q, r) /\ r.pc = q.pc
                /\ r.awaited => r \in calls
    /\ UNCHANGED <<runStatus, received>>

\* Every step but those of a handler is one.
LEMMA CallsMove ==
  ASSUME DeliveryTypes, LinesEnd, PassAt, DeliveryNext
  PROVE  ClientStep \/ \E q \in calls : Handle(q)
<1>1. \A q \in calls : q \in CallState
  BY DEF DeliveryTypes
<1>2. \A q \in calls : Same(q, q)
  BY DEF Same
<1>3. ASSUME calls' \subseteq calls, UNCHANGED <<runStatus, received>> PROVE ClientStep
  BY <1>1, <1>2, <1>3 DEF ClientStep
<1>4. ASSUME NEW c \in CallState, Fresh(c), NEW Q, Q \subseteq calls, calls' = Q \cup {c},
             UNCHANGED <<runStatus, received>>
      PROVE  ClientStep
  BY <1>1, <1>2, <1>4 DEF ClientStep
<1>5. ASSUME NEW from, calls' = Orphaned(from), UNCHANGED <<runStatus, received>> PROVE ClientStep
  BY <1>1, <1>5, Orphans DEF ClientStep
<1>6. ASSUME NEW pts, pts \subseteq PointsOf("spill"), UNCHANGED <<runStatus, received>>,
             NEW Q, Q \subseteq calls,
             \/ calls' = Q \cup {Call("shim", "log", 1, pts, "running")}
             \/ calls' = Q \cup {Call("shim", "ping", 1, {}, "running")}
             \/ calls' = Q \cup {Call("shim", "finish", 1, {}, "finished")}
      PROVE  ClientStep
  <2>1. PointsOf("spill") \subseteq LoggedPoints /\ 1 \in RunNames
    BY Names
  <2> DEFINE a == Call("shim", "log", 1, pts, "running")
             b == Call("shim", "ping", 1, {}, "running")
             c == Call("shim", "finish", 1, {}, "finished")
  <2>2. a \in CallState /\ Fresh(a)
    BY <1>6, <2>1 DEF Call, CallState, Fresh
  <2>3. b \in CallState /\ Fresh(b)
    BY <1>6, <2>1 DEF Call, CallState, Fresh
  <2>4. c \in CallState /\ Fresh(c)
    BY <1>6, <2>1 DEF Call, CallState, Fresh
  <2> HIDE DEF a, b, c
  <2> QED
    BY <1>4, <1>6, <2>2, <2>3, <2>4 DEF a, b, c
<1>7. shim.buf \in Seq(PointsOf("spill")) /\ shim.sending \in Seq(PointsOf("spill"))
      /\ Rest(shim.sending) \in Seq(PointsOf("spill"))
  BY ChunkAndRest DEF DeliveryTypes, ShimTyped, ShimState
<1>18. \A u \in Seq(PointsOf("spill")) : ToSet(Chunk(u)) \subseteq PointsOf("spill")
  BY ChunkAndRest, LenProperties, ElementOfSeq DEF ToSet
<1>19. CASE FlushBuffer \/ LateTick
  <2>1. UNCHANGED <<runStatus, received>>
        /\ calls' = calls \cup {Call("shim", "log", 1, ToSet(Chunk(shim.buf)), "running")}
    BY <1>19 DEF FlushBuffer, LateTick, Flush, LogCall
  <2> QED
    BY <1>6, <1>7, <1>18, <2>1
<1>20. CASE Ping \/ PostFinish
  BY <1>6, <1>20 DEF Ping, PostFinish
<1>8. CASE DrainFlush
  <2>1. CASE UNCHANGED calls
    BY <1>3, <1>8, <2>1 DEF DrainFlush
  <2>2. CASE calls' = calls \cup {Call("shim", "log", 1, ToSet(Chunk(shim.buf)), "running")}
    BY <1>6, <1>7, <1>8, <1>18, <2>2 DEF DrainFlush
  <2> QED
    BY <1>8, <2>1, <2>2 DEF DrainFlush, LogCall
<1>9. CASE LogPoint \/ FinishRun \/ EndDrain \/ CloseSpill
  BY <1>3, <1>9 DEF LogPoint, FinishRun, EndDrain, CloseSpill
<1>10. CASE ShimDies \/ SyncerDies
  BY <1>5, <1>10 DEF ShimDies, SyncerDies
<1>11. ASSUME NEW d \in OfflineDirs, WriteOffline(d) PROVE ClientStep
  BY <1>3, <1>11 DEF WriteOffline
<1>12. CASE (\E d \in Dirs : OpenDir(d)) \/ ResolveRunName \/ RecordRunName \/ WriteCursor \/ WriteDone
  BY <1>3, <1>12 DEF OpenDir, ResolveRunName, RecordRunName, WriteCursor, WriteDone
<1>13. syncer \in SyncerState /\ (syncer.pc = "send" => syncer.run \in RunNames)
       /\ syncer.dir \in Dirs /\ syncState[syncer.dir].synced \in Nat
  BY DEF DeliveryTypes, SyncerState, PassAt, Stands
<1>14. CASE SendBatch
  <2> DEFINE st == syncState[syncer.dir]
  <2>1. PICK k \in st.synced + 1..syncer.last :
           calls' = calls \cup
             {Call("sync", "log", syncer.run, UNION {lines[syncer.dir][i].pts : i \in st.synced + 1..k},
                   IF syncer.over THEN "finished" ELSE "running")}
    BY <1>14 DEF SendBatch
  <2> DEFINE pts == UNION {lines[syncer.dir][i].pts : i \in st.synced + 1..k}
             c == Call("sync", "log", syncer.run, pts, IF syncer.over THEN "finished" ELSE "running")
  <2>2. syncer.pc = "send" /\ UNCHANGED <<runStatus, received>>
    BY <1>14 DEF SendBatch
  <2>3. k \in Nat /\ syncer.last \in Nat /\ k <= syncer.last /\ syncer.last <= Len(lines[syncer.dir])
        /\ Len(lines[syncer.dir]) \in Nat
    BY <1>13, <2>2, LenProperties DEF PassAt, Stands, SyncerState, DeliveryTypes
  <2>4. pts \subseteq PointsOf(syncer.dir)
    BY <1>13, <2>3, BatchOf DEF Batch
  <2>5. pts \subseteq LoggedPoints
    BY <1>13, <2>4, Names
  <2> HIDE DEF pts
  <2>6. c \in CallState /\ Fresh(c)
    BY <1>13, <2>2, <2>4, <2>5 DEF Call, CallState, Fresh
  <2> HIDE DEF c
  <2> QED
    BY <1>4, <2>1, <2>2, <2>6 DEF c, pts
<1>15. CASE SendFinish
  <2> DEFINE c == Call("sync", "finish", syncer.run, {}, "finished")
  <2>1. syncer.pc = "send" /\ UNCHANGED <<runStatus, received>>
        /\ (UNCHANGED calls \/ calls' = calls \cup {c})
    BY <1>15 DEF SendFinish
  <2>2. c \in CallState /\ Fresh(c)
    BY <1>13, <2>1 DEF Call, CallState, Fresh
  <2> HIDE DEF c
  <2> QED
    BY <1>3, <1>4, <2>1, <2>2
<1>16. ASSUME NEW q \in calls, Unheard(q) PROVE ClientStep
  BY <1>3, <1>16 DEF Unheard
<1>17. ASSUME NEW q \in calls, NEW outcome, NEW b, Ended(q, outcome, b) PROVE ClientStep
  <2>1. UNCHANGED <<runStatus, received>>
    BY <1>17 DEF Ended
  <2>2. CASE calls' \subseteq calls
    BY <1>3, <2>1, <2>2
  <2>3. CASE calls' = (calls \ {q}) \cup NextChunk(q)
    <3>1. NextChunk(q) = {} \/ NextChunk(q) = {LogCall(Rest(shim.sending))}
      BY DEF NextChunk
    <3>2. CASE NextChunk(q) = {}
      BY <2>2, <2>3, <3>2
    <3>3. CASE NextChunk(q) = {LogCall(Rest(shim.sending))}
      <4>1. calls' = (calls \ {q})
                       \cup {Call("shim", "log", 1, ToSet(Chunk(Rest(shim.sending))), "running")}
        BY <2>3, <3>3 DEF LogCall
      <4>2. ToSet(Chunk(Rest(shim.sending))) \subseteq PointsOf("spill")
        BY <1>7, <1>18
      <4>3. calls \ {q} \subseteq calls
        OBVIOUS
      <4> QED
        BY <1>6, <2>1, <4>1, <4>2, <4>3
    <3> QED
      BY <3>1, <3>2, <3>3
  <2>4. CASE calls' = (calls \ {q}) \cup {[q EXCEPT !.awaited = FALSE]}
    <3> DEFINE r == [q EXCEPT !.awaited = FALSE]
    <3>1. r \in CallState /\ Same(q, r) /\ ~r.awaited /\ r.pc = q.pc
      BY <1>1, Abandoned
    <3>2. calls' = (calls \ {q}) \cup {r}
      BY <2>4
    <3> HIDE DEF r
    <3> QED
      BY <1>1, <1>2, <2>1, <3>1, <3>2 DEF ClientStep
  <2> QED
    BY <1>17, <2>2, <2>3, <2>4 DEF Ended
<1>21. ASSUME NEW q \in calls, Answer(q) \/ LoseCall(q) \/ RefuseCall(q) \/ TimeOut(q) PROVE ClientStep
  BY <1>17, <1>21, EndedMoves
<1> QED
  BY <1>8, <1>9, <1>10, <1>11, <1>12, <1>14, <1>15, <1>16, <1>19, <1>20, <1>21
     DEF DeliveryNext, Shimming, Syncing

\* A step of a handler moves its request on and leaves the clients alone.  It
\* has inserted the batch when it is past the insert.
HandlerStep(q, r) ==
    /\ q \in CallState /\ r \in CallState /\ Same(q, r) /\ r.awaited = q.awaited
    /\ calls' = (calls \ {q}) \cup {r}
    /\ UNCHANGED <<shim, lines, syncState, syncer, budget>>
    /\ runStatus' \in [RunNames -> {"none", "running", "finished"}]
    /\ received' \in [RunNames -> SUBSET LoggedPoints]
    /\ \A n \in RunNames : received[n] \subseteq received'[n]
    /\ \A n \in RunNames \ {q.run} : received'[n] = received[n] /\ runStatus'[n] = runStatus[n]
    /\ received'[q.run] \subseteq received[q.run] \cup q.pts
    /\ r.pc \in {"count", "answer"} =>
          q.pc = "count" \/ q.kind = "finish" \/ q.pts \subseteq received'[q.run]
    /\ q.kind = "finish" /\ r.pc = "answer" => runStatus'[q.run] = q.want

\* Every step of a handler is such a step.
LEMMA HandlerMoves ==
  ASSUME DeliveryTypes, NEW q \in calls, Handle(q)
  PROVE  \E r : HandlerStep(q, r)
<1>1. /\ q \in CallState /\ q.run \in RunNames /\ q.pts \subseteq LoggedPoints
      /\ q.want \in {"running", "finished"}
      /\ runStatus \in [RunNames -> {"none", "running", "finished"}]
      /\ received \in [RunNames -> SUBSET LoggedPoints]
      /\ runStatus[q.run] \in {"none", "running", "finished"}
  BY DEF DeliveryTypes, CallState
<1>2. StatusAfter(q) \in {"none", "running", "finished"}
      /\ (q.kind = "finish" => StatusAfter(q) = q.want)
  BY <1>1 DEF StatusAfter
<1>3. ASSUME NEW pc \in {"load", "upsert", "insert", "count", "answer"}
      PROVE  LET r == [q EXCEPT !.pc = pc]
             IN r \in CallState /\ Same(q, r) /\ r.awaited = q.awaited /\ r.pc = pc
  BY <1>1, Advanced
<1>4. CASE LoadRun(q)
  <2> DEFINE r == [q EXCEPT !.pc = "upsert", !.prev = runStatus[q.run]]
  <2>1. r \in CallState /\ Same(q, r) /\ r.awaited = q.awaited /\ r.pc = "upsert"
    BY <1>1 DEF CallState, Same
  <2>2. calls' = (calls \ {q}) \cup {r}
        /\ UNCHANGED <<shim, lines, syncState, syncer, runStatus, received, budget>>
    BY <1>4 DEF LoadRun
  <2> HIDE DEF r
  <2> QED
    BY <1>1, <2>1, <2>2 DEF HandlerStep
<1>5. CASE UpsertStatus(q)
  <2> DEFINE pc == IF q.kind = "finish" THEN "answer" ELSE "insert"
             r == [q EXCEPT !.pc = pc]
  <2>1. r \in CallState /\ Same(q, r) /\ r.awaited = q.awaited /\ r.pc = pc
    BY <1>3
  <2>2. calls' = (calls \ {q}) \cup {r}
        /\ runStatus' = [runStatus EXCEPT ![q.run] = StatusAfter(q)]
        /\ UNCHANGED <<shim, lines, syncState, syncer, received, budget>>
    BY <1>5 DEF UpsertStatus, Advance
  <2>3. runStatus' \in [RunNames -> {"none", "running", "finished"}]
        /\ runStatus'[q.run] = StatusAfter(q)
        /\ \A n \in RunNames \ {q.run} : runStatus'[n] = runStatus[n]
    BY <1>1, <1>2, <2>2
  <2> HIDE DEF r
  <2> QED
    BY <1>1, <1>2, <2>1, <2>2, <2>3 DEF HandlerStep
<1>6. CASE InsertBatch(q)
  <2> DEFINE r == [q EXCEPT !.pc = "count"]
  <2>1. r \in CallState /\ Same(q, r) /\ r.awaited = q.awaited /\ r.pc = "count"
    BY <1>3
  <2>2. calls' = (calls \ {q}) \cup {r}
        /\ received' = [received EXCEPT ![q.run] = @ \cup q.pts]
        /\ UNCHANGED <<shim, lines, syncState, syncer, runStatus, budget>>
    BY <1>6 DEF InsertBatch, Advance
  <2>3. received' \in [RunNames -> SUBSET LoggedPoints]
        /\ received'[q.run] = received[q.run] \cup q.pts
        /\ \A n \in RunNames \ {q.run} : received'[n] = received[n]
    BY <1>1, <2>2
  <2> HIDE DEF r
  <2> QED
    BY <1>1, <2>1, <2>2, <2>3 DEF HandlerStep
<1>7. CASE UpsertCounters(q)
  <2> DEFINE r == [q EXCEPT !.pc = "answer"]
  <2>1. r \in CallState /\ Same(q, r) /\ r.awaited = q.awaited /\ r.pc = "answer"
    BY <1>3
  <2>2. q.pc = "count" /\ calls' = (calls \ {q}) \cup {r}
        /\ runStatus' = [runStatus EXCEPT ![q.run] = StatusAfter(q)]
        /\ UNCHANGED <<shim, lines, syncState, syncer, received, budget>>
    BY <1>7 DEF UpsertCounters, Advance
  <2>3. runStatus' \in [RunNames -> {"none", "running", "finished"}]
        /\ runStatus'[q.run] = StatusAfter(q)
        /\ \A n \in RunNames \ {q.run} : runStatus'[n] = runStatus[n]
    BY <1>1, <1>2, <2>2
  <2> HIDE DEF r
  <2> QED
    BY <1>1, <1>2, <2>1, <2>2, <2>3 DEF HandlerStep
<1> QED
  BY <1>4, <1>5, <1>6, <1>7 DEF Handle

\* Every variable keeps its type.
LEMMA TypesKept ==
  ASSUME DeliveryTypes, LinesEnd, ShimWaits, PassAt, DeliveryNext
  PROVE  DeliveryTypes'
<1>1. ShimTyped'
  BY ShimKeepsTypes DEF DeliveryTypes
<1>2. lines' \in [Dirs -> Seq(LineState)]
  <2>1. LinesStep /\ lines \in [Dirs -> Seq(LineState)]
    BY LinesMove DEF DeliveryTypes
  <2>2. CASE UNCHANGED lines
    BY <2>1, <2>2
  <2>3. ASSUME NEW d \in Dirs, NEW x \in LineState, lines' = [lines EXCEPT ![d] = Append(@, x)]
        PROVE  lines' \in [Dirs -> Seq(LineState)]
    <3>1. Append(lines[d], x) \in Seq(LineState)
      BY <2>1, AppendProperties
    <3> QED
      BY <2>1, <2>3, <3>1
  <2> QED
    BY <2>1, <2>2, <2>3 DEF LinesStep
<1>3. calls' \subseteq CallState /\ runStatus' \in [RunNames -> {"none", "running", "finished"}]
      /\ received' \in [RunNames -> SUBSET LoggedPoints]
  <2>1. CASE ClientStep
    BY <2>1 DEF ClientStep, DeliveryTypes
  <2>2. ASSUME NEW q \in calls, Handle(q)
        PROVE  /\ calls' \subseteq CallState
               /\ runStatus' \in [RunNames -> {"none", "running", "finished"}]
               /\ received' \in [RunNames -> SUBSET LoggedPoints]
    BY <2>2, HandlerMoves DEF HandlerStep, DeliveryTypes
  <2> QED
    BY <2>1, <2>2, CallsMove
<1>4. /\ syncState \in [Dirs -> [run : RunNames \cup {0}, synced : Nat, done : BOOLEAN]]
      /\ syncer \in SyncerState /\ syncer.dir \in Dirs
      /\ syncState[syncer.dir] \in [run : RunNames \cup {0}, synced : Nat, done : BOOLEAN]
      /\ SyncerIdle \in SyncerState
  BY Names DEF DeliveryTypes, SyncerState, SyncerIdle
<1>5. syncState' \in [Dirs -> [run : RunNames \cup {0}, synced : Nat, done : BOOLEAN]]
  <2>1. CASE RecordRunName
    <3>1. syncState' = [syncState EXCEPT
                          ![syncer.dir] = [syncState[syncer.dir] EXCEPT !.run = syncer.run]]
      BY <2>1 DEF RecordRunName, RecordedRun
    <3>2. [syncState[syncer.dir] EXCEPT !.run = syncer.run]
            \in [run : RunNames \cup {0}, synced : Nat, done : BOOLEAN]
      BY <1>4 DEF SyncerState
    <3> QED
      BY <1>4, <3>1, <3>2
  <2>2. CASE WriteCursor
    <3>1. syncState' = [syncState EXCEPT ![syncer.dir] =
                          [syncState[syncer.dir] EXCEPT !.run = syncer.run, !.synced = syncer.upTo]]
      BY <1>4, <2>2 DEF WriteCursor
    <3>2. [syncState[syncer.dir] EXCEPT !.run = syncer.run, !.synced = syncer.upTo]
            \in [run : RunNames \cup {0}, synced : Nat, done : BOOLEAN]
      BY <1>4 DEF SyncerState
    <3> QED
      BY <1>4, <3>1, <3>2
  <2>3. CASE WriteDone
    <3>1. syncState' = [syncState EXCEPT ![syncer.dir] = [syncState[syncer.dir] EXCEPT !.done = TRUE]]
      BY <1>4, <2>3 DEF WriteDone
    <3>2. [syncState[syncer.dir] EXCEPT !.done = TRUE]
            \in [run : RunNames \cup {0}, synced : Nat, done : BOOLEAN]
      BY <1>4
    <3> QED
      BY <1>4, <3>1, <3>2
  <2>4. CASE UNCHANGED syncState
    BY <1>4, <2>4
  <2> QED
    BY <2>1, <2>2, <2>3, <2>4 DEF DeliveryNext, Shimming, ShimDies, WriteOffline, Syncing, SyncerDies,
       LogPoint, FlushBuffer, LateTick, Flush, Ping, FinishRun, DrainFlush, EndDrain, PostFinish,
     CloseSpill,
       OpenDir, ResolveRunName, SendBatch, SendFinish, Handle, LoadRun, UpsertStatus, InsertBatch,
       UpsertCounters, Unheard, Answer, LoseCall, RefuseCall, TimeOut
<1>6. syncer' \in SyncerState
  <2>1. ASSUME NEW d \in Dirs, OpenDir(d) PROVE syncer' \in SyncerState
    <3>1. LogLines(d) \in Nat /\ Len(lines[d]) \in Nat
      BY CountLines, LenProperties DEF DeliveryTypes
    <3>2. PICK b \in BOOLEAN : b = (LogLines(d) < Len(lines[d]))
      <4>1. CASE LogLines(d) < Len(lines[d])
        <5>1. TRUE = (LogLines(d) < Len(lines[d]))
          BY <4>1
        <5> QED
          BY <5>1, Zenon
      <4>2. CASE ~(LogLines(d) < Len(lines[d]))
        <5>1. FALSE = (LogLines(d) < Len(lines[d]))
          BY <4>2
        <5> QED
          BY <5>1, Zenon
      <4> QED
        BY <4>1, <4>2
    <3>3. syncer' = [SyncerIdle EXCEPT
                       !.pc = IF syncState[d].run = 0 THEN "resolve" ELSE "send",
                       !.dir = d, !.last = LogLines(d), !.over = b, !.run = syncState[d].run]
      BY <2>1, <3>2, Zenon DEF OpenDir
    <3> QED
      BY <1>4, <3>1, <3>3 DEF SyncerState, SyncerIdle
  <2>2. CASE ResolveRunName
    <3>1. Resolved(syncer.dir) \in RunNames
      BY <1>4, Resolves
    <3> QED
      BY <1>4, <2>2, <3>1 DEF ResolveRunName, SyncerState
  <2>3. CASE SendBatch
    <3>1. PICK k \in syncState[syncer.dir].synced + 1..syncer.last :
             syncer' = [syncer EXCEPT !.pc = "sent", !.upTo = k]
      BY <2>3 DEF SendBatch
    <3>2. k \in Nat
      BY <1>4, <3>1 DEF SyncerState
    <3> QED
      BY <1>4, <3>1, <3>2 DEF SyncerState
  <2>4. CASE RecordRunName \/ WriteCursor \/ WriteDone \/ SyncerDies
    BY <1>4, <2>4 DEF RecordRunName, WriteCursor, WriteDone, SyncerDies, SyncerState
  <2>5. CASE SendFinish
    BY <1>4, <2>5 DEF SendFinish, SyncerState
  <2>6. ASSUME NEW q \in calls, NEW outcome, NEW b, Heard(q, outcome, b) PROVE syncer' \in SyncerState
    BY <1>4, <2>6 DEF Heard, SyncerHears, SyncerState
  <2>7. ASSUME NEW q \in calls, Answer(q) \/ LoseCall(q) \/ RefuseCall(q) \/ TimeOut(q) PROVE syncer' \in SyncerState
    BY <2>6, <2>7 DEF Answer, LoseCall, RefuseCall, TimeOut
  <2>8. CASE UNCHANGED syncer
    BY <1>4, <2>8
  <2> QED
    BY <2>1, <2>2, <2>3, <2>4, <2>5, <2>7, <2>8 DEF DeliveryNext, Shimming, ShimDies, WriteOffline,
       Syncing, LogPoint, FlushBuffer, LateTick, Flush, Ping, FinishRun, DrainFlush, EndDrain, PostFinish,
     CloseSpill,
       Handle, LoadRun, UpsertStatus, InsertBatch, UpsertCounters, Unheard
<1>7. budget' \in BudgetState
  BY BudgetMoves
<1> QED
  BY <1>1, <1>2, <1>3, <1>5, <1>6, <1>7 DEF DeliveryTypes

(***************************************************************************)
(* What is on the server.                                                  *)
(***************************************************************************)

\* The server forgets no point.
LEMMA ReceivedGrows ==
  ASSUME DeliveryTypes, LinesEnd, PassAt, DeliveryNext
  PROVE  \A n \in RunNames : received[n] \subseteq received'[n]
<1>1. CASE ClientStep
  BY <1>1 DEF ClientStep
<1>2. ASSUME NEW q \in calls, Handle(q) PROVE \A n \in RunNames : received[n] \subseteq received'[n]
  BY <1>2, HandlerMoves DEF HandlerStep
<1> QED
  BY <1>1, <1>2, CallsMove

\* A handler past the insert has inserted its batch.
LEMMA InsertedKept ==
  ASSUME DeliveryTypes, LinesEnd, PassAt, Inserted, DeliveryNext
  PROVE  Inserted'
<1>1. \A q \in calls : q \in CallState /\ q.run \in RunNames
  BY DEF DeliveryTypes, CallState
<1>2. CASE ClientStep
  <2> SUFFICES ASSUME NEW r \in calls'
               PROVE  /\ r.kind # "log" => r.pts = {}
                      /\ r.kind = "finish" => r.want = "finished"
                      /\ r.pc \in {"count", "answer"} => r.pts \subseteq received'[r.run]
    BY DEF Inserted
  <2>1. CASE Fresh(r)
    BY <2>1 DEF Fresh
  <2>2. CASE \E q \in calls : Same(q, r) /\ r.pc = q.pc
    BY <1>1, <1>2, <2>2 DEF Inserted, Same, ClientStep
  <2> QED
    BY <1>2, <2>1, <2>2 DEF ClientStep
<1>3. ASSUME NEW q \in calls, Handle(q) PROVE Inserted'
  <2>1. PICK r : HandlerStep(q, r)
    BY <1>3, HandlerMoves
  <2>2. ASSUME NEW s \in calls', s \in calls
        PROVE  /\ s.kind # "log" => s.pts = {}
               /\ s.kind = "finish" => s.want = "finished"
               /\ s.pc \in {"count", "answer"} => s.pts \subseteq received'[s.run]
    BY <1>1, <2>1, <2>2 DEF Inserted, HandlerStep
  <2>3. /\ r.kind # "log" => r.pts = {}
        /\ r.kind = "finish" => r.want = "finished"
        /\ r.pc \in {"count", "answer"} => r.pts \subseteq received'[r.run]
    BY <1>1, <2>1 DEF Inserted, HandlerStep, Same
  <2> QED
    BY <2>1, <2>2, <2>3 DEF Inserted, HandlerStep
<1> QED
  BY <1>2, <1>3, CallsMove

\* Only the pass under way writes a state file, and a run once named stays.
LEMMA StateFiles ==
  ASSUME DeliveryTypes, PassAt, DeliveryNext, NEW d \in Dirs
  PROVE  /\ \/ syncState'[d] = syncState[d]
            \/ d = syncer.dir /\ syncer.pc \in {"record", "answered", "ended"}
         /\ syncState[d].run # 0 => syncState'[d].run = syncState[d].run
<1>1. /\ syncState \in [Dirs -> [run : RunNames \cup {0}, synced : Nat, done : BOOLEAN]]
      /\ syncer \in SyncerState /\ syncer.dir \in Dirs
  BY DEF DeliveryTypes, SyncerState
<1>2. CASE RecordRunName
  BY <1>1, <1>2 DEF RecordRunName, RecordedRun, PassAt, Stands
<1>3. CASE WriteCursor
  BY <1>1, <1>3 DEF WriteCursor, PassAt, Stands
<1>4. CASE WriteDone
  BY <1>1, <1>4 DEF WriteDone, PassAt, Stands
<1>5. CASE UNCHANGED syncState
  BY <1>5
<1> QED
  BY <1>2, <1>3, <1>4, <1>5 DEF DeliveryNext, Shimming, ShimDies, WriteOffline, Syncing, SyncerDies,
     LogPoint, FlushBuffer, LateTick, Flush, Ping, FinishRun, DrainFlush, EndDrain, PostFinish,
     CloseSpill,
     OpenDir, ResolveRunName, SendBatch, SendFinish, Handle, LoadRun, UpsertStatus, InsertBatch,
     UpsertCounters, Unheard, Answer, LoseCall, RefuseCall, TimeOut

\* The points of an offline directory stay in the one run.
LEMMA OneRunKept ==
  ASSUME DeliveryTypes, LinesEnd, PassAt, OneRun, DeliveryNext
  PROVE  OneRun'
<1> SUFFICES ASSUME NEW d \in OfflineDirs
             PROVE  /\ \A r \in calls' : r.pts \cap PointsOf(d) # {} => r.run = syncState'[d].run
                    /\ \A n \in RunNames :
                          received'[n] \cap PointsOf(d) # {} => n = syncState'[d].run
  BY DEF OneRun, PointsOf
<1>1. d \in Dirs /\ d # "spill" /\ 0 \notin RunNames
  BY Names, DeliveryAssumption DEF Dirs
<1>2. syncState[d].run # 0 => syncState'[d].run = syncState[d].run
  BY <1>1, StateFiles
<1>3. \A q \in calls : q.run \in RunNames /\
          (q.pts \cap PointsOf(d) # {} => q.run = syncState'[d].run)
  BY <1>1, <1>2 DEF DeliveryTypes, CallState, OneRun
<1>4. \A n \in RunNames : received[n] \cap PointsOf(d) # {} => n = syncState'[d].run
  BY <1>1, <1>2 DEF OneRun
<1>5. CASE ClientStep
  <2>1. ASSUME NEW r \in calls', Fresh(r), r.pts \cap PointsOf(d) # {} PROVE r.run = syncState'[d].run
    <3>1. PointsOf("spill") \cap PointsOf(d) = {}
      BY <1>1, Names
    <3>2. r.from = "sync" /\ syncer.pc = "send" /\ r.run = syncer.run
          /\ r.pts \subseteq PointsOf(syncer.dir)
      BY <2>1, <3>1 DEF Fresh
    <3>3. syncer.dir \in Dirs /\ d = syncer.dir
      BY <1>1, <2>1, <3>2, Names DEF DeliveryTypes, SyncerState
    <3> QED
      BY <1>2, <3>2, <3>3 DEF PassAt, Stands
  <2> QED
    BY <1>3, <1>4, <1>5, <2>1 DEF ClientStep, Same
<1>6. ASSUME NEW q \in calls, Handle(q)
      PROVE  /\ \A r \in calls' : r.pts \cap PointsOf(d) # {} => r.run = syncState'[d].run
             /\ \A n \in RunNames : received'[n] \cap PointsOf(d) # {} => n = syncState'[d].run
  <2>1. PICK r : HandlerStep(q, r)
    BY <1>6, HandlerMoves
  <2>2. \A s \in calls' : s.pts \cap PointsOf(d) # {} => s.run = syncState'[d].run
    BY <1>3, <2>1 DEF HandlerStep, Same
  <2>3. ASSUME NEW n \in RunNames, received'[n] \cap PointsOf(d) # {} PROVE n = syncState'[d].run
    <3>1. received'[n] = received[n] \/ (n = q.run /\ received'[n] \subseteq received[n] \cup q.pts)
      BY <2>1 DEF HandlerStep
    <3> QED
      BY <1>3, <1>4, <2>3, <3>1
  <2> QED
    BY <2>2, <2>3
<1> QED
  BY <1>5, <1>6, CallsMove

(***************************************************************************)
(* The pass of tf experiments sync.                                        *)
(***************************************************************************)

\* Steps in which the pass does not move.
SyncerStands == UNCHANGED <<syncer, syncState>>

\* The steps of the shim and of offline runs are.
LEMMA OthersLeaveSync ==
  ASSUME DeliveryTypes, Shimming \/ ShimDies \/ \E d \in OfflineDirs : WriteOffline(d)
  PROVE  SyncerStands /\ Awaited("sync")' \subseteq Awaited("sync")
<1>1. ASSUME NEW kind, NEW pts, NEW want, calls' = calls \cup {Call("shim", kind, 1, pts, want)}
      PROVE  Awaited("sync")' \subseteq Awaited("sync")
  <2>1. Call("shim", kind, 1, pts, want).from = "shim"
    BY DEF Call
  <2> QED
    BY <1>1, <2>1 DEF Awaited
<1>2. CASE LogPoint \/ FinishRun \/ EndDrain \/ CloseSpill
  BY <1>2 DEF LogPoint, FinishRun, EndDrain, CloseSpill, SyncerStands, Awaited
<1>3. CASE FlushBuffer \/ LateTick \/ Ping \/ PostFinish
  BY <1>1, <1>3 DEF FlushBuffer, LateTick, Flush, LogCall, Ping, PostFinish, SyncerStands
<1>4. CASE DrainFlush
  <2>1. UNCHANGED calls => Awaited("sync")' \subseteq Awaited("sync")
    BY DEF Awaited
  <2> QED
    BY <1>1, <1>4, <2>1 DEF DrainFlush, LogCall, SyncerStands
<1>5. CASE ShimDies
  <2>1. calls' = Orphaned("shim") /\ SyncerStands
    BY <1>5 DEF ShimDies, SyncerStands
  <2>2. ASSUME NEW r \in calls', r.from = "sync", r.awaited PROVE r \in calls
    BY <2>1, <2>2, Orphans DEF DeliveryTypes
  <2> QED
    BY <2>1, <2>2 DEF Awaited
<1>6. CASE \E d \in OfflineDirs : WriteOffline(d)
  BY <1>6 DEF WriteOffline, SyncerStands, Awaited
<1> QED
  BY <1>2, <1>3, <1>4, <1>5, <1>6 DEF Shimming

\* An answer, or a lost call, ends the wait of the client it is for, unless it goes
\* on to the next chunk, and leaves the other one alone.
LEMMA EndsWait ==
  ASSUME DeliveryTypes, ShimWaits, SyncWaits, NEW q \in calls, NEW outcome, NEW b,
         Ended(q, outcome, b)
  PROVE  /\ q.from \in {"shim", "sync"}
         /\ Awaited(q.from)' \subseteq IF outcome = "sent" THEN NextChunk(q) ELSE {}
         /\ \A from \in {"shim", "sync"} \ {q.from} : Awaited(from)' \subseteq Awaited(from)
<1>1. q \in CallState /\ ~[q EXCEPT !.awaited = FALSE].awaited
  BY Abandoned DEF DeliveryTypes
<1>2. q.from \in {"shim", "sync"} /\ q \in Awaited(q.from)
  BY <1>1 DEF CallState, Awaited, Ended
<1>3. \A r \in Awaited(q.from) : r = q
  BY <1>2 DEF ShimWaits, SyncWaits
<1>4. \A r \in NextChunk(q) : r.from = "shim" /\ q.from = "shim"
  BY DEF NextChunk, LogCall, Call
<1>5. \A r \in calls' : r.awaited =>
          (r \in calls /\ r # q) \/ (outcome = "sent" /\ r \in NextChunk(q))
  BY <1>1 DEF Ended
<1> QED
  BY <1>2, <1>3, <1>4, <1>5 DEF Awaited

\* A pass that does not move stands where it stood: directories only grow.
LEMMA StandsStill ==
  ASSUME DeliveryTypes, LinesStep, PassAt, SyncerStands
  PROVE  PassAt'
<1> DEFINE d == syncer.dir
<1>1. d \in Dirs /\ d' = d /\ syncState'[d] = syncState[d] /\ syncer' = syncer /\ syncer.last \in Nat
  BY DEF DeliveryTypes, SyncerState, SyncerStands
<1>2. /\ Len(lines[d]) \in Nat /\ Len(lines'[d]) \in Nat /\ Len(lines[d]) <= Len(lines'[d])
      /\ lines[d] # <<>> => lines'[d] # <<>>
      /\ \A i \in 1..Len(lines[d]) : lines'[d][i] = lines[d][i]
      /\ \A i \in 1..Len(lines[d]) : lines[d][i].finish => lines'[d] = lines[d]
  BY <1>1, LinesGrow
<1>3. Stands(syncer, syncState[d], lines[d])
  BY DEF PassAt
<1> HIDE DEF d
<1>4. syncState[d].synced \in Nat
  BY <1>1 DEF DeliveryTypes
<1>5. ASSUME syncer.pc # "idle"
      PROVE  /\ lines'[d] # <<>> /\ syncer.last <= Len(lines'[d])
             /\ \A i \in 1..syncer.last : ~lines'[d][i].finish
             /\ syncer.over => Len(lines'[d]) = syncer.last + 1 /\ lines'[d][syncer.last + 1].finish
  <2>1. syncer.last <= Len(lines[d]) /\ \A i \in 1..syncer.last : i \in 1..Len(lines[d])
    BY <1>1, <1>2, <1>3, <1>5 DEF Stands
  <2>2. syncer.over => syncer.last + 1 \in 1..Len(lines[d]) /\ lines'[d] = lines[d]
    BY <1>1, <1>2, <1>3, <1>5 DEF Stands
  <2> QED
    BY <1>1, <1>2, <1>3, <1>5, <2>1, <2>2 DEF Stands
<1>6. Stands(syncer, syncState[d], lines'[d])
  BY <1>3, <1>5 DEF Stands
<1> QED
  BY <1>1, <1>6 DEF PassAt, d

\* The pass knows where it stands in its directory.
LEMMA PassKept ==
  ASSUME DeliveryTypes, LinesEnd, ShimWaits, SyncWaits, PassAt, OnDisk, DeliveryNext
  PROVE  PassAt'
<1> DEFINE d == syncer.dir
           st == syncState[d]
           l == lines[d]
<1>1. /\ syncer \in SyncerState /\ d = syncer.dir /\ d \in Dirs /\ st.synced \in Nat
      /\ st.run \in RunNames \cup {0}
      /\ Stands(syncer, st, l) /\ Len(l) \in Nat
      /\ syncState \in [Dirs -> [run : RunNames \cup {0}, synced : Nat, done : BOOLEAN]]
  BY LenProperties DEF DeliveryTypes, SyncerState, PassAt
<1>2. SyncerIdle \in SyncerState /\ SyncerIdle.pc = "idle"
  BY Names DEF SyncerIdle, SyncerState
<1>3. ASSUME syncer' = SyncerIdle PROVE PassAt'
  BY <1>2, <1>3 DEF PassAt, Stands
<1>4. ASSUME SyncerStands PROVE PassAt'
  BY <1>4, StandsStill, LinesMove
<1>5. ASSUME NEW e \in Dirs, OpenDir(e) PROVE PassAt'
  <2> DEFINE n == LogLines(e)
             x == [SyncerIdle EXCEPT
                    !.pc = IF syncState[e].run = 0 THEN "resolve" ELSE "send",
                    !.dir = e, !.last = n, !.over = n < Len(lines[e]),
                    !.run = syncState[e].run]
  <2>1. syncer' = x /\ UNCHANGED <<lines, syncState>> /\ ~syncState[e].done /\ lines[e] # <<>>
    BY <1>5 DEF OpenDir
  <2>2. n \in Nat /\ n <= Len(lines[e]) /\ (\A i \in 1..n : ~lines[e][i].finish)
        /\ (n < Len(lines[e]) => Len(lines[e]) = n + 1 /\ lines[e][n + 1].finish)
    BY CountLines
  <2>3. syncState[e].synced \in Nat /\ syncState[e].synced <= n
    <3>1. syncState[e].synced \in Nat /\ syncState[e].synced <= Len(lines[e])
          /\ (\A i \in 1..syncState[e].synced : ~lines[e][i].finish) /\ Len(lines[e]) \in Nat
      BY <1>1, LenProperties DEF OnDisk, DeliveryTypes
    <3> QED
      BY <2>2, <3>1
  <2>4. /\ x.pc = (IF syncState[e].run = 0 THEN "resolve" ELSE "send") /\ x.dir = e /\ x.last = n
        /\ x.over = (n < Len(lines[e])) /\ x.run = syncState[e].run
    BY DEF SyncerIdle
  <2>5. e = "spill" => syncState[e].run \in {0, 1}
    BY DEF OnDisk
  <2> HIDE DEF n, x
  <2>6. Stands(x, syncState[e], lines[e])
    BY <2>1, <2>2, <2>3, <2>4, <2>5 DEF Stands
  <2> QED
    BY <2>1, <2>4, <2>6 DEF PassAt
<1>6. CASE ResolveRunName
  <2>1. syncer' = [syncer EXCEPT !.pc = "record", !.run = Resolved(d)] /\ syncer.pc = "resolve"
        /\ UNCHANGED <<lines, syncState>>
    BY <1>6 DEF ResolveRunName
  <2>2. Resolved(d) \in RunNames /\ Resolved(d) # 0 /\ (d = "spill" => Resolved(d) = 1)
    BY <1>1, Resolves, Names
  <2> DEFINE x == [syncer EXCEPT !.pc = "record", !.run = Resolved(d)]
  <2>3. x.pc = "record" /\ x.run = Resolved(d) /\ x.dir = d /\ x.last = syncer.last
        /\ x.over = syncer.over
    BY <1>1 DEF SyncerState
  <2> HIDE DEF x, d, st, l
  <2>4. Stands(x, st, l)
    BY <1>1, <2>1, <2>2, <2>3 DEF Stands
  <2> QED
    BY <2>1, <2>3, <2>4 DEF PassAt, x, d, st, l
<1>7. CASE RecordRunName
  <2> DEFINE x == [syncer EXCEPT !.pc = "send"]
             t == [st EXCEPT !.run = syncer.run]
  <2>1. syncer' = x /\ syncer.pc = "record" /\ UNCHANGED lines /\ syncState'[d] = t
    BY <1>1, <1>7 DEF RecordRunName, RecordedRun
  <2>2. x.pc = "send" /\ x.run = syncer.run /\ x.dir = d /\ x.last = syncer.last /\ x.over = syncer.over
    BY <1>1 DEF SyncerState
  <2>3. t.run = syncer.run /\ t.synced = st.synced /\ t.done = st.done
    BY <1>1
  <2> HIDE DEF x, t, d, st, l
  <2>4. Stands(x, t, l)
    BY <1>1, <2>1, <2>2, <2>3 DEF Stands
  <2> QED
    BY <2>1, <2>2, <2>4 DEF PassAt, d, l
<1>8. CASE SendBatch
  <2>1. PICK k \in st.synced + 1..syncer.last : syncer' = [syncer EXCEPT !.pc = "sent", !.upTo = k]
    BY <1>8 DEF SendBatch
  <2> DEFINE x == [syncer EXCEPT !.pc = "sent", !.upTo = k]
  <2>2. syncer.pc = "send" /\ UNCHANGED <<lines, syncState>>
    BY <1>8 DEF SendBatch
  <2>3. x.pc = "sent" /\ x.run = syncer.run /\ x.dir = d /\ x.last = syncer.last
        /\ x.over = syncer.over /\ x.upTo = k
    BY <1>1 DEF SyncerState
  <2> HIDE DEF x, d, st, l
  <2>4. Stands(x, st, l)
    BY <1>1, <2>1, <2>2, <2>3 DEF Stands
  <2> QED
    BY <2>1, <2>2, <2>3, <2>4 DEF PassAt, x, d, st, l
<1>9. CASE SendFinish
  <2>1. CASE syncer.over
    <3> DEFINE x == [syncer EXCEPT !.pc = "ending"]
    <3>1. syncer' = x /\ syncer.pc = "send" /\ st.synced = syncer.last /\ UNCHANGED <<lines, syncState>>
      BY <1>9, <2>1 DEF SendFinish
    <3>2. x.pc = "ending" /\ x.run = syncer.run /\ x.dir = d /\ x.last = syncer.last
          /\ x.over = syncer.over
      BY <1>1 DEF SyncerState
    <3> HIDE DEF x, d, st, l
    <3>3. Stands(x, st, l)
      BY <1>1, <2>1, <3>1, <3>2 DEF Stands
    <3> QED
      BY <3>1, <3>2, <3>3 DEF PassAt, d, st, l
  <2> QED
    BY <1>3, <1>9, <2>1 DEF SendFinish
<1>10. CASE WriteCursor
  <2> DEFINE x == [syncer EXCEPT !.pc = "send"]
             t == [st EXCEPT !.run = syncer.run, !.synced = syncer.upTo]
  <2>1. syncer' = x /\ syncer.pc = "answered" /\ UNCHANGED lines /\ syncState'[d] = t
    BY <1>1, <1>10 DEF WriteCursor
  <2>2. x.pc = "send" /\ x.run = syncer.run /\ x.dir = d /\ x.last = syncer.last /\ x.over = syncer.over
    BY <1>1 DEF SyncerState
  <2>3. t.run = syncer.run /\ t.synced = syncer.upTo /\ t.done = st.done
    BY <1>1
  <2> HIDE DEF x, t, d, st, l
  <2>4. Stands(x, t, l)
    BY <1>1, <2>1, <2>2, <2>3 DEF Stands
  <2> QED
    BY <2>1, <2>2, <2>4 DEF PassAt, d, l
<1>11. CASE WriteDone \/ SyncerDies
  BY <1>3, <1>11 DEF WriteDone, SyncerDies
<1>12. ASSUME NEW q \in calls, NEW outcome, NEW b, Ended(q, outcome, b)
       PROVE  PassAt'
  <2> USE <1>12 DEF Ended
  <2>1. CASE q.from = "shim"
    BY <1>4, <2>1 DEF Heard, SyncerStands
  <2>2. CASE q.from # "shim" /\ outcome # "sent"
    BY <1>3, <2>2 DEF Heard, SyncerHears
  <2>3. CASE q.from # "shim" /\ outcome = "sent"
    <3> DEFINE x == [syncer EXCEPT !.pc = IF @ = "ending" THEN "ended" ELSE "answered"]
    <3>1. syncer' = x /\ UNCHANGED <<lines, syncState>>
      BY <2>3 DEF Heard, SyncerHears
    <3>2. syncer.pc \in {"sent", "ending"}
      <4>1. q \in Awaited("sync")
        BY <2>3 DEF DeliveryTypes, CallState, Awaited
      <4> QED
        BY <4>1 DEF SyncWaits
    <3>3. x.pc = (IF syncer.pc = "ending" THEN "ended" ELSE "answered") /\ x.run = syncer.run
          /\ x.dir = d /\ x.last = syncer.last /\ x.over = syncer.over /\ x.upTo = syncer.upTo
      BY <1>1 DEF SyncerState
    <3> HIDE DEF x, d, st, l
    <3>4. Stands(x, st, l)
      BY <1>1, <3>2, <3>3 DEF Stands
    <3> QED
      BY <3>1, <3>3, <3>4 DEF PassAt, d, st, l
  <2> QED
    BY <2>1, <2>2, <2>3
<1>13. ASSUME NEW q \in calls, Answer(q) \/ LoseCall(q) \/ RefuseCall(q) \/ TimeOut(q) PROVE PassAt'
  BY <1>12, <1>13, EndedMoves
<1>14. ASSUME NEW q \in calls, Handle(q) \/ Unheard(q) PROVE SyncerStands
  BY <1>14 DEF Handle, LoadRun, UpsertStatus, InsertBatch, UpsertCounters, Unheard, SyncerStands
<1> QED
  BY <1>4, <1>5, <1>6, <1>7, <1>8, <1>9, <1>10, <1>11, <1>13, <1>14, OthersLeaveSync
     DEF DeliveryNext, Syncing

\* What is on disk about the passes stays true.
LEMMA DiskKept ==
  ASSUME DeliveryTypes, LinesEnd, ShimWaits, SyncWaits, PassAt, OnDisk, DeliveryNext
  PROVE  OnDisk'
<1>1. /\ syncState \in [Dirs -> [run : RunNames \cup {0}, synced : Nat, done : BOOLEAN]]
      /\ syncer \in SyncerState /\ syncer.dir \in Dirs /\ syncer.last \in Nat
      /\ \A n \in RunNames : received[n] \subseteq received'[n]
  BY ReceivedGrows DEF DeliveryTypes, SyncerState
<1>2. ASSUME NEW d \in Dirs
      PROVE  /\ syncState'[d].synced <= Len(lines'[d])
             /\ \A i \in 1..syncState'[d].synced : ~lines'[d][i].finish
             /\ syncState'[d].run = 0 => syncState'[d].synced = 0 /\ ~syncState'[d].done
             /\ syncState'[d].done => lines'[d] # <<>> /\ lines'[d][Len(lines'[d])].finish
             /\ \A i \in 1..Len(lines'[d]) : (i <= syncState'[d].synced \/ syncState'[d].done) =>
                   syncState'[d].run # 0 /\ lines'[d][i].pts \subseteq received'[syncState'[d].run]
             /\ d = "spill" => syncState'[d].run \in {0, 1}
  <2> DEFINE st == syncState[d]
             t == syncState'[d]
             l == lines[d]
             m == lines'[d]
  <2>1. /\ st.run \in RunNames \cup {0} /\ st.synced \in Nat
        /\ st.synced <= Len(l) /\ (\A i \in 1..st.synced : ~l[i].finish)
        /\ st.run = 0 => st.synced = 0 /\ ~st.done
        /\ st.done => l # <<>> /\ l[Len(l)].finish
        /\ \A i \in 1..Len(l) : (i <= st.synced \/ st.done) =>
              st.run # 0 /\ l[i].pts \subseteq received[st.run]
        /\ d = "spill" => st.run \in {0, 1}
    BY <1>1 DEF OnDisk
  <2>2. /\ Len(l) \in Nat /\ Len(m) \in Nat /\ Len(l) <= Len(m) /\ (l # <<>> => m # <<>>)
        /\ l # <<>> => Len(l) \in 1..Len(l)
        /\ \A i \in 1..Len(l) : m[i] = l[i]
        /\ \A i \in 1..Len(l) : l[i].finish => m = l
    <3>1. l # <<>> => Len(l) \in 1..Len(l)
      BY EmptySeq DEF DeliveryTypes
    <3> QED
      BY <3>1, LinesMove, LinesGrow
  <2> SUFFICES /\ t.synced <= Len(m)
               /\ \A i \in 1..t.synced : ~m[i].finish
               /\ t.run = 0 => t.synced = 0 /\ ~t.done
               /\ t.done => m # <<>> /\ m[Len(m)].finish
               /\ \A i \in 1..Len(m) : (i <= t.synced \/ t.done) =>
                     t.run # 0 /\ m[i].pts \subseteq received'[t.run]
               /\ d = "spill" => t.run \in {0, 1}
    OBVIOUS
  <2>3. CASE t = st
    <3>1. st.done => m = l
      BY <2>1, <2>2
    <3>2. \A i \in 1..Len(m) : (i <= st.synced \/ st.done) => i \in 1..Len(l) /\ m[i] = l[i]
      BY <2>1, <2>2, <3>1
    <3>3. \A i \in 1..st.synced : i \in 1..Len(l) /\ ~m[i].finish
      BY <2>1, <2>2
    <3> HIDE DEF t, st, l, m
    <3>4. st.run # 0 => received[st.run] \subseteq received'[st.run]
      BY <1>1, <2>1
    <3> QED
      BY <2>1, <2>2, <2>3, <3>1, <3>2, <3>3, <3>4
  <2>4. CASE RecordRunName
    <3>1. syncer.pc = "record" /\ m = l /\ received' = received
      BY <2>4 DEF RecordRunName
    <3>2. t = st \/ (d = syncer.dir /\ t = [st EXCEPT !.run = syncer.run])
      BY <1>1, <2>4 DEF RecordRunName, RecordedRun
    <3>3. d = syncer.dir => st.run = 0 /\ syncer.run # 0 /\ (d = "spill" => syncer.run \in {0, 1})
      BY <3>1 DEF PassAt, Stands
    <3>4. CASE d = syncer.dir /\ t = [st EXCEPT !.run = syncer.run]
      <4>1. t.run = syncer.run /\ t.synced = st.synced /\ t.done = st.done
        BY <1>1, <3>4
      <4> HIDE DEF t, st, l, m
      <4> QED
        BY <2>1, <3>1, <3>3, <3>4, <4>1
    <3> QED
      BY <2>3, <3>2, <3>4
  <2>5. CASE WriteCursor
    <3>1. syncer.pc = "answered" /\ m = l /\ received' = received
      BY <2>5 DEF WriteCursor
    <3>2. t = st \/ (d = syncer.dir /\ t = [st EXCEPT !.run = syncer.run, !.synced = syncer.upTo])
      BY <1>1, <2>5 DEF WriteCursor
    <3>3. CASE d = syncer.dir /\ t = [st EXCEPT !.run = syncer.run, !.synced = syncer.upTo]
      <4>1. t.run = syncer.run /\ t.synced = syncer.upTo /\ t.done = st.done
        BY <1>1, <3>3
      <4>2. syncer.run = st.run /\ st.run # 0 /\ syncer.upTo \in st.synced + 1..syncer.last
            /\ syncer.last <= Len(l) /\ (\A i \in 1..syncer.last : ~l[i].finish) /\ ~st.done
        BY <3>1, <3>3 DEF PassAt, Stands
      <4>3. Batch(d, st.synced, syncer.upTo) \subseteq received[st.run]
        BY <3>1, <3>3, <4>2 DEF SyncWaits
      <4>4. \A i \in 1..Len(l) : i <= syncer.upTo => l[i].pts \subseteq received[st.run]
        <5> SUFFICES ASSUME NEW i \in 1..Len(l), i <= syncer.upTo
             PROVE l[i].pts \subseteq received[st.run]
          OBVIOUS
        <5>1. CASE i <= st.synced
          BY <2>1, <5>1
        <5>2. CASE ~(i <= st.synced)
          <6>1. i \in st.synced + 1..syncer.upTo
            BY <1>1, <2>1, <4>2, <5>2
          <6>2. l[i].pts \subseteq Batch(d, st.synced, syncer.upTo)
            BY <6>1 DEF Batch
          <6> QED
            BY <4>3, <6>2
        <5> QED
          BY <5>1, <5>2
      <4> HIDE DEF t, st, l, m
      <4>5. syncer.upTo \in Nat /\ syncer.upTo <= Len(l) /\ \A i \in 1..syncer.upTo : ~l[i].finish
        BY <1>1, <2>1, <2>2, <4>2
      <4> QED
        BY <2>1, <3>1, <4>1, <4>2, <4>4, <4>5
    <3> QED
      BY <2>3, <3>2, <3>3
  <2>6. CASE WriteDone
    <3>1. syncer.pc = "ended" /\ m = l /\ received' = received
      BY <2>6 DEF WriteDone
    <3>2. t = st \/ (d = syncer.dir /\ t = [st EXCEPT !.done = TRUE])
      BY <1>1, <2>6 DEF WriteDone
    <3>3. CASE d = syncer.dir /\ t = [st EXCEPT !.done = TRUE]
      <4>1. t.run = st.run /\ t.synced = st.synced /\ t.done
        BY <1>1, <3>3
      <4>2. st.run # 0 /\ st.synced = syncer.last /\ Len(l) = syncer.last + 1
            /\ l[syncer.last + 1].finish /\ l # <<>>
        BY <3>1, <3>3 DEF PassAt, Stands
      <4>3. l[Len(l)].pts = {} /\ Len(l) \in 1..Len(l)
        <5>1. Len(l) \in 1..Len(l)
          BY <2>2, <4>2
        <5> QED
          BY <4>2, <5>1 DEF LinesEnd
      <4>4. \A i \in 1..Len(l) : i <= st.synced \/ i = Len(l)
        BY <1>1, <4>2
      <4> HIDE DEF t, st, l, m
      <4> QED
        BY <2>1, <3>1, <4>1, <4>2, <4>3, <4>4
    <3> QED
      BY <2>3, <3>2, <3>3
  <2>7. CASE UNCHANGED syncState
    BY <2>3, <2>7
  <2> HIDE DEF st, t, l, m
  <2> QED
    BY <2>4, <2>5, <2>6, <2>7 DEF DeliveryNext, Shimming, ShimDies, WriteOffline, Syncing, SyncerDies,
       LogPoint, FlushBuffer, LateTick, Flush, Ping, FinishRun, DrainFlush, EndDrain, PostFinish,
     CloseSpill,
       OpenDir, ResolveRunName, SendBatch, SendFinish, Handle, LoadRun, UpsertStatus, InsertBatch,
       UpsertCounters, Unheard, Answer, LoseCall, RefuseCall, TimeOut
<1> QED
  BY <1>2, Names DEF OnDisk

\* A pass that does not move waits for what it waited for.
LEMMA SyncWaitsOn ==
  ASSUME DeliveryTypes, LinesEnd, PassAt, SyncWaits, LinesStep, SyncerStands,
         \A n \in RunNames : received[n] \subseteq received'[n],
         \A q, r \in Awaited("sync")' : q = r,
         \A r \in Awaited("sync")' : \E q \in Awaited("sync") : Same(q, r)
  PROVE  SyncWaits'
<1> DEFINE d == syncer.dir
           from == syncState[d].synced
<1>1. d \in Dirs /\ from \in Nat /\ syncer.upTo \in Nat /\ syncer.last \in Nat /\ syncer' = syncer
      /\ syncState' = syncState
  BY DEF DeliveryTypes, SyncerState, SyncerStands
<1>2. syncer.pc \in {"sent", "answered"} =>
         UNION {lines'[d][i].pts : i \in from + 1..syncer.upTo} = Batch(d, from, syncer.upTo)
  <2> SUFFICES ASSUME syncer.pc \in {"sent", "answered"}
               PROVE UNION {lines'[d][i].pts : i \in from + 1..syncer.upTo} = Batch(d, from, syncer.upTo)
    OBVIOUS
  <2>1. syncer.upTo \in from + 1..syncer.last /\ syncer.last <= Len(lines[d])
    BY DEF PassAt, Stands
  <2>2. Len(lines[d]) \in Nat
    BY <1>1, LenProperties DEF DeliveryTypes
  <2>3. syncer.upTo <= Len(lines[d])
    BY <1>1, <2>1, <2>2
  <2> HIDE DEF d, from
  <2> QED
    BY <1>1, <2>3, BatchOf
<1>3. ASSUME NEW r \in Awaited("sync")'
      PROVE  /\ r.run = syncer.run
             /\ \/ r.kind = "log" /\ syncer.pc = "sent"
                   /\ r.pts = UNION {lines'[d][i].pts : i \in from + 1..syncer.upTo}
                \/ r.kind = "finish" /\ syncer.pc = "ending"
  <2>1. PICK q \in Awaited("sync") : Same(q, r)
    BY <1>3
  <2> QED
    BY <1>2, <2>1 DEF SyncWaits, Same
<1>4. syncer.pc = "answered" =>
        UNION {lines'[d][i].pts : i \in from + 1..syncer.upTo} \subseteq received'[syncer.run]
  <2>1. syncer.pc = "answered" => syncer.run \in RunNames
    BY DEF PassAt, Stands, DeliveryTypes, SyncerState
  <2> QED
    BY <1>2, <2>1 DEF SyncWaits
<1> QED
  BY <1>1, <1>3, <1>4 DEF SyncWaits, Batch

\* The pass waits for one call, which carries the lines behind the cursor.
LEMMA SyncWaitsKept ==
  ASSUME DeliveryTypes, LinesEnd, ShimWaits, Inserted, SyncWaits, PassAt, DeliveryNext
  PROVE  SyncWaits'
<1>1. LinesStep /\ \A n \in RunNames : received[n] \subseteq received'[n]
  BY LinesMove, ReceivedGrows
<1>2. \A q \in calls : q \in CallState
  BY DEF DeliveryTypes
<1>3. ASSUME SyncerStands, Awaited("sync")' \subseteq Awaited("sync") PROVE SyncWaits'
  <2>1. \A q, r \in Awaited("sync")' : q = r
    BY <1>3 DEF SyncWaits
  <2>2. \A r \in Awaited("sync")' : Same(r, r)
    BY DEF Same
  <2> QED
    BY <1>1, <1>3, <2>1, <2>2, SyncWaitsOn
<1>4. ASSUME Awaited("sync")' = {}, syncer'.pc # "answered" PROVE SyncWaits'
  BY <1>4 DEF SyncWaits
<1>5. ASSUME syncer.pc \notin {"sent", "ending"} PROVE Awaited("sync") = {}
  BY <1>5 DEF SyncWaits
<1>6. ASSUME UNCHANGED calls PROVE Awaited("sync")' = Awaited("sync")
  BY <1>6 DEF Awaited
<1>7. syncer \in SyncerState /\ SyncerIdle.pc = "idle"
  BY DEF DeliveryTypes, SyncerIdle
<1>8. CASE (\E d \in Dirs : OpenDir(d)) \/ ResolveRunName \/ RecordRunName \/ WriteCursor \/ WriteDone
  <2>1. UNCHANGED calls /\ syncer.pc \notin {"sent", "ending"} /\ syncer'.pc # "answered"
    BY <1>7, <1>8 DEF OpenDir, ResolveRunName, RecordRunName, WriteCursor, WriteDone,
           SyncerState, SyncerIdle
  <2> QED
    BY <1>4, <1>5, <1>6, <2>1
<1>9. CASE SendBatch
  <2> DEFINE from == syncState[syncer.dir].synced
  <2>1. PICK k \in from + 1..syncer.last :
          /\ calls' = calls \cup
               {Call("sync", "log", syncer.run, UNION {lines[syncer.dir][i].pts : i \in from + 1..k},
                     IF syncer.over THEN "finished" ELSE "running")}
          /\ syncer' = [syncer EXCEPT !.pc = "sent", !.upTo = k]
    BY <1>9 DEF SendBatch
  <2> DEFINE c == Call("sync", "log", syncer.run, UNION {lines[syncer.dir][i].pts : i \in from + 1..k},
                       IF syncer.over THEN "finished" ELSE "running")
  <2>2. syncer.pc = "send" /\ UNCHANGED <<lines, syncState>>
    BY <1>9 DEF SendBatch
  <2>3. Awaited("sync")' \subseteq {c}
    BY <1>5, <2>1, <2>2 DEF Awaited
  <2>4. c.run = syncer.run /\ c.kind = "log" /\ c.pts = Batch(syncer.dir, from, k)
    BY DEF Call, Batch
  <2>5. syncer'.run = syncer.run /\ syncer'.pc = "sent" /\ syncer'.dir = syncer.dir /\ syncer'.upTo = k
    BY <1>7, <2>1 DEF SyncerState
  <2> HIDE DEF c
  <2>6. Batch(syncer.dir, from, k) = Batch(syncer.dir, from, k)'
    BY <2>2, <2>5 DEF Batch
  <2> QED
    BY <2>2, <2>3, <2>4, <2>5, <2>6 DEF SyncWaits, Batch
<1>10. CASE SendFinish
  <2>1. CASE syncer.over
    <3> DEFINE c == Call("sync", "finish", syncer.run, {}, "finished")
    <3>1. syncer.pc = "send" /\ calls' = calls \cup {c} /\ syncer' = [syncer EXCEPT !.pc = "ending"]
      BY <1>10, <2>1 DEF SendFinish
    <3>2. Awaited("sync")' \subseteq {c}
      BY <1>5, <3>1 DEF Awaited
    <3>3. c.run = syncer.run /\ c.kind = "finish"
      BY DEF Call
    <3>4. syncer'.run = syncer.run /\ syncer'.pc = "ending"
      BY <1>7, <3>1 DEF SyncerState
    <3> HIDE DEF c
    <3> QED
      BY <3>2, <3>3, <3>4 DEF SyncWaits
  <2>2. CASE ~syncer.over
    <3>1. UNCHANGED calls /\ syncer.pc = "send" /\ syncer'.pc = "idle"
      BY <1>7, <1>10, <2>2 DEF SendFinish
    <3> QED
      BY <1>4, <1>5, <1>6, <3>1
  <2> QED
    BY <2>1, <2>2
<1>11. CASE SyncerDies
  <2>1. calls' = Orphaned("sync") /\ syncer'.pc = "idle"
    BY <1>7, <1>11 DEF SyncerDies
  <2>2. Awaited("sync")' = {}
    BY <2>1, Orphans DEF Awaited, DeliveryTypes
  <2> QED
    BY <1>4, <2>1, <2>2
<1>12. ASSUME NEW q \in calls, Unheard(q) PROVE SyncWaits'
  BY <1>3, <1>12 DEF Unheard, Awaited, SyncerStands
<1>13. ASSUME NEW q \in calls, Handle(q) PROVE SyncWaits'
  <2>1. PICK r : HandlerStep(q, r)
    BY <1>13, HandlerMoves
  <2>2. \A s \in Awaited("sync")' :
           (s \in Awaited("sync") /\ s # q) \/ (s = r /\ q \in Awaited("sync"))
    BY <2>1 DEF HandlerStep, Awaited, Same
  <2>3. \A s, t \in Awaited("sync")' : s = t
    BY <2>2 DEF SyncWaits
  <2>4. \A s \in Awaited("sync")' : \E u \in Awaited("sync") : Same(u, s)
    BY <2>1, <2>2 DEF HandlerStep, Same
  <2>5. SyncerStands
    BY <2>1 DEF HandlerStep, SyncerStands
  <2> QED
    BY <1>1, <2>3, <2>4, <2>5, SyncWaitsOn
<1>14. ASSUME NEW q \in calls, Answer(q) \/ LoseCall(q) \/ RefuseCall(q) \/ TimeOut(q) PROVE SyncWaits'
  <2>1. PICK outcome, b : Ended(q, outcome, b)
    BY <1>14, EndedMoves
  <2>2. q.awaited /\ Heard(q, outcome, b) /\ UNCHANGED <<syncState, received>>
        /\ (outcome = "sent" => q.pc = "answer")
    BY <2>1 DEF Ended
  <2>3. /\ q.from \in {"shim", "sync"}
        /\ Awaited(q.from)' \subseteq IF outcome = "sent" THEN NextChunk(q) ELSE {}
        /\ \A from \in {"shim", "sync"} \ {q.from} : Awaited(from)' \subseteq Awaited(from)
    BY <2>1, EndsWait
  <2>7. q.from = "sync" => Awaited("sync")' = {}
    BY <2>3 DEF NextChunk
  <2>4. CASE q.from = "shim"
    BY <1>3, <2>2, <2>3, <2>4 DEF Heard, SyncerStands
  <2>5. CASE q.from = "sync" /\ outcome # "sent"
    BY <1>4, <1>7, <2>2, <2>7, <2>5 DEF Heard, SyncerHears
  <2>6. CASE q.from = "sync" /\ outcome = "sent"
    <3>1. syncer' = [syncer EXCEPT !.pc = IF @ = "ending" THEN "ended" ELSE "answered"]
          /\ UNCHANGED lines
      BY <2>2, <2>6 DEF Heard, SyncerHears
    <3>2. syncer'.pc = (IF syncer.pc = "ending" THEN "ended" ELSE "answered")
          /\ syncer'.run = syncer.run /\ syncer'.dir = syncer.dir /\ syncer'.upTo = syncer.upTo
      BY <1>7, <3>1 DEF SyncerState
    <3>3. q \in Awaited("sync")
      BY <2>2, <2>6 DEF Awaited
    <3>4. CASE syncer.pc = "ending"
      BY <1>4, <2>7, <2>6, <3>2, <3>4
    <3>5. CASE syncer.pc # "ending"
      <4>1. q.run = syncer.run /\ q.pts = Batch(syncer.dir, syncState[syncer.dir].synced, syncer.upTo)
        BY <3>3, <3>5 DEF SyncWaits
      <4>2. q.pts \subseteq received[syncer.run]
        BY <2>2, <2>6, <4>1 DEF Inserted
      <4>3. Batch(syncer.dir, syncState[syncer.dir].synced, syncer.upTo)' = q.pts
        BY <2>2, <3>1, <3>2, <4>1 DEF Batch
      <4> QED
        BY <2>2, <2>7, <2>6, <3>2, <4>2, <4>3 DEF SyncWaits
    <3> QED
      BY <3>4, <3>5
  <2> QED
    BY <2>3, <2>4, <2>5, <2>6
<1> QED
  BY <1>3, <1>8, <1>9, <1>10, <1>11, <1>12, <1>13, <1>14, OthersLeaveSync DEF DeliveryNext, Syncing

(***************************************************************************)
(* The shim.                                                               *)
(***************************************************************************)

\* The steps of the pass and of offline runs leave the shim and its requests alone.
LEMMA OthersLeaveShim ==
  ASSUME DeliveryTypes, Syncing \/ SyncerDies \/ \E d \in OfflineDirs : WriteOffline(d)
  PROVE  UNCHANGED shim /\ Awaited("shim")' \subseteq Awaited("shim")
<1>1. ASSUME NEW kind, NEW run, NEW pts, NEW want,
             calls' = calls \cup {Call("sync", kind, run, pts, want)}
      PROVE  Awaited("shim")' \subseteq Awaited("shim")
  <2>1. Call("sync", kind, run, pts, want).from = "sync"
    BY DEF Call
  <2> QED
    BY <1>1, <2>1 DEF Awaited
<1>2. ASSUME UNCHANGED calls PROVE Awaited("shim")' \subseteq Awaited("shim")
  BY <1>2 DEF Awaited
<1>3. CASE (\E d \in Dirs : OpenDir(d)) \/ ResolveRunName \/ RecordRunName \/ WriteCursor \/ WriteDone
           \/ \E d \in OfflineDirs : WriteOffline(d)
  BY <1>2, <1>3 DEF OpenDir, ResolveRunName, RecordRunName, WriteCursor, WriteDone, WriteOffline
<1>4. CASE SendBatch
  BY <1>1, <1>4 DEF SendBatch
<1>5. CASE SendFinish
  BY <1>1, <1>2, <1>5 DEF SendFinish
<1>6. CASE SyncerDies
  <2>1. calls' = Orphaned("sync") /\ UNCHANGED shim
    BY <1>6 DEF SyncerDies
  <2> QED
    BY <2>1, Orphans DEF Awaited, DeliveryTypes
<1> QED
  BY <1>3, <1>4, <1>5, <1>6 DEF Syncing

\* What the shim hears of the call it waits for frees the lock and empties the batch,
\* unless there is another chunk to send.
LEMMA HeardFrees ==
  ASSUME DeliveryTypes, ShimWaits, NEW q \in Awaited("shim"), NEW outcome, NEW b,
         ShimHears(q, outcome, b)
  PROVE  /\ IF outcome = "sent" /\ NextChunk(q) # {}
            THEN shim'.lock = shim.lock /\ shim'.sending = Rest(shim.sending)
            ELSE shim'.lock = "free" /\ shim'.sending = <<>>
         /\ IF q.kind = "finish" THEN shim'.pc = "spilled" /\ (shim'.finishOK => outcome = "sent")
            ELSE shim'.pc = shim.pc /\ shim'.finishOK = shim.finishOK
         /\ Len(shim'.buf) <= BufferMax \/ shim'.buf = shim.buf
         /\ shim'.sending # <<>> => shim'.buf = shim.buf
<1>1. shim \in ShimState /\ q.kind \in {"log", "ping", "finish"} /\ q.from = "shim"
  BY DEF DeliveryTypes, ShimTyped, CallState, Awaited
<1>2. q.kind # "log" => shim.sending = <<>> /\ NextChunk(q) = {}
  BY DEF ShimWaits, NextChunk
<1> DEFINE s == [shim EXCEPT !.lock = "free"]
<1>3. s \in ShimState /\ s.lock = "free" /\ s.sending = shim.sending /\ s.pc = shim.pc
      /\ s.finishOK = shim.finishOK /\ s.buf = shim.buf
  BY <1>1 DEF ShimState
<1>4. CASE q.kind = "log" /\ outcome = "sent" /\ Sent
  <2>1. NextChunk(q) # {} <=> Rest(shim.sending) # <<>>
    BY <1>1, <1>4 DEF NextChunk
  <2>2. CASE Rest(shim.sending) = <<>>
    <3>1. shim' = [shim EXCEPT !.lock = "free", !.sending = <<>>]
      BY <1>4, <2>2 DEF Sent
    <3> QED
      BY <1>1, <1>4, <2>1, <2>2, <3>1 DEF ShimState
  <2>3. CASE Rest(shim.sending) # <<>>
    <3>1. shim' = [shim EXCEPT !.sending = Rest(shim.sending)]
      BY <1>4, <2>3 DEF Sent
    <3> QED
      BY <1>1, <1>4, <2>1, <2>3, <3>1 DEF ShimState
  <2> QED
    BY <2>2, <2>3
<1> HIDE DEF s
<1>5. CASE q.kind = "ping" /\ shim' = s
  BY <1>2, <1>3, <1>5
<1>6. CASE q.kind = "finish" /\ shim' = [s EXCEPT !.pc = "spilled", !.finishOK = (outcome = "sent")]
  <2>1. PICK ok \in BOOLEAN : ok = (outcome = "sent")
    OBVIOUS
  <2>2. shim' = [s EXCEPT !.pc = "spilled", !.finishOK = ok]
    BY <1>6, <2>1, Zenon
  <2>3. shim'.pc = "spilled" /\ shim'.finishOK = ok /\ shim'.lock = "free" /\ shim'.buf = shim.buf
        /\ shim'.sending = shim.sending
    BY <1>3, <2>2 DEF ShimState
  <2> QED
    BY <1>2, <1>6, <2>1, <2>3
<1>7. CASE /\ q.kind = "log" /\ outcome = "drop"
           /\ shim' = [Dropped(s, ToSet(s.sending)) EXCEPT !.sending = <<>>]
  BY <1>3, <1>7 DEF ShimState, Dropped
<1>8. CASE q.kind = "log" /\ outcome = "retry" /\ Spills(PutBack(s), Evicted(s), b)
  <2>1. SpillOutcome(PutBack(s), Evicted(s), b)
    BY <1>3, <1>8, PutBackTyped, SpillsEnds
  <2> QED
    BY <1>3, <1>8, <2>1, PutBackTyped, SpilledTyped
<1> QED
  BY <1>4, <1>5, <1>6, <1>7, <1>8 DEF ShimHears, s

\* Past the drain the shim holds no more than its cap.
LEMMA CappedKept ==
  ASSUME DeliveryTypes, ShimWaits, DeliveryNext
  PROVE  Capped'
<1>1. /\ shim \in ShimState /\ BufferMax \in Nat /\ Len(<<>>) = 0
      /\ shim.buf \in Seq(PointsOf("spill")) /\ Len(shim.buf) \in Nat
      /\ shim.sending \in Seq(PointsOf("spill")) /\ Len(shim.sending) \in Nat
      /\ Len(Rest(shim.sending)) \in Nat /\ Len(Rest(shim.sending)) <= Len(shim.sending)
  <2>1. shim \in ShimState
    BY DEF DeliveryTypes, ShimTyped
  <2>2. shim.buf \in Seq(PointsOf("spill")) /\ shim.sending \in Seq(PointsOf("spill"))
    BY <2>1 DEF ShimState
  <2> QED
    BY <2>1, <2>2, EmptySeq, LenProperties, ChunkAndRest, DeliveryAssumption
<1>2. Capped /\ (shim.lock = "free" => Len(shim.sending) = 0)
  BY <1>1 DEF ShimWaits
<1> DEFINE u == Len(shim.sending)
           v == Len(shim.buf)
           w == Len(Rest(shim.sending))
<1>15. u \in Nat /\ v \in Nat /\ w \in Nat /\ w <= u /\ BufferMax \in Nat
  BY <1>1
<1>16. /\ shim.pc = "closing" => v <= BufferMax
       /\ shim.pc \in {"finishing", "spilled", "done"} => u + v <= BufferMax
  BY <1>2 DEF Capped
<1> HIDE DEF u, v, w
<1>3. ASSUME shim'.pc \notin {"closing", "finishing", "spilled", "done"} PROVE Capped'
  BY <1>3 DEF Capped
<1>4. CASE LogPoint \/ FinishRun \/ Ping
  BY <1>1, <1>3, <1>4 DEF LogPoint, FinishRun, Ping, ShimState
<1>5. CASE FlushBuffer
  BY <1>1, <1>3, <1>5 DEF FlushBuffer, Flush, ShimState
<1>6. CASE LateTick
  <2>1. shim'.pc = shim.pc /\ shim'.buf = <<>> /\ shim'.sending = shim.buf /\ shim.lock = "free"
        /\ shim.pc \in {"closing", "spilled", "done"}
    BY <1>1, <1>6 DEF LateTick, Flush, ShimState
  <2>2. v <= BufferMax
    BY <1>15, <1>16, <2>1
  <2>3. Len(shim'.buf) = 0 /\ Len(shim'.sending) = v
    BY <1>1, <2>1 DEF v
  <2>4. Len(shim'.sending) + Len(shim'.buf) <= BufferMax /\ Len(shim'.buf) <= BufferMax
    BY <1>15, <2>2, <2>3
  <2> QED
    BY <2>4 DEF Capped
<1>7. CASE DrainFlush
  <2>1. shim'.pc = "drained"
    BY <1>1, <1>7 DEF DrainFlush, ShimState
  <2> QED
    BY <1>3, <2>1
<1>8. CASE EndDrain
  <2> DEFINE s == [shim EXCEPT !.pc = "closing", !.buf = <<>>]
  <2>1. CASE shim' = [shim EXCEPT !.pc = "draining"]
    BY <1>1, <1>3, <2>1 DEF ShimState
  <2>2. CASE Spills(s, ToSet(shim.buf), budget)
    <3>1. s \in ShimState /\ s.buf = <<>> /\ s.pc = "closing"
      BY <1>1, EmptySeq DEF ShimState
    <3>2. ToSet(shim.buf) \subseteq PointsOf("spill")
      BY <1>1, LenProperties, ElementOfSeq DEF ToSet
    <3> HIDE DEF s
    <3>3. SpillOutcome(s, ToSet(shim.buf), budget)
      BY <2>2, <3>1, <3>2, SpillsEnds
    <3>4. shim'.pc = "closing" /\ shim'.buf = <<>>
      BY <3>1, <3>3, SpilledTyped
    <3> QED
      BY <1>1, <3>4 DEF Capped
  <2> QED
    BY <1>8, <2>1, <2>2 DEF EndDrain
<1>9. CASE PostFinish
  <2>1. shim.pc = "closing" /\ shim.lock = "free" /\ shim'.pc = "finishing" /\ shim'.buf = shim.buf
        /\ shim'.sending = shim.sending
    BY <1>1, <1>9 DEF PostFinish, CallsOver, ShimState
  <2>2. v <= BufferMax
    BY <1>16, <2>1
  <2>4. Len(shim'.sending) = 0 /\ Len(shim'.buf) = v
    BY <1>2, <2>1 DEF v
  <2>3. Len(shim'.sending) + Len(shim'.buf) <= BufferMax
    BY <1>15, <2>2, <2>4
  <2> QED
    BY <2>1, <2>3 DEF Capped
<1>10. CASE CloseSpill
  <2>1. shim.pc = "spilled" /\ shim'.pc = "done" /\ shim'.buf = shim.buf /\ shim'.sending = shim.sending
    BY <1>1, <1>10 DEF CloseSpill, ShimState
  <2> QED
    BY <1>1, <1>2, <2>1 DEF Capped
<1>11. CASE ShimDies
  BY <1>1, <1>3, <1>11 DEF ShimDies, ShimState
<1>12. CASE UNCHANGED shim
  BY <1>2, <1>12 DEF Capped
<1>13. ASSUME NEW q \in calls, Answer(q) \/ LoseCall(q) \/ RefuseCall(q) \/ TimeOut(q) PROVE Capped'
  <2>1. PICK outcome, b : Ended(q, outcome, b)
    BY <1>13, EndedMoves
  <2>2. CASE q.from # "shim"
    BY <1>12, <2>1, <2>2 DEF Ended, Heard
  <2>3. CASE q.from = "shim"
    <3>1. q \in Awaited("shim") /\ ShimHears(q, outcome, b)
      BY <2>1, <2>3 DEF Ended, Heard, Awaited
    <3>2. /\ shim'.sending \in {Rest(shim.sending), <<>>}
          /\ shim'.sending # <<>> => shim'.buf = shim.buf
          /\ Len(shim'.buf) <= BufferMax \/ shim'.buf = shim.buf
          /\ IF q.kind = "finish" THEN shim'.pc = "spilled" ELSE shim'.pc = shim.pc
      BY <3>1, HeardFrees
    <3>3. q.kind = "finish" => shim.pc = "finishing"
      BY <3>1 DEF ShimWaits
    <3>4. Len(shim'.buf) \in Nat
      BY <1>13, ShimKeepsTypes, LenProperties DEF DeliveryTypes, ShimTyped, ShimState
    <3>5. ASSUME shim'.pc = "closing" PROVE Len(shim'.buf) <= BufferMax
      <4>1. shim.pc = "closing"
        BY <3>2, <3>5
      <4> QED
        BY <1>2, <3>2, <4>1 DEF Capped
    <3>6. ASSUME shim'.pc \in {"finishing", "spilled", "done"}
          PROVE  Len(shim'.sending) + Len(shim'.buf) <= BufferMax
      <4>1. u + v <= BufferMax
        BY <1>16, <3>2, <3>3, <3>6
      <4>2. CASE shim'.sending = <<>>
        <5>1. Len(shim'.sending) = 0
          BY <1>1, <4>2
        <5>2. Len(shim'.buf) <= BufferMax \/ Len(shim'.buf) = v
          BY <3>2 DEF v
        <5> QED
          BY <1>15, <3>4, <4>1, <5>1, <5>2
      <4>3. CASE shim'.sending # <<>>
        <5>1. Len(shim'.sending) = w /\ Len(shim'.buf) = v
          BY <3>2, <4>3 DEF v, w
        <5> QED
          BY <1>15, <4>1, <5>1
      <4> QED
        BY <4>2, <4>3
    <3> QED
      BY <3>5, <3>6 DEF Capped
  <2> QED
    BY <2>2, <2>3
<1>14. ASSUME NEW q \in calls, Handle(q) \/ Unheard(q) PROVE UNCHANGED shim
  BY <1>14 DEF Handle, LoadRun, UpsertStatus, InsertBatch, UpsertCounters, Unheard
<1> QED
  BY <1>4, <1>5, <1>6, <1>7, <1>8, <1>9, <1>10, <1>11, <1>12, <1>13, <1>14, OthersLeaveShim
     DEF DeliveryNext, Shimming

\* The shim waits for one call, which carries the chunk it is sending.
LEMMA ShimWaitsKept ==
  ASSUME DeliveryTypes, LinesEnd, ShimWaits, SyncWaits, PassAt, DeliveryNext
  PROVE  ShimWaits'
<1>1. shim \in ShimState /\ \A q \in calls : q \in CallState
  BY DEF DeliveryTypes, ShimTyped
<1>2. \A r \in calls' : r.from = "shim" => r.run = 1 /\ r.pts \subseteq PointsOf("spill")
  <2>1. CASE ClientStep
    BY <2>1 DEF ClientStep, Fresh, Same, ShimWaits
  <2>2. ASSUME NEW q \in calls, Handle(q)
        PROVE  \A r \in calls' : r.from = "shim" => r.run = 1 /\ r.pts \subseteq PointsOf("spill")
    BY <2>2, HandlerMoves DEF HandlerStep, Same, ShimWaits
  <2> QED
    BY <2>1, <2>2, CallsMove
<1>3. /\ \A r \in calls' : r.from = "shim" => r.run = 1 /\ r.pts \subseteq PointsOf("spill")'
      /\ Capped' /\ (budget.late => budget'.late)
  BY <1>2, CappedKept, BudgetMoves DEF PointsOf
<1>4. ASSUME UNCHANGED shim, Awaited("shim")' \subseteq Awaited("shim") PROVE ShimWaits'
  BY <1>3, <1>4 DEF ShimWaits
<1>5. ASSUME Awaited("shim")' = {}, shim'.sending = <<>>, shim'.lock = "free" PROVE ShimWaits'
  BY <1>3, <1>5 DEF ShimWaits
<1>6. ASSUME UNCHANGED calls PROVE Awaited("shim")' = Awaited("shim")
  BY <1>6 DEF Awaited
<1>7. ASSUME UNCHANGED calls, shim'.lock = shim.lock, shim'.sending = shim.sending,
             shim.pc # "finishing",
             shim'.pc \in {"spilled", "done"} => shim.pc \in {"spilled", "done"},
             shim'.pc = "dead" => shim.pc = "dead"
      PROVE  ShimWaits'
  BY <1>3, <1>6, <1>7 DEF ShimWaits
<1>8. ASSUME NEW want, NEW Q, \A r \in Q : ~(r.from = "shim" /\ r.awaited),
             calls' = Q \cup {Call("shim", "log", 1, ToSet(Chunk(shim'.sending)), want)},
             shim'.lock # "free", shim'.pc # "dead",
             shim'.pc \in {"spilled", "done"} => budget'.late
      PROVE  ShimWaits'
  <2> DEFINE c == Call("shim", "log", 1, ToSet(Chunk(shim'.sending)), want)
  <2>1. Awaited("shim")' \subseteq {c}
    BY <1>8 DEF Awaited
  <2>2. c.kind = "log" /\ c.pts = ToSet(Chunk(shim'.sending))
    BY DEF Call
  <2> HIDE DEF c
  <2> QED
    BY <1>3, <1>8, <2>1, <2>2 DEF ShimWaits, ToSet, Chunk
<1>22. ASSUME NEW kind \in {"ping", "finish"}, NEW want, NEW Q,
              \A r \in Q : ~(r.from = "shim" /\ r.awaited),
              calls' = Q \cup {Call("shim", kind, 1, {}, want)}, shim'.sending = <<>>,
              kind = "finish" => shim'.pc = "finishing",
              shim'.lock # "free", shim'.pc \notin {"spilled", "done", "dead"}
       PROVE  ShimWaits'
  <2> DEFINE c == Call("shim", kind, 1, {}, want)
  <2>1. Awaited("shim")' \subseteq {c}
    BY <1>22 DEF Awaited
  <2>2. c.kind = kind
    BY DEF Call
  <2> HIDE DEF c
  <2> QED
    BY <1>3, <1>22, <2>1, <2>2 DEF ShimWaits
<1>21. ASSUME shim.lock = "free" PROVE \A r \in calls : ~(r.from = "shim" /\ r.awaited)
  BY <1>21 DEF ShimWaits, Awaited
<1>9. CASE LogPoint
  BY <1>1, <1>7, <1>9 DEF LogPoint, ShimState
<1>10. CASE FlushBuffer \/ LateTick
  <2>1. shim' = [shim EXCEPT !.buf = <<>>, !.sending = shim.buf, !.lock = "timer"] /\ shim.lock = "free"
        /\ calls' = calls \cup {Call("shim", "log", 1, ToSet(Chunk(shim.buf)), "running")}
        /\ shim.pc # "dead"
    BY <1>10 DEF FlushBuffer, LateTick, Flush, LogCall
  <2>2. shim'.sending = shim.buf /\ shim'.lock = "timer" /\ shim'.pc = shim.pc
    BY <1>1, <2>1 DEF ShimState
  <2>3. shim.pc \in {"spilled", "done"} => budget'.late
    <3>1. budget \in BudgetState
      BY DEF DeliveryTypes
    <3> QED
      BY <1>10, <3>1 DEF FlushBuffer, LateTick, BudgetState
  <2>4. calls' = calls \cup {Call("shim", "log", 1, ToSet(Chunk(shim'.sending)), "running")}
    BY <2>1, <2>2
  <2> QED
    BY <1>8, <1>21, <2>1, <2>2, <2>3, <2>4
<1>11. CASE Ping
  <2>1. shim' = [shim EXCEPT !.lock = "timer"] /\ shim.lock = "free" /\ shim.pc = "logging"
        /\ calls' = calls \cup {Call("shim", "ping", 1, {}, "running")}
    BY <1>11 DEF Ping
  <2>2. shim'.sending = <<>> /\ shim'.lock = "timer" /\ shim'.pc = "logging"
    BY <1>1, <2>1 DEF ShimState, ShimWaits
  <2> QED
    BY <1>22, <1>21, <2>1, <2>2
<1>12. CASE FinishRun
  BY <1>1, <1>7, <1>12 DEF FinishRun, ShimState
<1>13. CASE DrainFlush
  <2>1. CASE shim.buf = <<>>
    BY <1>1, <1>7, <1>13, <2>1 DEF DrainFlush, ShimState
  <2>2. CASE shim.buf # <<>>
    <3>1. shim' = [shim EXCEPT !.pc = "drained", !.tries = @ + 1, !.buf = <<>>,
                               !.sending = shim.buf, !.lock = "finish"]
          /\ shim.lock = "free"
          /\ calls' = calls \cup {Call("shim", "log", 1, ToSet(Chunk(shim.buf)), "running")}
      BY <1>13, <2>2 DEF DrainFlush, LogCall
    <3>2. shim'.sending = shim.buf /\ shim'.lock = "finish" /\ shim'.pc = "drained"
      BY <1>1, <3>1 DEF ShimState
    <3>3. calls' = calls \cup {Call("shim", "log", 1, ToSet(Chunk(shim'.sending)), "running")}
      BY <3>1, <3>2
    <3> QED
      BY <1>8, <1>21, <3>1, <3>2, <3>3
  <2> QED
    BY <2>1, <2>2
<1>14. CASE EndDrain
  <2> DEFINE s == [shim EXCEPT !.pc = "closing", !.buf = <<>>]
  <2>1. shim.pc = "drained" /\ UNCHANGED calls
        /\ (shim' = [shim EXCEPT !.pc = "draining"] \/ Spills(s, ToSet(shim.buf), budget))
    BY <1>14 DEF EndDrain
  <2>2. CASE shim' = [shim EXCEPT !.pc = "draining"]
    BY <1>1, <1>7, <2>1, <2>2 DEF ShimState
  <2>3. CASE Spills(s, ToSet(shim.buf), budget)
    <3>1. s \in ShimState /\ s.pc = "closing" /\ s.lock = shim.lock /\ s.sending = shim.sending
      BY <1>1, EmptySeq DEF ShimState
    <3>2. ToSet(shim.buf) \subseteq PointsOf("spill")
      BY <1>1, Elements DEF ShimState
    <3> HIDE DEF s
    <3>3. SpillOutcome(s, ToSet(shim.buf), budget)
      BY <2>3, <3>1, <3>2, SpillsEnds
    <3>4. shim'.pc = "closing" /\ shim'.lock = shim.lock /\ shim'.sending = shim.sending
      BY <3>1, <3>3, SpilledTyped
    <3> QED
      BY <1>7, <2>1, <3>4
  <2> QED
    BY <2>1, <2>2, <2>3
<1>15. CASE PostFinish
  <2>1. shim' = [shim EXCEPT !.pc = "finishing", !.lock = "finish"] /\ shim.lock = "free"
        /\ calls' = calls \cup {Call("shim", "finish", 1, {}, "finished")}
    BY <1>15 DEF PostFinish, CallsOver
  <2>2. shim'.sending = <<>> /\ shim'.lock = "finish" /\ shim'.pc = "finishing"
    BY <1>1, <2>1 DEF ShimState, ShimWaits
  <2> QED
    BY <1>22, <1>21, <2>1, <2>2
<1>16. CASE CloseSpill
  BY <1>1, <1>7, <1>16 DEF CloseSpill, ShimState
<1>17. CASE ShimDies
  <2>1. calls' = Orphaned("shim")
        /\ shim' = [shim EXCEPT !.pc = "dead", !.lock = "free", !.buf = <<>>, !.sending = <<>>]
    BY <1>17 DEF ShimDies
  <2>2. Awaited("shim")' = {}
    BY <2>1, Orphans DEF Awaited, DeliveryTypes
  <2>3. shim'.lock = "free" /\ shim'.sending = <<>>
    BY <1>1, <2>1 DEF ShimState
  <2> QED
    BY <1>5, <2>2, <2>3
<1>18. ASSUME NEW q \in calls, Unheard(q) PROVE ShimWaits'
  BY <1>4, <1>18 DEF Unheard, Awaited
<1>19. ASSUME NEW q \in calls, Handle(q) PROVE ShimWaits'
  <2>1. PICK r : HandlerStep(q, r)
    BY <1>19, HandlerMoves
  <2>2. \A s \in Awaited("shim")' :
           (s \in Awaited("shim") /\ s # q) \/ (s = r /\ q \in Awaited("shim"))
    BY <2>1 DEF HandlerStep, Awaited, Same
  <2>3. \A s, t \in Awaited("shim")' : s = t
    BY <2>2 DEF ShimWaits
  <2>4. \A s \in Awaited("shim")' : \E u \in Awaited("shim") : Same(u, s)
    BY <2>1, <2>2 DEF HandlerStep, Same
  <2>5. UNCHANGED shim
    BY <2>1 DEF HandlerStep
  <2> QED
    BY <1>3, <2>3, <2>4, <2>5 DEF ShimWaits, Same
<1>20. ASSUME NEW q \in calls, Answer(q) \/ LoseCall(q) \/ RefuseCall(q) \/ TimeOut(q) PROVE ShimWaits'
  <2>1. PICK outcome, b : Ended(q, outcome, b)
    BY <1>20, EndedMoves
  <2>2. q.awaited /\ Heard(q, outcome, b)
        /\ (outcome = "sent" => calls' = (calls \ {q}) \cup NextChunk(q))
    BY <2>1 DEF Ended
  <2>3. /\ q.from \in {"shim", "sync"}
        /\ Awaited(q.from)' \subseteq IF outcome = "sent" THEN NextChunk(q) ELSE {}
        /\ \A from \in {"shim", "sync"} \ {q.from} : Awaited(from)' \subseteq Awaited(from)
    BY <2>1, EndsWait
  <2>4. CASE q.from = "sync"
    BY <1>4, <2>2, <2>3, <2>4 DEF Heard
  <2>5. CASE q.from = "shim"
    <3>1. q \in Awaited("shim") /\ ShimHears(q, outcome, b) /\ shim.lock # "free" /\ shim.pc # "dead"
          /\ (shim.pc \in {"spilled", "done"} => budget'.late)
      BY <1>3, <2>2, <2>5 DEF Awaited, Heard, ShimWaits
    <3>2. CASE outcome = "sent" /\ NextChunk(q) # {}
      <4>1. NextChunk(q) = {Call("shim", "log", 1, ToSet(Chunk(Rest(shim.sending))), "running")}
            /\ q.kind = "log"
        BY <3>2 DEF NextChunk, LogCall
      <4>2. shim'.lock = shim.lock /\ shim'.sending = Rest(shim.sending) /\ shim'.pc = shim.pc
        BY <3>1, <3>2, <4>1, HeardFrees
      <4>3. \A r \in calls \ {q} : ~(r.from = "shim" /\ r.awaited)
        BY <3>1 DEF ShimWaits, Awaited
      <4>4. calls' = (calls \ {q})
                       \cup {Call("shim", "log", 1, ToSet(Chunk(shim'.sending)), "running")}
        BY <2>2, <3>2, <4>1, <4>2
      <4> DEFINE Q == calls \ {q}
      <4> HIDE DEF Q
      <4>5. (\A r \in Q : ~(r.from = "shim" /\ r.awaited))
            /\ calls' = Q \cup {Call("shim", "log", 1, ToSet(Chunk(shim'.sending)), "running")}
        BY <4>3, <4>4 DEF Q
      <4> QED
        BY <1>8, <3>1, <4>2, <4>5
    <3>3. CASE ~(outcome = "sent" /\ NextChunk(q) # {})
      <4>1. Awaited("shim")' = {}
        BY <2>3, <2>5, <3>3
      <4> QED
        BY <1>5, <3>1, <3>3, <4>1, HeardFrees
    <3> QED
      BY <3>2, <3>3
  <2> QED
    BY <2>3, <2>4, <2>5
<1> QED
  BY <1>4, <1>9, <1>10, <1>11, <1>12, <1>13, <1>14, <1>15, <1>16, <1>17, <1>18, <1>19, <1>20,
     OthersLeaveShim DEF DeliveryNext, Shimming

\* Where a point of the shim's may be.
SpillPoints == UNION {l.pts : l \in ToSet(lines["spill"])}
Held ==
    ToSet(shim.buf) \cup ToSet(shim.sending) \cup received[1] \cup SpillPoints \cup shim.dropped

\* What was spilled stays spilled, and what is spilled now is there or dropped.
LEMMA SpillGrows ==
  ASSUME DeliveryTypes, LinesEnd, ShimWaits, DeliveryNext
  PROVE  /\ SpillPoints \subseteq SpillPoints'
         /\ \A s \in ShimState, pts \in SUBSET PointsOf("spill") : \A b :
               SpillOutcome(s, pts, b) => pts \subseteq SpillPoints' \cup shim'.dropped
<1>1. lines["spill"] \in Seq(LineState) /\ lines'["spill"] \in Seq(LineState)
      /\ Len(lines["spill"]) \in Nat /\ Len(lines'["spill"]) \in Nat
      /\ Len(lines["spill"]) <= Len(lines'["spill"])
      /\ \A i \in 1..Len(lines["spill"]) : lines'["spill"][i] = lines["spill"][i]
  BY Names, LinesMove, LinesGrow
<1>2. DOMAIN lines["spill"] = 1..Len(lines["spill"]) /\ DOMAIN lines'["spill"] = 1..Len(lines'["spill"])
  BY <1>1, LenProperties
<1>3. ToSet(lines["spill"]) \subseteq ToSet(lines'["spill"])
  BY <1>1, <1>2 DEF ToSet
<1>4. SpillPoints' = UNION {l.pts : l \in ToSet(lines'["spill"])}
  BY DEF SpillPoints, ToSet
<1>5. SpillPoints \subseteq SpillPoints'
  BY <1>3, <1>4 DEF SpillPoints
<1>6. ASSUME NEW s \in ShimState, NEW pts \in SUBSET PointsOf("spill"), NEW b, SpillOutcome(s, pts, b)
      PROVE  pts \subseteq SpillPoints' \cup shim'.dropped
  <2>1. PICK x \in {"none", "open", "unavailable"}, D \in SUBSET PointsOf("spill") :
          /\ shim' = [s EXCEPT !.spill = x, !.dropped = D]
          /\ \/ pts \subseteq D
             \/ pts # {} /\ lines' = [lines EXCEPT !["spill"] = Append(@, LogLine(pts))]
    BY <1>6 DEF SpillOutcome
  <2>2. CASE pts \subseteq D
    <3>1. shim'.dropped = D
      BY <2>1 DEF ShimState
    <3> QED
      BY <2>2, <3>1
  <2>3. CASE pts # {} /\ lines' = [lines EXCEPT !["spill"] = Append(@, LogLine(pts))]
    <3>1. lines'["spill"] = Append(lines["spill"], LogLine(pts))
      BY <2>3, Names DEF DeliveryTypes
    <3>2. LogLine(pts) \in LineState /\ LogLine(pts).pts = pts
      BY Names DEF LogLine, LineState
    <3>3. LogLine(pts) \in ToSet(lines'["spill"])
      <4> HIDE DEF ToSet
      <4>1. ToSet(Append(lines["spill"], LogLine(pts))) = ToSet(lines["spill"]) \cup {LogLine(pts)}
        BY <1>1, <3>2, Elements
      <4> QED
        BY <3>1, <4>1
    <3> QED
      BY <1>4, <3>2, <3>3
  <2> QED
    BY <2>1, <2>2, <2>3
<1> QED
  BY <1>5, <1>6

\* A living shim lets go of no point before the server or the spill has it.
LEMMA NothingLetGo ==
  ASSUME DeliveryTypes, LinesEnd, ShimWaits, SyncWaits, Inserted, PassAt, DeliveryNext,
         shim'.pc # "dead"
  PROVE  /\ Held \subseteq Held'
         /\ \/ shim'.logged = shim.logged
            \/ shim'.logged = shim.logged + 1 /\ <<"shim", shim'.logged>> \in ToSet(shim'.buf)
<1>1. /\ shim \in ShimState /\ shim.buf \in Seq(PointsOf("spill"))
      /\ shim.sending \in Seq(PointsOf("spill")) /\ shim.logged \in Nat /\ BufferMax \in Nat
      /\ ToSet(shim.buf) \subseteq PointsOf("spill") /\ shim.dropped \subseteq PointsOf("spill")
      /\ ToSet(shim.sending) = ToSet(Chunk(shim.sending)) \cup ToSet(Rest(shim.sending))
  <2>1. shim \in ShimState
    BY DEF DeliveryTypes, ShimTyped
  <2>2. /\ shim.buf \in Seq(PointsOf("spill")) /\ shim.sending \in Seq(PointsOf("spill"))
        /\ shim.logged \in Nat /\ shim.dropped \subseteq PointsOf("spill")
    BY <2>1 DEF ShimState
  <2>3. \A u \in Seq(PointsOf("spill")) : ToSet(u) \subseteq PointsOf("spill")
    BY LenProperties, ElementOfSeq DEF ToSet
  <2> HIDE DEF ToSet
  <2>4. ToSet(shim.sending) = ToSet(Chunk(shim.sending)) \cup ToSet(Rest(shim.sending))
    BY <2>2, ChunkAndRest
  <2> QED
    BY <2>1, <2>2, <2>3, <2>4, DeliveryAssumption
<1>2. SpillPoints \subseteq SpillPoints' /\ received[1] \subseteq received'[1]
      /\ \A s \in ShimState, pts \in SUBSET PointsOf("spill") : \A b :
            SpillOutcome(s, pts, b) => pts \subseteq SpillPoints' \cup shim'.dropped
  BY SpillGrows, ReceivedGrows, Names
<1>3. Held' = ToSet(shim'.buf) \cup ToSet(shim'.sending) \cup received'[1]
                \cup SpillPoints' \cup shim'.dropped
  BY DEF Held, ToSet
<1>4. ToSet(<<>>) = {}
  BY EmptySeq DEF ToSet
<1>5. ASSUME ToSet(shim.buf) \cup ToSet(shim.sending) \subseteq Held', shim.dropped \subseteq shim'.dropped
      PROVE  Held \subseteq Held'
  BY <1>2, <1>3, <1>5 DEF Held
<1> HIDE DEF ToSet
<1>6. ASSUME shim'.buf = shim.buf, shim'.sending = shim.sending, shim'.logged = shim.logged,
             shim'.dropped = shim.dropped
      PROVE  Held \subseteq Held' /\ shim'.logged = shim.logged
  BY <1>3, <1>5, <1>6
<1>7. ASSUME shim.lock = "free", shim'.sending = shim.buf, shim'.dropped = shim.dropped
      PROVE  Held \subseteq Held'
  <2>1. shim.sending = <<>>
    BY <1>7 DEF ShimWaits
  <2> QED
    BY <1>3, <1>4, <1>5, <1>7, <2>1
<1>8. CASE LogPoint
  <2> DEFINE e == <<"shim", shim.logged + 1>>
             b == Append(shim.buf, e)
  <2>1. e \in PointsOf("spill") /\ shim' = [shim EXCEPT !.logged = shim.logged + 1, !.buf = b]
    BY <1>1, <1>8, DeliveryAssumption DEF LogPoint, PointsOf
  <2>2. ToSet(b) = ToSet(shim.buf) \cup {e}
    BY <1>1, <2>1, Elements
  <2> HIDE DEF b
  <2>3. shim'.buf = b /\ shim'.sending = shim.sending /\ shim'.logged = shim.logged + 1
        /\ shim'.dropped = shim.dropped
    BY <1>1, <2>1 DEF ShimState
  <2> QED
    BY <1>3, <1>5, <2>2, <2>3
<1>9. CASE FlushBuffer \/ LateTick
  <2>1. shim' = [shim EXCEPT !.buf = <<>>, !.sending = shim.buf, !.lock = "timer"] /\ shim.lock = "free"
    BY <1>9 DEF FlushBuffer, LateTick, Flush
  <2>2. shim'.sending = shim.buf /\ shim'.logged = shim.logged /\ shim'.dropped = shim.dropped
    BY <1>1, <2>1 DEF ShimState
  <2> QED
    BY <1>7, <2>1, <2>2
<1>10. CASE DrainFlush
  <2>1. CASE shim.buf = <<>>
    BY <1>1, <1>6, <1>10, <2>1 DEF DrainFlush, ShimState
  <2>2. CASE shim.buf # <<>>
    <3>1. shim' = [shim EXCEPT !.pc = "drained", !.tries = @ + 1, !.buf = <<>>,
                               !.sending = shim.buf, !.lock = "finish"] /\ shim.lock = "free"
      BY <1>10, <2>2 DEF DrainFlush
    <3>2. shim'.sending = shim.buf /\ shim'.logged = shim.logged /\ shim'.dropped = shim.dropped
      BY <1>1, <3>1 DEF ShimState
    <3> QED
      BY <1>7, <3>1, <3>2
  <2> QED
    BY <2>1, <2>2
<1>11. CASE Ping \/ FinishRun \/ PostFinish \/ CloseSpill
  BY <1>1, <1>6, <1>11 DEF Ping, FinishRun, PostFinish, CloseSpill, ShimState
<1>12. CASE EndDrain
  <2>1. CASE shim' = [shim EXCEPT !.pc = "draining"]
    BY <1>1, <1>6, <2>1 DEF ShimState
  <2>2. CASE Spills([shim EXCEPT !.pc = "closing", !.buf = <<>>], ToSet(shim.buf), budget)
    <3> DEFINE s == [shim EXCEPT !.pc = "closing", !.buf = <<>>]
    <3>1. s \in ShimState /\ s.sending = shim.sending /\ s.logged = shim.logged /\ s.dropped = shim.dropped
      BY <1>1, EmptySeq DEF ShimState
    <3> HIDE DEF s
    <3>2. SpillOutcome(s, ToSet(shim.buf), budget)
      BY <1>1, <2>2, <3>1, SpillsEnds DEF s
    <3>3. shim'.sending = shim.sending /\ shim'.logged = shim.logged /\ shim.dropped \subseteq shim'.dropped
      BY <3>1, <3>2, SpilledTyped
    <3>4. ToSet(shim.buf) \subseteq SpillPoints' \cup shim'.dropped
      BY <1>1, <1>2, <3>1, <3>2
    <3> QED
      BY <1>3, <1>5, <3>3, <3>4
  <2> QED
    BY <1>12, <2>1, <2>2 DEF EndDrain
<1>13. CASE ShimDies
  BY <1>1, <1>13 DEF ShimDies, ShimState
<1>14. ASSUME UNCHANGED shim PROVE Held \subseteq Held' /\ shim'.logged = shim.logged
  BY <1>6, <1>14
<1>15. ASSUME NEW q \in calls, NEW outcome, NEW b, Ended(q, outcome, b)
       PROVE  Held \subseteq Held' /\ shim'.logged = shim.logged
  <2>1. CASE q.from # "shim"
    BY <1>14, <1>15, <2>1 DEF Ended, Heard
  <2>2. CASE q.from = "shim"
    <3> DEFINE s == [shim EXCEPT !.lock = "free"]
    <3>1. s.buf = shim.buf /\ s.sending = shim.sending /\ s.logged = shim.logged /\ s \in ShimState
          /\ s.dropped = shim.dropped
      BY <1>1 DEF ShimState
    <3>2. ShimHears(q, outcome, b) /\ q \in Awaited("shim") /\ q.run = 1
          /\ (outcome = "sent" => q.pc = "answer")
      BY <1>15, <2>2 DEF Ended, Heard, Awaited, ShimWaits
    <3>3. CASE q.kind = "log" /\ outcome = "sent" /\ Sent
      <4>1. ToSet(Chunk(shim.sending)) \subseteq received[1]
        <5>1. q.pts = ToSet(Chunk(shim.sending))
          BY <3>2, <3>3 DEF ShimWaits
        <5> QED
          BY <3>2, <3>3, <5>1 DEF Inserted
      <4>2. shim'.sending = Rest(shim.sending)
            /\ shim'.buf = shim.buf /\ shim'.logged = shim.logged /\ shim'.dropped = shim.dropped
        BY <1>1, <3>3 DEF Sent, ShimState
      <4> QED
        BY <1>1, <1>2, <1>3, <1>5, <4>1, <4>2
    <3> HIDE DEF s
    <3>4. CASE shim' = s \/ shim' = [s EXCEPT !.pc = "spilled", !.finishOK = (outcome = "sent")]
      BY <1>6, <3>1, <3>4 DEF ShimState
    <3>5. CASE shim' = [Dropped(s, ToSet(s.sending)) EXCEPT !.sending = <<>>]
      <4>1. shim'.buf = shim.buf /\ shim'.logged = shim.logged
            /\ shim'.dropped = shim.dropped \cup ToSet(shim.sending)
        BY <3>1, <3>5 DEF Dropped, ShimState
      <4> QED
        BY <1>3, <1>5, <4>1
    <3>6. CASE Spills(PutBack(s), Evicted(s), b)
      <4>1. /\ PutBack(s) \in ShimState /\ PutBack(s).logged = shim.logged
            /\ PutBack(s).dropped = shim.dropped /\ Evicted(s) \subseteq PointsOf("spill")
            /\ ToSet(shim.sending) \cup ToSet(shim.buf) = ToSet(PutBack(s).buf) \cup Evicted(s)
        BY <3>1, PutBackTyped
      <4>2. SpillOutcome(PutBack(s), Evicted(s), b)
        BY <3>6, <4>1, SpillsEnds
      <4>3. Evicted(s) \subseteq SpillPoints' \cup shim'.dropped
        BY <1>2, <4>1, <4>2
      <4>4. shim'.buf = PutBack(s).buf /\ shim'.logged = shim.logged /\ shim.dropped \subseteq shim'.dropped
        BY <4>1, <4>2, SpilledTyped
      <4> QED
        BY <1>3, <1>5, <4>1, <4>3, <4>4
    <3> QED
      BY <3>2, <3>3, <3>4, <3>5, <3>6 DEF ShimHears, s
  <2> QED
    BY <2>1, <2>2
<1>16. ASSUME NEW q \in calls, Answer(q) \/ LoseCall(q) \/ RefuseCall(q) \/ TimeOut(q)
       PROVE  Held \subseteq Held' /\ shim'.logged = shim.logged
  BY <1>15, <1>16, EndedMoves
<1>17. ASSUME NEW q \in calls, Handle(q) \/ Unheard(q) PROVE UNCHANGED shim
  BY <1>17 DEF Handle, LoadRun, UpsertStatus, InsertBatch, UpsertCounters, Unheard
<1> QED
  BY <1>8, <1>9, <1>10, <1>11, <1>12, <1>13, <1>14, <1>16, <1>17, OthersLeaveShim
     DEF DeliveryNext, Shimming

\* So every point a living shim has logged is somewhere.
LEMMA SurviveKept ==
  ASSUME DeliveryTypes, LinesEnd, ShimWaits, SyncWaits, Inserted, PassAt, PointsSurvive, DeliveryNext
  PROVE  PointsSurvive'
<1>1. Held' = ToSet(shim'.buf) \cup ToSet(shim'.sending) \cup received'[1]
              \cup (UNION {l.pts : l \in ToSet(lines'["spill"])}) \cup shim'.dropped
  BY DEF Held, SpillPoints, ToSet
<1>2. PointsSurvive' = (shim'.pc # "dead" => \A i \in 1..shim'.logged :
         <<"shim", i>> \in ToSet(shim'.buf) \cup ToSet(shim'.sending) \cup received'[1]
                           \cup (UNION {l.pts : l \in ToSet(lines'["spill"])}) \cup shim'.dropped)
  BY DEF PointsSurvive, ToSet
<1> SUFFICES ASSUME shim'.pc # "dead", NEW i \in 1..shim'.logged PROVE <<"shim", i>> \in Held'
  BY <1>1, <1>2
<1>3. shim.pc # "dead"
  <2>1. ASSUME shim.pc = "dead" PROVE UNCHANGED shim
    <3>1. \A q \in calls : q.awaited => q.from # "shim"
      BY <2>1 DEF ShimWaits, Awaited
    <3>2. ASSUME NEW q \in calls, Handle(q) \/ Unheard(q) \/ Answer(q) \/ LoseCall(q) \/ RefuseCall(q)
                                   \/ TimeOut(q)
          PROVE  UNCHANGED shim
      BY <3>1, <3>2 DEF Handle, LoadRun, UpsertStatus, InsertBatch, UpsertCounters, Unheard, Answer,
         LoseCall, RefuseCall, TimeOut, Heard
    <3> QED
      BY <2>1, <3>2, OthersLeaveShim DEF DeliveryNext, Shimming, ShimDies, LogPoint, FlushBuffer,
         LateTick, Ping, FinishRun, DrainFlush, EndDrain, PostFinish, CloseSpill
  <2> QED
    BY <2>1
<1>4. \A j \in 1..shim.logged : <<"shim", j>> \in Held
  BY <1>3 DEF PointsSurvive, Held, SpillPoints
<1>5. Held \subseteq Held' /\ shim.logged \in Nat
      /\ \/ shim'.logged = shim.logged
         \/ shim'.logged = shim.logged + 1 /\ <<"shim", shim'.logged>> \in ToSet(shim'.buf)
  BY NothingLetGo DEF DeliveryTypes, ShimTyped, ShimState
<1>6. i \in 1..shim.logged \/ (i = shim'.logged /\ <<"shim", i>> \in ToSet(shim'.buf))
  BY <1>5
<1> QED
  BY <1>1, <1>4, <1>5, <1>6

(***************************************************************************)
(* The end of a run.                                                       *)
(***************************************************************************)

\* Nothing a step does makes a disturbed run undisturbed again.
LEMMA DisturbedStays ==
  ASSUME DeliveryTypes, PassAt, DeliveryNext, Undisturbed'
  PROVE  Undisturbed
<1>1. \A d \in OfflineDirs : syncState[d].run # 1
  BY StateFiles, Names DEF Undisturbed
<1>2. ~budget.abandoned /\ ~budget.late
  BY BudgetMoves DEF Undisturbed
<1> QED
  BY <1>1, <1>2 DEF Undisturbed

\* Until a client abandons a request, every request has a client that waits.
LEMMA AllAwaited ==
  ASSUME DeliveryTypes, LinesEnd, PassAt, DeliveryNext,
         ~budget.abandoned => \A q \in calls : q.awaited, ~budget'.abandoned
  PROVE  ~budget.abandoned /\ \A r \in calls' : r.awaited
<1>1. /\ budget \in BudgetState /\ (\A q \in calls : q \in CallState)
      /\ ~budget.abandoned /\ \A q \in calls : q.awaited
  BY BudgetMoves DEF DeliveryTypes
<1>2. ASSUME NEW from, budget' = AfterKill(from), calls' = Orphaned(from)
      PROVE  ~budget.abandoned /\ \A r \in calls' : r.awaited
  <2>1. budget'.abandoned = (budget.abandoned \/ \E q \in calls : q.from = from)
    BY <1>1, <1>2 DEF AfterKill, BudgetState
  <2>2. ~budget.abandoned /\ \A q \in calls : q.from # from
    BY <2>1
  <2>3. ASSUME NEW r \in calls' PROVE r.awaited
    <3>1. PICK q \in calls : r = [q EXCEPT !.awaited = @ /\ q.from # from]
      BY <1>2 DEF Orphaned
    <3>2. q.awaited /\ q.from # from /\ q \in CallState
      BY <1>1, <2>2
    <3>3. r.awaited = (q.awaited /\ q.from # from)
      BY <3>1, <3>2 DEF CallState
    <3> QED
      BY <3>2, <3>3
  <2> QED
    BY <2>2, <2>3
<1> SUFFICES \A r \in calls' : r.awaited
  BY <1>1
<1>3. CASE ShimDies \/ SyncerDies
  BY <1>2, <1>3 DEF ShimDies, SyncerDies
<1>5. ASSUME NEW q \in calls, Handle(q) PROVE \A r \in calls' : r.awaited
  BY <1>1, <1>5, HandlerMoves DEF HandlerStep, Same
<1>6. ASSUME ~budget.abandoned, calls' \subseteq calls PROVE \A r \in calls' : r.awaited
  BY <1>6
<1>7. \A from, kind, run, pts, want : Call(from, kind, run, pts, want).awaited
  BY DEF Call
<1>8. ASSUME NEW q \in calls, Unheard(q) PROVE \A r \in calls' : r.awaited
  BY <1>6, <1>1, <1>8 DEF Unheard
<1>4. ASSUME NEW q \in calls, NEW outcome, NEW b, Ended(q, outcome, b) PROVE \A r \in calls' : r.awaited
  <2>1. ~b.abandoned
    BY <1>4, HeardBudget DEF Ended
  <2>2. \A r \in NextChunk(q) : r.awaited
    BY <1>7 DEF NextChunk, LogCall
  <2> QED
    BY <1>1, <1>4, <2>1, <2>2 DEF Ended
<1>11. ASSUME NEW q \in calls, Answer(q) \/ LoseCall(q) \/ RefuseCall(q) \/ TimeOut(q)
       PROVE  \A r \in calls' : r.awaited
  BY <1>4, <1>11, EndedMoves
<1>9. CASE \/ FlushBuffer \/ LateTick \/ Ping \/ DrainFlush \/ PostFinish
           \/ SendBatch \/ SendFinish
  <2>3. ASSUME NEW from, NEW kind, NEW run, NEW pts, NEW want,
               calls' = calls \cup {Call(from, kind, run, pts, want)}
        PROVE  \A r \in calls' : r.awaited
    BY <1>1, <1>7, <2>3
  <2>4. calls' = calls => \A r \in calls' : r.awaited
    BY <1>1
  <2>5. CASE FlushBuffer \/ LateTick
    BY <2>3, <2>5 DEF FlushBuffer, LateTick, Flush, LogCall
  <2>6. CASE Ping
    BY <2>3, <2>6 DEF Ping
  <2>7. CASE DrainFlush
    BY <2>3, <2>4, <2>7 DEF DrainFlush, LogCall
  <2>8. CASE PostFinish
    BY <2>3, <2>8 DEF PostFinish
  <2>9. CASE SendBatch
    <3>1. PICK k : calls' = calls \cup
                 {Call("sync", "log", syncer.run,
                       UNION {lines[syncer.dir][i].pts : i \in syncState[syncer.dir].synced + 1..k},
                       IF syncer.over THEN "finished" ELSE "running")}
      BY <2>9 DEF SendBatch
    <3> QED
      BY <2>3, <3>1
  <2>10. CASE SendFinish
    BY <2>3, <2>4, <2>10 DEF SendFinish
  <2> QED
    BY <1>9, <2>5, <2>6, <2>7, <2>8, <2>9, <2>10
<1>10. CASE UNCHANGED calls
  BY <1>1, <1>10
<1> QED
  BY <1>3, <1>5, <1>8, <1>9, <1>10, <1>11 DEF DeliveryNext, Shimming, WriteOffline, Syncing,
     LogPoint, FinishRun, EndDrain, CloseSpill, OpenDir, ResolveRunName, RecordRunName, WriteCursor,
     WriteDone

\* Of an undisturbed run, what the pass sends comes from the spill directory.
LEMMA SyncOfSpill ==
  ASSUME DeliveryTypes, SyncWaits, PassAt, Undisturbed, NEW q \in calls, q.from = "sync",
         q.awaited, q.run = 1
  PROVE  /\ syncer.dir = "spill" /\ lines["spill"] # <<>> /\ ~syncState["spill"].done
         /\ IF q.kind = "finish" THEN syncer.pc = "ending" ELSE syncer.pc = "sent"
<1>1. syncer.dir \in Dirs
  BY DEF DeliveryTypes, SyncerState
<1>2. q.run = syncer.run /\ syncer.pc \in {"sent", "ending"}
      /\ ((q.kind = "log" /\ syncer.pc = "sent") \/ (q.kind = "finish" /\ syncer.pc = "ending"))
  BY DEF SyncWaits, Awaited
<1>3. syncState[syncer.dir].run = 1 /\ lines[syncer.dir] # <<>> /\ ~syncState[syncer.dir].done
  BY <1>2 DEF PassAt, Stands
<1>4. syncer.dir = "spill"
  BY <1>1, <1>3 DEF Undisturbed, Dirs
<1> QED
  BY <1>2, <1>3, <1>4

\* With its finish record the spill directory is the shim's last word.
LEMMA SpillEnded ==
  ASSUME DeliveryTypes, LinesEnd, ShimWaits, PassAt, OnDisk,
         \/ syncState["spill"].done
         \/ syncer.dir = "spill" /\ syncer.pc \in {"ending", "ended"}
  PROVE  shim.pc = "done" /\ (~budget.late => Awaited("shim") = {}) /\ lines["spill"] # <<>>
<1>1. lines["spill"] \in Seq(LineState) /\ syncer.last \in Nat
      /\ (lines["spill"] # <<>> => Len(lines["spill"]) \in 1..Len(lines["spill"]))
  BY Names, EmptySeq DEF DeliveryTypes, SyncerState
<1>2. lines["spill"] # <<>> /\ lines["spill"][Len(lines["spill"])].finish
  <2>1. CASE syncState["spill"].done
    BY <2>1, Names DEF OnDisk
  <2>2. CASE syncer.dir = "spill" /\ syncer.pc \in {"ending", "ended"}
    BY <2>2 DEF PassAt, Stands
  <2> QED
    BY <2>1, <2>2
<1>3. shim.pc = "done"
  BY <1>1, <1>2 DEF LinesEnd
<1> QED
  BY <1>2, <1>3 DEF ShimWaits

\* What finished the run keeps it finished: nothing that would set it back to
\* running is still under way.
LEMMA FinishedKept ==
  ASSUME DeliveryTypes, LinesEnd, ShimWaits, Inserted, SyncWaits, PassAt, OnDisk, FinishedBy,
         DeliveryNext, ShimWaits', SyncWaits'
  PROVE  FinishedBy'
<1>1. ~budget'.abandoned => ~budget.abandoned /\ \A r \in calls' : r.awaited
  BY AllAwaited DEF FinishedBy
<1> SUFFICES ASSUME Undisturbed'
             PROVE  /\ lines'["spill"] = <<>> =>
                         /\ shim'.finishOK /\ shim'.pc \in {"spilled", "done"} =>
                              runStatus'[1] = "finished"
                         /\ \A q \in calls' : q.from = "shim" /\ q.kind = "finish" /\ q.pc = "answer" =>
                               runStatus'[1] = "finished"
                    /\ syncer'.dir = "spill" =>
                         /\ syncer'.pc = "ended" => runStatus'[1] = "finished"
                         /\ \A q \in calls' : q.from = "sync" /\ q.kind = "finish" /\ q.pc = "answer" =>
                               runStatus'[1] = "finished"
                    /\ syncState'["spill"].done => runStatus'[1] = "finished"
  BY <1>1 DEF FinishedBy
<1>2. Undisturbed /\ ~budget'.abandoned /\ ~budget'.late
  BY DisturbedStays DEF Undisturbed
<1>3. (\A r \in calls' : r.awaited) /\ (\A q \in calls : q.awaited)
  BY <1>1, <1>2 DEF FinishedBy
<1>4. /\ lines["spill"] = <<>> =>
           /\ shim.finishOK /\ shim.pc \in {"spilled", "done"} => runStatus[1] = "finished"
           /\ \A q \in calls : q.from = "shim" /\ q.kind = "finish" /\ q.pc = "answer" =>
                 runStatus[1] = "finished"
      /\ syncer.dir = "spill" =>
           /\ syncer.pc = "ended" => runStatus[1] = "finished"
           /\ \A q \in calls : q.from = "sync" /\ q.kind = "finish" /\ q.pc = "answer" =>
                 runStatus[1] = "finished"
      /\ syncState["spill"].done => runStatus[1] = "finished"
  BY <1>2 DEF FinishedBy
<1>5. lines'["spill"] = <<>> => lines["spill"] = <<>>
  BY Names, LinesMove, LinesGrow
<1>6. shim \in ShimState /\ syncer \in SyncerState /\ (\A q \in calls : q \in CallState)
      /\ syncState \in [Dirs -> [run : RunNames \cup {0}, synced : Nat, done : BOOLEAN]]
  BY DEF DeliveryTypes, ShimTyped
<1>7. ASSUME ClientStep
      PROVE  /\ runStatus' = runStatus
             /\ \A r \in calls' : r.pc = "answer" => r \in calls
  BY <1>3, <1>7 DEF ClientStep, Fresh
<1>8. ASSUME ClientStep, lines'["spill"] = <<>>,
             \/ shim'.finishOK /\ shim'.pc \in {"spilled", "done"}
             \/ \E q \in calls' : q.from = "shim" /\ q.kind = "finish" /\ q.pc = "answer"
      PROVE  runStatus'[1] = "finished"
  <2>1. ASSUME NEW q \in calls', q.from = "shim", q.kind = "finish", q.pc = "answer"
        PROVE  runStatus'[1] = "finished"
    BY <1>4, <1>5, <1>7, <1>8, <2>1
  <2>2. ASSUME shim'.finishOK, shim'.pc \in {"spilled", "done"} PROVE runStatus'[1] = "finished"
    <3>1. CASE shim.finishOK /\ shim.pc \in {"spilled", "done"}
      BY <1>4, <1>5, <1>7, <1>8, <3>1
    <3>2. ASSUME NEW q \in calls, NEW outcome, NEW b, Ended(q, outcome, b)
          PROVE  runStatus'[1] = "finished"
      <4>1. CASE q.from # "shim"
        BY <2>2, <3>1, <3>2, <4>1 DEF Ended, Heard
      <4>2. CASE q.from = "shim"
        <5>1. q \in Awaited("shim") /\ ShimHears(q, outcome, b) /\ (outcome = "sent" => q.pc = "answer")
          BY <3>2, <4>2 DEF Awaited, Ended, Heard
        <5>2. CASE q.kind = "finish"
          <6>1. outcome = "sent"
            BY <2>2, <5>1, <5>2, HeardFrees
          <6> QED
            BY <1>4, <1>5, <1>7, <1>8, <3>2, <4>2, <5>1, <5>2, <6>1
        <5>3. CASE q.kind # "finish"
          BY <2>2, <3>1, <5>1, <5>3, HeardFrees
        <5> QED
          BY <5>2, <5>3
      <4> QED
        BY <4>1, <4>2
    <3>3. ASSUME NEW q \in calls, Answer(q) \/ LoseCall(q) \/ RefuseCall(q) \/ TimeOut(q)
          PROVE  runStatus'[1] = "finished"
      BY <3>2, <3>3, EndedMoves
    <3>8. CASE LateTick
      <4>1. budget \in BudgetState
        BY DEF DeliveryTypes
      <4> QED
        BY <1>2, <3>8, <4>1 DEF LateTick, BudgetState
    <3>4. CASE CloseSpill
      BY <1>6, <2>2, <3>1, <3>4 DEF CloseSpill, ShimState
    <3>5. CASE \/ LogPoint \/ FlushBuffer \/ Ping \/ FinishRun
               \/ DrainFlush \/ EndDrain \/ PostFinish \/ ShimDies
      <4>1. shim'.pc \notin {"spilled", "done"}
        <5>1. CASE LogPoint
          BY <1>6, <5>1 DEF LogPoint, ShimState
        <5>2. CASE FlushBuffer
          BY <1>6, <5>2 DEF FlushBuffer, Flush, ShimState
        <5>3. CASE Ping
          BY <1>6, <5>3 DEF Ping, ShimState
        <5>4. CASE FinishRun \/ PostFinish
          BY <1>6, <5>4 DEF FinishRun, PostFinish, ShimState
        <5>5. CASE DrainFlush
          BY <1>6, <5>5 DEF DrainFlush, ShimState
        <5>6. CASE EndDrain
          <6> DEFINE s == [shim EXCEPT !.pc = "closing", !.buf = <<>>]
          <6>1. shim' = [shim EXCEPT !.pc = "draining"] \/ Spills(s, ToSet(shim.buf), budget)
            BY <5>6 DEF EndDrain
          <6>2. s \in ShimState /\ s.pc = "closing"
            BY <1>6, EmptySeq DEF ShimState
          <6>3. ToSet(shim.buf) \subseteq PointsOf("spill")
            BY <1>6, LenProperties, ElementOfSeq DEF ShimState, ToSet
          <6> HIDE DEF s
          <6>4. Spills(s, ToSet(shim.buf), budget) => shim'.pc = "closing"
            BY <6>2, <6>3, SpillsEnds, SpilledTyped
          <6> QED
            BY <1>6, <6>1, <6>4 DEF ShimState
        <5>7. CASE ShimDies
          BY <1>6, <5>7 DEF ShimDies, ShimState
        <5> QED
          BY <3>5, <5>1, <5>2, <5>3, <5>4, <5>5, <5>6, <5>7
      <4> QED
        BY <2>2, <4>1
    <3>6. CASE UNCHANGED shim
      BY <2>2, <3>1, <3>6
    <3>7. ASSUME NEW q \in calls, Handle(q) \/ Unheard(q) PROVE UNCHANGED shim
      BY <3>7 DEF Handle, LoadRun, UpsertStatus, InsertBatch, UpsertCounters, Unheard
    <3> QED
      BY <3>3, <3>4, <3>5, <3>6, <3>7, <3>8, OthersLeaveShim DEF DeliveryNext, Shimming
  <2> QED
    BY <1>8, <2>1, <2>2
<1>9. ASSUME ClientStep, syncer'.dir = "spill", syncer'.pc \in {"ending", "ended"},
             \/ syncer'.pc = "ended"
             \/ \E q \in calls' : q.from = "sync" /\ q.kind = "finish" /\ q.pc = "answer"
      PROVE  runStatus'[1] = "finished"
  <2>1. CASE UNCHANGED syncer
    BY <1>4, <1>7, <1>9, <2>1
  <2>2. ASSUME NEW q \in calls, NEW outcome, NEW b, Ended(q, outcome, b)
        PROVE  runStatus'[1] = "finished"
    <3>1. CASE q.from = "shim"
      BY <2>1, <2>2, <3>1 DEF Ended, Heard
    <3>2. CASE q.from # "shim"
      <4>1. outcome = "sent" /\ q.pc = "answer" /\ q.awaited
            /\ syncer' = [syncer EXCEPT !.pc = IF @ = "ending" THEN "ended" ELSE "answered"]
        BY <1>9, <2>2, <3>2 DEF Ended, Heard, SyncerHears, SyncerIdle
      <4>2. syncer.dir = "spill" /\ syncer.pc = "ending"
        BY <1>6, <1>9, <4>1 DEF SyncerState
      <4>3. q.from = "sync" /\ q \in Awaited("sync")
        BY <1>6, <3>2, <4>1 DEF CallState, Awaited
      <4>4. q.kind = "finish"
        BY <4>2, <4>3 DEF SyncWaits
      <4> QED
        BY <1>4, <1>7, <1>9, <2>2, <4>1, <4>2, <4>3, <4>4
    <3> QED
      BY <3>1, <3>2
  <2>3. ASSUME NEW q \in calls, Answer(q) \/ LoseCall(q) \/ RefuseCall(q) \/ TimeOut(q)
        PROVE  runStatus'[1] = "finished"
    BY <2>2, <2>3, EndedMoves
  <2>4. CASE SendFinish
    <3>1. syncer.pc = "send"
      BY <2>4 DEF SendFinish
    <3>2. syncer'.pc # "ended"
      BY <1>6, <2>4 DEF SendFinish, SyncerState, SyncerIdle
    <3>3. \A r \in calls' : r.pc = "answer" /\ r.from = "sync" => r \in Awaited("sync")
      BY <1>3, <1>7, <1>9 DEF Awaited
    <3> QED
      BY <1>9, <3>1, <3>2, <3>3 DEF SyncWaits
  <2>5. CASE (\E d \in Dirs : OpenDir(d)) \/ ResolveRunName \/ RecordRunName \/ SendBatch \/ WriteCursor
             \/ WriteDone \/ SyncerDies
    <3>1. syncer'.pc \notin {"ending", "ended"}
      <4>1. ASSUME NEW d \in Dirs, OpenDir(d) PROVE syncer'.pc \notin {"ending", "ended"}
        <5>1. syncer'.pc = (IF syncState[d].run = 0 THEN "resolve" ELSE "send")
          BY <4>1 DEF OpenDir, SyncerIdle
        <5> QED
          BY <5>1
      <4>2. CASE ResolveRunName
        BY <1>6, <4>2 DEF ResolveRunName, SyncerState
      <4>3. CASE RecordRunName
        BY <1>6, <4>3 DEF RecordRunName, SyncerState
      <4>4. CASE SendBatch
        <5>1. PICK k : syncer' = [syncer EXCEPT !.pc = "sent", !.upTo = k]
          BY <4>4 DEF SendBatch
        <5> QED
          BY <1>6, <5>1 DEF SyncerState
      <4>5. CASE WriteCursor
        BY <1>6, <4>5 DEF WriteCursor, SyncerState
      <4>6. CASE WriteDone \/ SyncerDies
        BY <4>6 DEF WriteDone, SyncerDies, SyncerIdle
      <4> QED
        BY <2>5, <4>1, <4>2, <4>3, <4>4, <4>5, <4>6
    <3> QED
      BY <1>9, <3>1
  <2>6. ASSUME NEW q \in calls, Handle(q) \/ Unheard(q) PROVE UNCHANGED syncer
    BY <2>6 DEF Handle, LoadRun, UpsertStatus, InsertBatch, UpsertCounters, Unheard
  <2> QED
    BY <2>1, <2>3, <2>4, <2>5, <2>6, OthersLeaveSync DEF DeliveryNext, Syncing, SyncerStands
<1>10. ASSUME ClientStep, syncState'["spill"].done PROVE runStatus'[1] = "finished"
  <2>1. CASE syncState["spill"].done
    BY <1>4, <1>7, <1>10, <2>1
  <2>2. CASE ~syncState["spill"].done
    <3>1. syncState'["spill"] # syncState["spill"]
      BY <1>10, <2>2
    <3>2. syncer.dir = "spill" /\ syncer.pc \in {"record", "answered", "ended"}
      BY <3>1, Names, StateFiles
    <3>3. syncer.pc = "ended"
      <4>1. CASE RecordRunName
        BY <1>6, <1>10, <2>2, <4>1, <3>2, Names DEF RecordRunName, RecordedRun
      <4>2. CASE WriteCursor
        BY <1>6, <1>10, <2>2, <4>2, <3>2, Names DEF WriteCursor
      <4>3. CASE WriteDone
        BY <4>3 DEF WriteDone
      <4>4. CASE UNCHANGED syncState
        BY <3>1, <4>4
      <4> QED
        BY <4>1, <4>2, <4>3, <4>4 DEF DeliveryNext, Shimming, ShimDies, WriteOffline, Syncing,
               SyncerDies,
           LogPoint, FlushBuffer, LateTick, Flush, Ping, FinishRun, DrainFlush, EndDrain, PostFinish,
     CloseSpill,
           OpenDir, ResolveRunName, SendBatch, SendFinish, Handle, LoadRun, UpsertStatus, InsertBatch,
           UpsertCounters, Unheard, Answer, LoseCall, RefuseCall, TimeOut
    <3> QED
      BY <1>4, <1>7, <1>10, <3>2, <3>3
  <2> QED
    BY <2>1, <2>2
<1>11. \A q \in calls' : q.from = "sync" /\ q.kind = "finish" => syncer'.pc = "ending"
  BY <1>3 DEF SyncWaits, Awaited
<1>12. CASE ClientStep
  BY <1>8, <1>9, <1>10, <1>11, <1>12
<1>13. ASSUME NEW q \in calls, Handle(q)
       PROVE  /\ lines'["spill"] = <<>> =>
                   /\ shim'.finishOK /\ shim'.pc \in {"spilled", "done"} => runStatus'[1] = "finished"
                   /\ \A s \in calls' : s.from = "shim" /\ s.kind = "finish" /\ s.pc = "answer" =>
                         runStatus'[1] = "finished"
              /\ syncer'.dir = "spill" =>
                   /\ syncer'.pc = "ended" => runStatus'[1] = "finished"
                   /\ \A s \in calls' : s.from = "sync" /\ s.kind = "finish" /\ s.pc = "answer" =>
                         runStatus'[1] = "finished"
              /\ syncState'["spill"].done => runStatus'[1] = "finished"
  <2>1. PICK r : HandlerStep(q, r)
    BY <1>13, HandlerMoves
  <2>2. UNCHANGED <<shim, lines, syncState, syncer>> /\ r.from = q.from /\ r.kind = q.kind
        /\ r \in calls'
        /\ (\A s \in calls' : s = r \/ (s \in calls /\ s # q))
    BY <2>1 DEF HandlerStep, Same
  <2>3. q.run # 1 => runStatus'[1] = runStatus[1]
    BY <2>1, Names DEF HandlerStep
  <2>4. q.kind = "finish" /\ r.pc = "answer" => runStatus'[q.run] = "finished"
    BY <2>1 DEF HandlerStep, Inserted
  <2>5. q.awaited /\ q.from \in {"shim", "sync"} /\ q \in Awaited(q.from) /\ r \in Awaited(q.from)'
    BY <1>3, <1>6, <2>2 DEF CallState, Awaited
  <2>6. q.from = "sync" /\ q.run = 1 =>
          /\ syncer.dir = "spill" /\ lines["spill"] # <<>> /\ ~syncState["spill"].done
          /\ IF q.kind = "finish" THEN syncer.pc = "ending" ELSE syncer.pc = "sent"
    BY <1>2, <2>5, SyncOfSpill
  <2>7. q.from = "shim" =>
          /\ ~syncState["spill"].done
          /\ ~(syncer.dir = "spill" /\ syncer.pc \in {"ending", "ended"})
          /\ shim.pc \notin {"spilled", "done"}
    BY <1>2, <2>5, SpillEnded DEF ShimWaits, Undisturbed
  <2>8. q.from = "shim" => q.run = 1
    BY DEF ShimWaits
  <2>9. ASSUME NEW s \in calls', s.from = q.from PROVE s = r
    BY <1>3, <2>5, <2>9 DEF Awaited, ShimWaits, SyncWaits
  <2>10. ASSUME NEW s \in calls', s.from # q.from PROVE s \in calls
    BY <2>2, <2>10
  <2>11. ASSUME lines'["spill"] = <<>>, shim'.finishOK, shim'.pc \in {"spilled", "done"}
         PROVE  runStatus'[1] = "finished"
    BY <1>4, <2>2, <2>3, <2>5, <2>6, <2>7, <2>11
  <2>12. ASSUME lines'["spill"] = <<>>, NEW s \in calls', s.from = "shim", s.kind = "finish",
         s.pc = "answer"
         PROVE  runStatus'[1] = "finished"
    BY <1>4, <2>2, <2>3, <2>4, <2>5, <2>6, <2>8, <2>9, <2>10, <2>12
  <2>13. ASSUME syncer'.dir = "spill", syncer'.pc = "ended" PROVE runStatus'[1] = "finished"
    BY <1>4, <2>2, <2>3, <2>5, <2>6, <2>7, <2>13
  <2>14. ASSUME syncer'.dir = "spill", NEW s \in calls', s.from = "sync", s.kind = "finish",
         s.pc = "answer"
         PROVE  runStatus'[1] = "finished"
    <3>1. syncer.dir = "spill" /\ syncer.pc = "ending"
      BY <1>11, <2>2, <2>14
    <3>2. CASE q.from = "sync"
      <4>1. s = r /\ q.kind = "finish" /\ r.pc = "answer"
        BY <2>2, <2>9, <2>14, <3>2
      <4>2. q.run = 1
        <5>1. q.run = syncer.run /\ syncer.run \in {0, 1} /\ q.run \in RunNames
          BY <1>6, <2>5, <3>1, <3>2 DEF SyncWaits, PassAt, Stands, CallState
        <5> QED
          BY <5>1, Names
      <4> QED
        BY <2>4, <4>1, <4>2
    <3>3. CASE q.from = "shim"
      BY <2>7, <3>1, <3>3
    <3> QED
      BY <2>5, <3>2, <3>3
  <2>15. ASSUME syncState'["spill"].done PROVE runStatus'[1] = "finished"
    BY <1>4, <2>2, <2>3, <2>5, <2>6, <2>7, <2>15
  <2> QED
    BY <2>11, <2>12, <2>13, <2>14, <2>15
<1> QED
  BY <1>12, <1>13, CallsMove

(***************************************************************************)
(* The theorems.                                                           *)
(***************************************************************************)

\* Nothing has been written, sent or received.
LEMMA DeliveryStarts ==
  ASSUME DeliveryInit
  PROVE  DeliveryInv
<1>1. /\ shim.pc = "logging" /\ shim.buf = <<>> /\ shim.sending = <<>> /\ shim.logged = 0
      /\ shim.tries = 0 /\ shim.lock = "free" /\ shim.finishOK = FALSE
      /\ shim \in [pc : {"logging"}, buf : {<<>>}, sending : {<<>>}, logged : {0}, tries : {0},
                   lock : {"free"}, finishOK : {FALSE}, spill : {"none"}, dropped : {{}}]
  BY DEF DeliveryInit
<1>2. /\ syncer.pc = "idle" /\ syncer.dir = "spill"
  BY DEF DeliveryInit, SyncerIdle
<1>3. calls = {} /\ (\A d \in Dirs : lines[d] = <<>>) /\ (\A n \in RunNames : received[n] = {})
      /\ \A d \in Dirs : syncState[d].run = 0 /\ syncState[d].synced = 0 /\ ~syncState[d].done
  BY DEF DeliveryInit
<1>4. \A from : Awaited(from) = {}
  BY <1>3 DEF Awaited
<1>5. \A S : <<>> \in Seq(S) /\ Len(<<>>) = 0
  BY EmptySeq
<1>6. \A d \in Dirs : Len(lines[d]) = 0
  BY <1>3, <1>5
<1>7. DeliveryTypes
  <2>1. shim \in ShimState
    <3>1. 0 \in 0..MaxLogged /\ 0 \in 0..DrainAttempts
      BY DeliveryAssumption
    <3> QED
      BY <1>1, <1>5, <3>1 DEF ShimState
  <2>2. ShimTyped
    <3>1. Len(shim.buf) = 0
      BY <1>1, <1>5
    <3> QED
      BY <1>1, <2>1, <3>1, DeliveryAssumption DEF ShimTyped
  <2>3. lines \in [Dirs -> Seq(LineState)]
    BY <1>5 DEF DeliveryInit
  <2>4. syncState \in [Dirs -> [run : RunNames \cup {0}, synced : Nat, done : BOOLEAN]]
    BY DEF DeliveryInit
  <2>5. syncer \in SyncerState
    <3>1. syncer = [pc |-> "idle", dir |-> "spill", last |-> 0, over |-> FALSE, upTo |-> 0, run |-> 0]
      BY DEF DeliveryInit, SyncerIdle
    <3>2. "spill" \in Dirs /\ 0 \in RunNames \cup {0}
      BY Names
    <3> QED
      BY <3>1, <3>2 DEF SyncerState
  <2>6. runStatus \in [RunNames -> {"none", "running", "finished"}]
        /\ received \in [RunNames -> SUBSET LoggedPoints]
        /\ budget \in BudgetState
    BY DEF DeliveryInit, BudgetState
  <2> QED
    BY <1>3, <2>2, <2>3, <2>4, <2>5, <2>6 DEF DeliveryTypes
<1>8. LinesEnd
  BY <1>6, Names DEF LinesEnd
<1>9. ShimWaits
  BY <1>1, <1>3, <1>4 DEF ShimWaits, Capped
<1>10. Inserted
  BY <1>3 DEF Inserted
<1>11. SyncWaits
  BY <1>2, <1>4 DEF SyncWaits
<1>12. PassAt
  BY <1>2 DEF PassAt, Stands
<1>13. OnDisk
  <2>1. \A d \in Dirs : 1..Len(lines[d]) = {} /\ 1..syncState[d].synced = {}
    BY <1>3, <1>6
  <2>2. \A d \in Dirs : syncState[d].synced <= Len(lines[d])
    BY <1>3, <1>6
  <2> QED
    BY <1>3, <2>1, <2>2, Names DEF OnDisk
<1>14. OneRun
  BY <1>3 DEF OneRun
<1>15. PointsSurvive
  BY <1>1 DEF PointsSurvive
<1>16. FinishedBy
  BY <1>1, <1>2, <1>3, Names DEF FinishedBy
<1> QED
  BY <1>7, <1>8, <1>9, <1>10, <1>11, <1>12, <1>13, <1>14, <1>15, <1>16 DEF DeliveryInv

\* Each step keeps each part of the invariant; the lemmas say from which others.
LEMMA DeliveryStep ==
  ASSUME DeliveryInv, [DeliveryNext]_deliveryVars
  PROVE  DeliveryInv'
<1>1. CASE UNCHANGED deliveryVars
  <2>1. /\ UNCHANGED <<shim, lines, syncState, syncer, calls, runStatus, received, budget>>
        /\ Awaited("shim")' = Awaited("shim") /\ Awaited("sync")' = Awaited("sync")
    BY <1>1 DEF deliveryVars, Awaited
  <2>2. DeliveryTypes' /\ LinesEnd'
    BY <2>1 DEF DeliveryInv, DeliveryTypes, ShimTyped, LinesEnd
  <2>3. ShimWaits'
    <3>1. /\ Chunk(shim.sending)' = Chunk(shim.sending) /\ PointsOf("spill")' = PointsOf("spill")
          /\ Capped' = Capped
      BY <2>1 DEF Chunk, PointsOf, Capped
    <3>2. ToSet(Chunk(shim.sending))' = ToSet(Chunk(shim.sending))
      BY <3>1 DEF ToSet
    <3> QED
      BY <2>1, <3>1, <3>2 DEF DeliveryInv, ShimWaits
  <2>4. Inserted' /\ SyncWaits'
    BY <2>1 DEF DeliveryInv, Inserted, SyncWaits, Batch
  <2>5. PassAt' /\ OnDisk' /\ OneRun'
    BY <2>1 DEF DeliveryInv, PassAt, OnDisk, OneRun
  <2>6. PointsSurvive'
    BY <2>1 DEF DeliveryInv, PointsSurvive, ToSet
  <2>7. FinishedBy'
    BY <2>1 DEF DeliveryInv, FinishedBy, Undisturbed
  <2> QED
    BY <2>2, <2>3, <2>4, <2>5, <2>6, <2>7 DEF DeliveryInv
<1>2. CASE DeliveryNext
  <2>1. /\ DeliveryTypes /\ LinesEnd /\ ShimWaits /\ Inserted /\ SyncWaits /\ PassAt /\ OnDisk
        /\ OneRun /\ PointsSurvive /\ FinishedBy
    BY DEF DeliveryInv
  <2>2. DeliveryTypes'
    BY <1>2, <2>1, TypesKept
  <2>3. LinesEnd'
    BY <1>2, <2>1, LinesMove, LinesStayEnded
  <2>4. ShimWaits'
    BY <1>2, <2>1, ShimWaitsKept
  <2>5. Inserted'
    BY <1>2, <2>1, InsertedKept
  <2>6. SyncWaits'
    BY <1>2, <2>1, SyncWaitsKept
  <2>7. PassAt'
    BY <1>2, <2>1, PassKept
  <2>8. OnDisk'
    BY <1>2, <2>1, DiskKept
  <2>9. OneRun'
    BY <1>2, <2>1, OneRunKept
  <2>10. PointsSurvive'
    BY <1>2, <2>1, SurviveKept
  <2>11. FinishedBy'
    BY <1>2, <2>1, <2>4, <2>6, FinishedKept
  <2> QED
    BY <2>2, <2>3, <2>4, <2>5, <2>6, <2>7, <2>8, <2>9, <2>10, <2>11 DEF DeliveryInv
<1> QED
  BY <1>1, <1>2

\* The invariant holds in every reachable state: who waits for which call, what
\* is on disk, and where each point is.
THEOREM DeliveryInductive == DeliverySpec => []DeliveryInv
<1>1. DeliveryInit => DeliveryInv
  BY DeliveryStarts
<1>2. DeliveryInv /\ [DeliveryNext]_deliveryVars => DeliveryInv'
  BY DeliveryStep
<1> QED
  BY <1>1, <1>2, PTL DEF DeliverySpec

\* The types follow: the buffer's size from the points logged, and what is in a
\* directory or on the server from who writes there.
LEMMA WellTyped ==
  ASSUME DeliveryInv
  PROVE  DeliveryTypeOK
<1>1. DeliveryTypes /\ LinesEnd
  BY DEF DeliveryInv
<1>2. shim \in ShimState /\ Len(shim.buf) <= BufferMax + shim.logged
  BY <1>1 DEF DeliveryTypes, ShimTyped
<1>3. shim.buf \in Seq(PointsOf("spill")) /\ shim.sending \in Seq(PointsOf("spill"))
      /\ shim.logged \in 0..MaxLogged /\ shim.tries \in 0..DrainAttempts
      /\ shim.lock \in {"free", "timer", "finish"}
      /\ shim.spill \in {"none", "open", "unavailable"} /\ shim.dropped \subseteq PointsOf("spill")
      /\ shim.pc \in {"logging", "draining", "drained", "closing", "finishing", "spilled",
             "done", "dead"}
  BY <1>2 DEF ShimState
<1>4. ToSet(shim.buf) \cup ToSet(shim.sending) \subseteq LoggedPoints /\ shim.dropped \subseteq LoggedPoints
  <2>1. \A s \in Seq(PointsOf("spill")) : ToSet(s) \subseteq PointsOf("spill")
    BY LenProperties, ElementOfSeq DEF ToSet
  <2>2. PointsOf("spill") \subseteq LoggedPoints
    BY Names
  <2> QED
    BY <1>3, <2>1, <2>2
<1>5. Len(shim.buf) <= BufferMax + MaxLogged /\ shim.tries <= DrainAttempts
  <2>1. Len(shim.buf) \in Nat /\ BufferMax \in Nat /\ MaxLogged \in Nat /\ DrainAttempts \in Nat
    BY <1>3, LenProperties, DeliveryAssumption
  <2> QED
    BY <1>2, <1>3, <2>1
<1>6. \A d \in Dirs : \A i \in DOMAIN lines[d] : lines[d][i].pts \subseteq LoggedPoints
  <2> SUFFICES ASSUME NEW d \in Dirs, NEW i \in DOMAIN lines[d]
       PROVE lines[d][i].pts \subseteq LoggedPoints
    OBVIOUS
  <2>1. lines[d] \in Seq(LineState)
    BY <1>1 DEF DeliveryTypes
  <2>2. lines[d][i] \in LineState
    BY <2>1, ElementOfSeq, LenProperties
  <2> QED
    BY <2>2 DEF LineState
<1>7. syncer.pc \in {"idle", "resolve", "record", "send", "sent", "answered", "ending", "ended"}
  BY <1>1 DEF DeliveryTypes, SyncerState
<1> QED
  BY <1>1, <1>3, <1>4, <1>5, <1>6, <1>7 DEF DeliveryTypes, DeliveryTypeOK

\* The variables keep their types; the shim's buffer stays within its cap and
\* what was logged since, and finish() drains it a bounded number of times.
THEOREM DeliveryTypeCorrect == DeliverySpec => []DeliveryTypeOK
<1>1. DeliveryInv => DeliveryTypeOK
  BY WellTyped
<1> QED
  BY <1>1, DeliveryInductive, PTL

\* The shim loses no point while its process lives without saying so, whatever
\* requests fail, are refused, time out or are answered late and whatever the disk
\* refuses: what log() took is in the buffer, in the chunks being sent, on the
\* server, in the spill directory, or among those it said it was dropping.
THEOREM NoPointDropped == DeliverySpec => []PointsSurvive
<1>1. DeliveryInv => PointsSurvive
  BY DEF DeliveryInv
<1> QED
  BY <1>1, DeliveryInductive, PTL

\* The state file is true because a pass writes to it only what the answer it
\* waited for has shown, and the name is on disk before anything is sent.
LEMMA StateFileTrue ==
  ASSUME DeliveryInv
  PROVE  SyncStateHonest
<1>1. DeliveryTypes /\ OnDisk /\ OneRun
  BY DEF DeliveryInv
<1>2. ASSUME NEW d \in Dirs, NEW i \in DOMAIN lines[d], i <= syncState[d].synced \/ syncState[d].done
      PROVE  syncState[d].run # 0 /\ lines[d][i].pts \subseteq received[syncState[d].run]
  <2>1. i \in 1..Len(lines[d])
    BY <1>1, LenProperties DEF DeliveryTypes
  <2> QED
    BY <1>1, <1>2, <2>1 DEF OnDisk
<1>3. ASSUME NEW d \in OfflineDirs, NEW m \in RunNames, NEW n \in RunNames, m # n,
             received[m] \cap ({d} \X (1..MaxOffline)) # {}
      PROVE  received[n] \cap ({d} \X (1..MaxOffline)) = {}
  <2>1. PointsOf(d) = {d} \X (1..MaxOffline)
    BY DeliveryAssumption DEF PointsOf
  <2> QED
    BY <1>1, <1>3, <2>1 DEF OneRun
<1> QED
  BY <1>2, <1>3 DEF SyncStateHonest

\* What `tf experiments sync` resumes from is true after any number of passes,
\* failures and kills: the lines its cursor or its done mark covers are on the
\* server under the run it names, and a directory's points are in one run.
THEOREM CursorHonest == DeliverySpec => []SyncStateHonest
<1>1. DeliveryInv => SyncStateHonest
  BY StateFileTrue
<1> QED
  BY <1>1, DeliveryInductive, PTL

\* Once everything is handed over, the run is finished by the shim's request or
\* by the replay.
LEMMA HandedOver ==
  ASSUME DeliveryInv
  PROVE  FinishedUnlessLate
<1> SUFFICES ASSUME ~budget.abandoned, ~budget.late, Settled PROVE runStatus[1] = "finished"
  BY DEF FinishedUnlessLate, FinishedStays
<1>1. Undisturbed /\ FinishedBy
  BY DEF Undisturbed, Settled, DeliveryInv
<1>2. CASE lines["spill"] = <<>>
  BY <1>1, <1>2 DEF FinishedBy, Settled
<1>3. CASE syncState["spill"].done
  BY <1>1, <1>3 DEF FinishedBy
<1> QED
  BY <1>2, <1>3 DEF Settled

\* A run whose finish() was answered and whose requests are over is finished,
\* unless a client timed out or died over a request the server was handling, or a
\* timer outlived finish() with points to send.
THEOREM FinishedKeeps == DeliverySpec => []FinishedUnlessLate
<1>1. DeliveryInv => FinishedUnlessLate
  BY HandedOver
<1> QED
  BY <1>1, DeliveryInductive, PTL

=============================================================================
