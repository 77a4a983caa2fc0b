---------------------------- MODULE RunDelivery ----------------------------
(***************************************************************************)
(* How the metrics of a training run reach the ingest API.  The Python     *)
(* shim (clients/python/thinkingface/trackio) buffers and posts them, and  *)
(* spills to a run directory what it cannot deliver; offline runs only     *)
(* write a directory; `tf experiments sync` (tfcli/experiments_sync.go)    *)
(* replays directories; the handlers of api/experiments_ingest.go run      *)
(* statement by statement, whether or not the client still waits.          *)
(***************************************************************************)
EXTENDS Naturals, Sequences, FiniteSets, SequencesExt

CONSTANTS
    OfflineDirs,     \* run directories of offline runs, which all ask for run 1
    BufferMax,       \* _BUFFER_MAX_POINTS
    PerRequest,      \* _MAX_POINTS_PER_REQUEST
    DrainAttempts,   \* _FINISH_FLUSH_ATTEMPTS
    MaxLogged,       \* bound: points the shim logs
    MaxOffline,      \* bound: points an offline run logs
    MaxPings,        \* bound: heartbeats posted
    MaxMishaps,      \* bound: failed requests, timeouts and killed processes
    MaxRefusals      \* bound: requests refused for good, writes the disk refuses

ASSUME DeliveryAssumption ==
    /\ {DrainAttempts, BufferMax, PerRequest} \subseteq Nat \ {0}
    /\ {MaxLogged, MaxOffline, MaxPings, MaxMishaps, MaxRefusals} \subseteq Nat
    /\ IsFiniteSet(OfflineDirs) /\ {"spill", "shim"} \cap OfflineDirs = {}

Dirs == OfflineDirs \cup {"spill"}

\* The shim's run is called 1; a directory that finds its name taken goes on
\* counting.
RunNames == 1..Cardinality(OfflineDirs) + 1

VARIABLES
    shim,        \* the shim's run
    lines,       \* run.jsonl of each directory, after its init record
    syncState,   \* sync-state.json of each directory
    syncer,      \* the pass of `tf experiments sync` under way
    calls,       \* ingest requests the server has not finished with
    runStatus,   \* exp_runs.status, or "none"
    received,    \* per run, the points inserted into exp_points
    budget       \* pings, mishaps and refusals so far; whether a client left a
                 \* handler running; whether the last timer came after finish()

deliveryVars == <<shim, lines, syncState, syncer, calls, runStatus, received, budget>>

\* run.jsonl records.  A point is named by its writer and its step.
LogLine(pts) == [finish |-> FALSE, pts |-> pts]
FinishLine == [finish |-> TRUE, pts |-> {}]

SyncerIdle == [pc |-> "idle", dir |-> "spill", last |-> 0, over |-> FALSE, upTo |-> 0, run |-> 0]

DeliveryInit ==
    /\ shim = [pc |-> "logging", buf |-> <<>>, sending |-> <<>>, logged |-> 0,
               tries |-> 0, lock |-> "free", finishOK |-> FALSE,
               spill |-> "none", dropped |-> {}]
    /\ lines = [d \in Dirs |-> <<>>]
    /\ syncState = [d \in Dirs |-> [run |-> 0, synced |-> 0, done |-> FALSE]]
    /\ syncer = SyncerIdle
    /\ calls = {}
    /\ runStatus = [n \in RunNames |-> "none"]
    /\ received = [n \in RunNames |-> {}]
    /\ budget = [pings |-> 0, mishaps |-> 0, refusals |-> 0, abandoned |-> FALSE, late |-> FALSE]

Call(from, kind, run, pts, want) ==
    [from |-> from, kind |-> kind, run |-> run, pts |-> pts, want |-> want,
     pc |-> "load", prev |-> "none", awaited |-> TRUE]

\* The client is killed; its handlers go on.
Orphaned(from) == {[q EXCEPT !.awaited = @ /\ q.from # from] : q \in calls}
AfterKill(from) ==
    [budget EXCEPT !.mishaps = @ + 1, !.abandoned = @ \/ \E q \in calls : q.from = from]

(***************************************************************************)
(* The server: handleExperimentLog and handleExperimentFinish.             *)
(***************************************************************************)

Advance(q, pc) == calls' = (calls \ {q}) \cup {[q EXCEPT !.pc = pc]}

\* loadRunState.
LoadRun(q) ==
    /\ q.pc = "load"
    /\ calls' = (calls \ {q}) \cup {[q EXCEPT !.pc = "upsert", !.prev = runStatus[q.run]]}
    /\ UNCHANGED <<shim, lines, syncState, syncer, runStatus, received, budget>>

\* keepsTerminalStatus: a ping leaves a finished run alone.
StatusAfter(q) ==
    IF q.kind = "ping" /\ q.prev = "finished" /\ runStatus[q.run] # "none"
    THEN runStatus[q.run] ELSE q.want

UpsertStatus(q) ==
    /\ q.pc = "upsert"
    /\ runStatus' = [runStatus EXCEPT ![q.run] = StatusAfter(q)]
    /\ Advance(q, IF q.kind = "finish" THEN "answer" ELSE "insert")
    /\ UNCHANGED <<shim, lines, syncState, syncer, received, budget>>

InsertBatch(q) ==
    /\ q.pc = "insert"
    /\ received' = [received EXCEPT ![q.run] = @ \cup q.pts]
    /\ Advance(q, "count")
    /\ UNCHANGED <<shim, lines, syncState, syncer, runStatus, budget>>

\* The counter columns, and the status once more.
UpsertCounters(q) ==
    /\ q.pc = "count"
    /\ runStatus' = [runStatus EXCEPT ![q.run] = StatusAfter(q)]
    /\ Advance(q, "answer")
    /\ UNCHANGED <<shim, lines, syncState, syncer, received, budget>>

Handle(q) == LoadRun(q) \/ UpsertStatus(q) \/ InsertBatch(q) \/ UpsertCounters(q)

\* A handler whose client has gone ends unheard.
Unheard(q) ==
    /\ q.pc = "answer" /\ ~q.awaited
    /\ calls' = calls \ {q}
    /\ UNCHANGED <<shim, lines, syncState, syncer, runStatus, received, budget>>

(***************************************************************************)
(* The shim.                                                               *)
(***************************************************************************)

Overflow(buf) == IF Len(buf) > BufferMax THEN Len(buf) - BufferMax ELSE 0

\* A flush is posted in chunks, one request after the other.
Chunk(pts) == SubSeq(pts, 1, IF Len(pts) < PerRequest THEN Len(pts) ELSE PerRequest)
Rest(pts) == SubSeq(pts, PerRequest + 1, Len(pts))
LogCall(pts) == Call("shim", "log", 1, ToSet(Chunk(pts)), "running")

\* Given up for good, with a warning.
Dropped(s, pts) == [s EXCEPT !.dropped = @ \cup pts]

\* _spill_points, by a shim that has become s, within budget b.  The directory is
\* created on first use; once that has failed nothing is spilled any more.
Spills(s, pts, b) ==
    \/ /\ pts = {}
       /\ shim' = s /\ budget' = b
       /\ UNCHANGED lines
    \/ /\ pts # {} /\ s.spill # "unavailable"
       /\ lines' = [lines EXCEPT !["spill"] = Append(@, LogLine(pts))]
       /\ shim' = [s EXCEPT !.spill = "open"] /\ budget' = b
    \/ /\ pts # {} /\ s.spill = "unavailable"
       /\ shim' = Dropped(s, pts) /\ budget' = b
       /\ UNCHANGED lines
    \/ /\ pts # {} /\ s.spill # "unavailable"
       /\ b.refusals < MaxRefusals
       /\ budget' = [b EXCEPT !.refusals = @ + 1]
       /\ \E spill \in {"open", IF s.spill = "none" THEN "unavailable" ELSE "open"} :
            shim' = [Dropped(s, pts) EXCEPT !.spill = spill]
       /\ UNCHANGED lines

\* log() refuses once finish() has begun.
LogPoint ==
    /\ shim.pc = "logging"
    /\ shim.logged < MaxLogged
    /\ shim' = [shim EXCEPT !.logged = @ + 1,
                            !.buf = Append(@, <<"shim", shim.logged + 1>>)]
    /\ UNCHANGED <<lines, syncState, syncer, calls, runStatus, received, budget>>

\* flush() takes _send_lock before it drains the buffer.
Flush ==
    /\ shim.lock = "free"
    /\ shim.buf # <<>>
    /\ shim' = [shim EXCEPT !.buf = <<>>, !.sending = shim.buf, !.lock = "timer"]
    /\ calls' = calls \cup {LogCall(shim.buf)}
    /\ UNCHANGED <<lines, syncState, syncer, runStatus, received>>

\* By the timer or by log() itself.  finish() lets one under way go on.
FlushBuffer ==
    /\ shim.pc \in {"logging", "draining", "drained"}
    /\ Flush
    /\ UNCHANGED budget

\* _on_timer may find _finished still unset and schedule one more timer after
\* finish() has cancelled the last one.
LateTick ==
    /\ shim.pc \in {"closing", "spilled", "done"}
    /\ ~budget.late
    /\ Flush
    /\ budget' = [budget EXCEPT !.late = TRUE]

\* _maybe_heartbeat.
Ping ==
    /\ shim.pc = "logging"
    /\ shim.lock = "free"
    /\ budget.pings < MaxPings
    /\ budget' = [budget EXCEPT !.pings = @ + 1]
    /\ shim' = [shim EXCEPT !.lock = "timer"]
    /\ calls' = calls \cup {Call("shim", "ping", 1, {}, "running")}
    /\ UNCHANGED <<lines, syncState, syncer, runStatus, received>>

FinishRun ==
    /\ shim.pc = "logging"
    /\ shim' = [shim EXCEPT !.pc = "draining"]
    /\ UNCHANGED <<lines, syncState, syncer, calls, runStatus, received, budget>>

\* _drain_for_finish: finish()'s own flush...
DrainFlush ==
    /\ shim.pc = "draining"
    /\ shim.lock = "free"
    /\ IF shim.buf = <<>>
       THEN shim' = [shim EXCEPT !.pc = "drained", !.tries = @ + 1] /\ UNCHANGED calls
       ELSE /\ shim' = [shim EXCEPT !.pc = "drained", !.tries = @ + 1, !.buf = <<>>,
                                    !.sending = shim.buf, !.lock = "finish"]
            /\ calls' = calls \cup {LogCall(shim.buf)}
    /\ UNCHANGED <<lines, syncState, syncer, runStatus, received, budget>>

\* ... and its look at the buffer afterwards, which is not under _send_lock.
EndDrain ==
    /\ shim.pc = "drained"
    /\ shim.lock # "finish"
    /\ IF shim.buf # <<>> /\ shim.tries < DrainAttempts
       THEN shim' = [shim EXCEPT !.pc = "draining"] /\ UNCHANGED <<lines, budget>>
       ELSE Spills([shim EXCEPT !.pc = "closing", !.buf = <<>>], ToSet(shim.buf), budget)
    /\ UNCHANGED <<syncState, syncer, calls, runStatus, received>>

\* As if finish() went by its own drain.
CallsOverByDrain == shim.lock # "finish"

\* finish() posts under _send_lock, not beside a call under way.
CallsOver == shim.lock = "free"

PostFinish ==
    /\ shim.pc = "closing"
    /\ CallsOver
    /\ shim' = [shim EXCEPT !.pc = "finishing", !.lock = "finish"]
    /\ calls' = calls \cup {Call("shim", "finish", 1, {}, "finished")}
    /\ UNCHANGED <<lines, syncState, syncer, runStatus, received, budget>>

\* _close_spill.
CloseSpill ==
    /\ shim.pc = "spilled"
    /\ shim' = [shim EXCEPT !.pc = "done"]
    /\ \/ /\ lines' = IF shim.spill = "open"
                       THEN [lines EXCEPT !["spill"] = Append(@, FinishLine)] ELSE lines
          /\ UNCHANGED budget
       \/ /\ shim.spill = "open"
          /\ budget.refusals < MaxRefusals
          /\ budget' = [budget EXCEPT !.refusals = @ + 1]
          /\ UNCHANGED lines
    /\ UNCHANGED <<syncState, syncer, calls, runStatus, received>>

\* The points of a failed batch go back to the front; the oldest beyond the
\* cap go to disk.
PutBack(s) ==
    LET buf == s.sending \o s.buf
    IN [s EXCEPT !.buf = SubSeq(buf, Overflow(buf) + 1, Len(buf)), !.sending = <<>>]

\* As if they were only counted.
EvictedNone(s) == {}
Evicted(s) ==
    LET buf == s.sending \o s.buf IN ToSet(SubSeq(buf, 1, Overflow(buf)))

\* _send: a chunk that was accepted is followed by the next one, under the same
\* lock; a failed one goes back with those behind it; one that is refused for
\* good (a 4xx, or no JSON to begin with) is dropped with those behind it.
Sent ==
    shim' = IF Rest(shim.sending) = <<>>
            THEN [shim EXCEPT !.lock = "free", !.sending = <<>>]
            ELSE [shim EXCEPT !.sending = Rest(@)]

NextChunk(q) ==
    IF q.from = "shim" /\ q.kind = "log" /\ Rest(shim.sending) # <<>>
    THEN {LogCall(Rest(shim.sending))} ELSE {}

\* What the shim makes of the outcome of the call it waits for.
ShimHears(q, outcome, b) ==
    LET s == [shim EXCEPT !.lock = "free"]
    IN \/ q.kind = "ping" /\ shim' = s /\ budget' = b /\ UNCHANGED lines
       \/ /\ q.kind = "finish"
          /\ shim' = [s EXCEPT !.pc = "spilled", !.finishOK = (outcome = "sent")]
          /\ budget' = b /\ UNCHANGED lines
       \/ q.kind = "log" /\ outcome = "sent" /\ Sent /\ budget' = b /\ UNCHANGED lines
       \/ q.kind = "log" /\ outcome = "retry" /\ Spills(PutBack(s), Evicted(s), b)
       \/ /\ q.kind = "log" /\ outcome = "drop"
          /\ shim' = [Dropped(s, ToSet(s.sending)) EXCEPT !.sending = <<>>]
          /\ budget' = b /\ UNCHANGED lines

\* The process is killed: what it had in memory is gone.
ShimDies ==
    /\ shim.pc \notin {"done", "dead"}
    /\ budget.mishaps < MaxMishaps
    /\ budget' = AfterKill("shim")
    /\ shim' = [shim EXCEPT !.pc = "dead", !.lock = "free", !.buf = <<>>, !.sending = <<>>]
    /\ calls' = Orphaned("shim")
    /\ UNCHANGED <<lines, syncState, syncer, runStatus, received>>

\* An offline run appends its points and its finish record; it may stop at any
\* line.
WriteOffline(d) ==
    /\ \A i \in DOMAIN lines[d] : ~lines[d][i].finish
    /\ LET n == Len(lines[d]) + 1
       IN lines' = [lines EXCEPT ![d] =
                      Append(@, IF n > MaxOffline THEN FinishLine ELSE LogLine({<<d, n>>}))]
    /\ UNCHANGED <<shim, syncState, syncer, calls, runStatus, received, budget>>

Shimming ==
    \/ LogPoint \/ FlushBuffer \/ LateTick \/ Ping
    \/ FinishRun \/ DrainFlush \/ EndDrain \/ PostFinish \/ CloseSpill

(***************************************************************************)
(* tf experiments sync: syncDir.                                           *)
(***************************************************************************)

\* The lines before the finish record, if there is one yet.
LogLines(d) == Cardinality({i \in DOMAIN lines[d] : ~lines[d][i].finish})

OpenDir(d) ==
    /\ syncer.pc = "idle"
    /\ ~syncState[d].done
    /\ lines[d] # <<>>
    /\ syncer' = [SyncerIdle EXCEPT
                    !.pc = IF syncState[d].run = 0 THEN "resolve" ELSE "send",
                    !.dir = d, !.last = LogLines(d), !.over = LogLines(d) < Len(lines[d]),
                    !.run = syncState[d].run]
    /\ UNCHANGED <<shim, lines, syncState, calls, runStatus, received, budget>>

\* resolveRunName: the spill directory says "allow", an offline run "never".
Resolved(d) ==
    IF d = "spill" THEN 1
    ELSE CHOOSE n \in RunNames :
            /\ runStatus[n] = "none" \/ n = Cardinality(RunNames)
            /\ \A m \in 1..n - 1 : runStatus[m] # "none"

ResolveRunName ==
    /\ syncer.pc = "resolve"
    /\ syncer' = [syncer EXCEPT !.pc = "record", !.run = Resolved(syncer.dir)]
    /\ UNCHANGED <<shim, lines, syncState, calls, runStatus, received, budget>>

RecordedRun(st, run) == [st EXCEPT !.run = run]

\* The resolution is on disk before anything is sent.
RecordRunName ==
    /\ syncer.pc = "record"
    /\ syncState' = [syncState EXCEPT ![syncer.dir] = RecordedRun(@, syncer.run)]
    /\ syncer' = [syncer EXCEPT !.pc = "send"]
    /\ UNCHANGED <<shim, lines, calls, runStatus, received, budget>>

\* A batch is some of the lines left; a run already over is replayed at its
\* final status.
SendBatch ==
    /\ syncer.pc = "send"
    /\ LET from == syncState[syncer.dir].synced
       IN \E k \in from + 1..syncer.last :
            /\ calls' = calls \cup
                 {Call("sync", "log", syncer.run,
                       UNION {lines[syncer.dir][i].pts : i \in from + 1..k},
                       IF syncer.over THEN "finished" ELSE "running")}
            /\ syncer' = [syncer EXCEPT !.pc = "sent", !.upTo = k]
    /\ UNCHANGED <<shim, lines, syncState, runStatus, received, budget>>

SendFinish ==
    /\ syncer.pc = "send"
    /\ syncState[syncer.dir].synced = syncer.last
    /\ IF syncer.over
       THEN /\ calls' = calls \cup {Call("sync", "finish", syncer.run, {}, "finished")}
            /\ syncer' = [syncer EXCEPT !.pc = "ending"]
       ELSE syncer' = SyncerIdle /\ UNCHANGED calls
    /\ UNCHANGED <<shim, lines, syncState, runStatus, received, budget>>

\* As if the answer were not looked at.
SyncerHearsAnything(q, outcome) ==
    syncer' = [syncer EXCEPT !.pc = IF @ = "ending" THEN "ended" ELSE "answered"]

\* A failed call ends the pass; the next one starts from the cursor.
SyncerHears(q, outcome) ==
    syncer' = IF outcome = "sent"
              THEN [syncer EXCEPT !.pc = IF @ = "ending" THEN "ended" ELSE "answered"]
              ELSE SyncerIdle

WriteCursor ==
    /\ syncer.pc = "answered"
    /\ syncState' = [syncState EXCEPT ![syncer.dir].run = syncer.run,
                                      ![syncer.dir].synced = syncer.upTo]
    /\ syncer' = [syncer EXCEPT !.pc = "send"]
    /\ UNCHANGED <<shim, lines, calls, runStatus, received, budget>>

WriteDone ==
    /\ syncer.pc = "ended"
    /\ syncState' = [syncState EXCEPT ![syncer.dir].done = TRUE]
    /\ syncer' = SyncerIdle
    /\ UNCHANGED <<shim, lines, calls, runStatus, received, budget>>

SyncerDies ==
    /\ syncer.pc # "idle"
    /\ budget.mishaps < MaxMishaps
    /\ budget' = AfterKill("sync")
    /\ syncer' = SyncerIdle
    /\ calls' = Orphaned("sync")
    /\ UNCHANGED <<shim, lines, syncState, runStatus, received>>

Syncing ==
    \/ \E d \in Dirs : OpenDir(d)
    \/ ResolveRunName \/ RecordRunName \/ SendBatch \/ SendFinish \/ WriteCursor \/ WriteDone

(***************************************************************************)
(* Answers, lost calls, refusals and timeouts.                             *)
(***************************************************************************)

Heard(q, outcome, b) ==
    IF q.from = "shim"
    THEN ShimHears(q, outcome, b) /\ UNCHANGED syncer
    ELSE SyncerHears(q, outcome) /\ budget' = b /\ UNCHANGED <<shim, lines>>

Mishap == [budget EXCEPT !.mishaps = @ + 1]

Answer(q) ==
    /\ q.pc = "answer" /\ q.awaited
    /\ calls' = (calls \ {q}) \cup NextChunk(q)
    /\ Heard(q, "sent", budget)
    /\ UNCHANGED <<syncState, runStatus, received>>

\* The request is lost, a statement fails, or the answer is lost.
LoseCall(q) ==
    /\ q.awaited
    /\ budget.mishaps < MaxMishaps
    /\ calls' = calls \ {q}
    /\ Heard(q, "retry", Mishap)
    /\ UNCHANGED <<syncState, runStatus, received>>

\* The request cannot be built, or the handler refuses it, which it does before
\* it writes anything.
RefuseCall(q) ==
    /\ q.awaited
    /\ q.pc = "load"
    /\ budget.refusals < MaxRefusals
    /\ calls' = calls \ {q}
    /\ Heard(q, "drop", [budget EXCEPT !.refusals = @ + 1])
    /\ UNCHANGED <<syncState, runStatus, received>>

\* The client's timeout passes; the handler goes on.
TimeOut(q) ==
    /\ q.awaited
    /\ budget.mishaps < MaxMishaps
    /\ calls' = (calls \ {q}) \cup {[q EXCEPT !.awaited = FALSE]}
    /\ Heard(q, "retry", [Mishap EXCEPT !.abandoned = TRUE])
    /\ UNCHANGED <<syncState, runStatus, received>>

DeliveryNext ==
    \/ Shimming \/ ShimDies
    \/ \E d \in OfflineDirs : WriteOffline(d)
    \/ Syncing \/ SyncerDies
    \/ \E q \in calls : Handle(q) \/ Unheard(q) \/ Answer(q) \/ LoseCall(q)
                           \/ RefuseCall(q) \/ TimeOut(q)

DeliverySpec == DeliveryInit /\ [][DeliveryNext]_deliveryVars

(***************************************************************************)
(* Properties                                                              *)
(***************************************************************************)

LoggedPoints == ({"shim"} \X (1..MaxLogged)) \cup (OfflineDirs \X (1..MaxOffline))

CallState ==
    [from : {"shim", "sync"}, kind : {"log", "ping", "finish"}, run : RunNames,
     pts : SUBSET LoggedPoints, want : {"running", "finished"},
     pc : {"load", "upsert", "insert", "count", "answer"},
     prev : {"none", "running", "finished"}, awaited : BOOLEAN]

DeliveryTypeOK ==
    /\ shim.lock \in {"free", "timer", "finish"}
    /\ shim.pc \in {"logging", "draining", "drained", "closing", "finishing", "spilled", "done", "dead"}
    /\ ToSet(shim.buf) \cup ToSet(shim.sending) \subseteq LoggedPoints
    /\ Len(shim.buf) <= BufferMax + MaxLogged /\ shim.tries <= DrainAttempts
    /\ shim.spill \in {"none", "open", "unavailable"} /\ shim.dropped \subseteq LoggedPoints
    /\ \A d \in Dirs : \A i \in DOMAIN lines[d] : lines[d][i].pts \subseteq LoggedPoints
    /\ syncState \in [Dirs -> [run : RunNames \cup {0}, synced : Nat, done : BOOLEAN]]
    /\ syncer.pc \in {"idle", "resolve", "record", "send", "sent", "answered", "ending", "ended"}
    /\ calls \subseteq CallState
    /\ runStatus \in [RunNames -> {"none", "running", "finished"}]
    /\ \A n \in RunNames : received[n] \subseteq LoggedPoints

\* While its process lives, a point the shim has logged is in its buffer or in the
\* batch it is sending, on the server, in the spill directory, or among those it
\* said it was dropping: a batch that was refused with the chunks behind it, and
\* what the disk refused as well ("Only when the disk refuses them too are points
\* dropped with a warning").  A call that fails, however late and whatever the
\* server did with it, loses none.
PointsSurvive ==
    shim.pc # "dead" =>
        \A i \in 1..shim.logged :
            <<"shim", i>> \in ToSet(shim.buf) \cup ToSet(shim.sending) \cup received[1]
                              \cup (UNION {l.pts : l \in ToSet(lines["spill"])})
                              \cup shim.dropped

\* finish() leaves no point behind: undelivered ones are spilled or dropped aloud,
\* "never leaving them to sit silently in a buffer nothing will ever flush again"
\* (the module's doc).
NothingStranded == shim.pc = "done" => shim.buf = <<>>

\* What tf experiments sync resumes from is true.  sync-state.json never runs
\* ahead of the server: every line its cursor or its done mark covers has been
\* inserted, under the run it names.  And the points of a directory are in one
\* run: "a crash after the first /log must not make the next attempt pick name-1
\* for the run it already created" (syncDir).
SyncStateHonest ==
    /\ \A d \in Dirs : \A i \in DOMAIN lines[d] :
        (i <= syncState[d].synced \/ syncState[d].done) =>
            syncState[d].run # 0 /\ lines[d][i].pts \subseteq received[syncState[d].run]
    /\ \A d \in OfflineDirs : \A m, n \in RunNames :
        (m # n /\ received[m] \cap ({d} \X (1..MaxOffline)) # {})
            => received[n] \cap ({d} \X (1..MaxOffline)) = {}

\* Nothing is under way and what finish() had to hand over is handed over.
Settled ==
    /\ shim.pc = "done" /\ shim.finishOK
    /\ calls = {}
    /\ lines["spill"] = <<>> \/ syncState["spill"].done
    /\ \A d \in OfflineDirs : syncState[d].run # 1

\* A run whose finish() was answered is finished once its requests are over:
\* "only one HTTP request for this run is ever in flight at a time.  That is
\* what stops a slow /log POST the timer already started from landing at the
\* server after finish()'s /finish" (flush).
FinishedStays == Settled => runStatus[1] = "finished"

\* It is, if no client gave up on, or died over, a request the server was handling...
FinishedUnlessAbandoned == ~budget.abandoned => FinishedStays

\* ... and no timer outlived finish() and found points to send.
FinishedUnlessLate == ~budget.abandoned /\ ~budget.late => FinishedStays

=============================================================================
