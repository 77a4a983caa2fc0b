------------------------------ MODULE Webhooks ------------------------------
(***************************************************************************)
(* Webhook subscriptions of one namespace and their delivery queue         *)
(* (backend/internal/webhooks, store/webhooks.go, api/webhooks.go).  An    *)
(* event inserts one row per matching webhook; workers claim rows under a  *)
(* lease, POST, and record the outcome fenced on the attempt they claimed. *)
(***************************************************************************)
EXTENDS Naturals, Sequences, FiniteSets

CONSTANTS
    Hooks,             \* webhook ids, totally ordered: a set of naturals
    Dispatchers,       \* delivery workers, of any process
    HookMaxAttempts,   \* MaxAttempts
    MaxEvents,         \* bound: events fired
    MaxDeliveries,     \* bound: rows of webhook_deliveries ever created
    MaxHookEdits       \* bound: webhooks disabled, enabled or deleted

ASSUME HookAssumption ==
    /\ Hooks \subseteq Nat /\ IsFiniteSet(Hooks)
    /\ HookMaxAttempts \in Nat \ {0}
    /\ MaxEvents \in Nat /\ MaxDeliveries \in Nat /\ MaxHookEdits \in Nat

VARIABLES
    hook,        \* "active", "inactive" or "absent"
    delivery,    \* webhook_deliveries, in id order
    firing,      \* the webhooks the Fire under way still has to insert a row for
    dispatcher,  \* each delivery worker
    recorded,    \* per row, its latest attempt whose outcome was written (history)
    fired,       \* events fired so far
    hookEdits    \* edits so far

hookVars == <<hook, delivery, firing, dispatcher, recorded, fired, hookEdits>>

DispatcherIdle == [pc |-> "idle", id |-> 0, attempt |-> 0, success |-> FALSE]

\* due is "next_attempt_at <= now()".
NewDelivery(h) == [hook |-> h, status |-> "pending", attempts |-> 0, due |-> TRUE]

Unrecorded == [attempt |-> 0, success |-> FALSE]

HookInit ==
    /\ hook = [h \in Hooks |-> "active"]
    /\ delivery = <<>>
    /\ firing = {}
    /\ dispatcher = [w \in Dispatchers |-> DispatcherIdle]
    /\ recorded = <<>>
    /\ fired = 0
    /\ hookEdits = 0

(***************************************************************************)
(* Firing and managing.                                                    *)
(***************************************************************************)

\* Fire lists the active subscriptions; the inserts come one by one after it.
ListMatchingWebhooks ==
    /\ firing = {}
    /\ fired < MaxEvents
    /\ fired' = fired + 1
    /\ firing' = {h \in Hooks : hook[h] = "active"}
    /\ UNCHANGED <<hook, delivery, dispatcher, recorded, hookEdits>>

AddDelivery(h) ==
    /\ Len(delivery) < MaxDeliveries
    /\ delivery' = Append(delivery, NewDelivery(h))
    /\ recorded' = Append(recorded, Unrecorded)

\* The next insert of Fire's loop.  A webhook deleted since it was listed fails
\* the row's foreign key, and the error ends the loop: the webhooks behind it
\* get no row for this event.
CreateWebhookDelivery ==
    \E h \in firing :
        /\ \A other \in firing : h <= other
        /\ \/ /\ hook[h] # "absent"
              /\ AddDelivery(h)
              /\ firing' = firing \ {h}
           \/ /\ hook[h] = "absent"
              /\ firing' = {}
              /\ UNCHANGED <<delivery, recorded>>
        /\ UNCHANGED <<hook, dispatcher, fired, hookEdits>>

\* The process firing dies, or the database refuses the insert.
FireAborted ==
    /\ firing # {}
    /\ firing' = {}
    /\ UNCHANGED <<hook, delivery, dispatcher, recorded, fired, hookEdits>>

\* handleUpdateWebhook toggling "active"; rows of the queue are left alone.
UpdateWebhook(h) ==
    /\ hookEdits < MaxHookEdits
    /\ hook[h] # "absent"
    /\ hook' = [hook EXCEPT ![h] = IF @ = "active" THEN "inactive" ELSE "active"]
    /\ hookEdits' = hookEdits + 1
    /\ UNCHANGED <<delivery, firing, dispatcher, recorded, fired>>

\* handleDeleteWebhook: the rows go with it (ON DELETE CASCADE).
DeleteWebhook(h) ==
    /\ hookEdits < MaxHookEdits
    /\ hook[h] # "absent"
    /\ hook' = [hook EXCEPT ![h] = "absent"]
    /\ hookEdits' = hookEdits + 1
    /\ delivery' = [i \in DOMAIN delivery |->
           IF delivery[i].hook = h THEN [delivery[i] EXCEPT !.status = "gone"]
                                   ELSE delivery[i]]
    /\ UNCHANGED <<firing, dispatcher, recorded, fired>>

\* handleRedeliverWebhook: a fresh row, the old one untouched.
RedeliverWebhookDelivery(i) ==
    /\ delivery[i].status # "gone"
    /\ AddDelivery(delivery[i].hook)
    /\ UNCHANGED <<hook, firing, dispatcher, fired, hookEdits>>

(***************************************************************************)
(* Delivering.                                                             *)
(***************************************************************************)

\* As if nothing swept spent rows.
SweptNever(d) == d

\* The sweep that precedes every claim: a row whose attempts are spent parks,
\* whether or not the worker of its last attempt is still at it.
Swept(d) ==
    IF d.status = "pending" /\ d.attempts >= HookMaxAttempts
    THEN [d EXCEPT !.status = "failed"] ELSE d

Deliverable(d) ==
    /\ d.status = "pending"
    /\ d.due
    /\ d.attempts < HookMaxAttempts
    /\ hook[d.hook] = "active"

\* ClaimWebhookDelivery: sweep and claim in one transaction.
ClaimWebhookDelivery(w) ==
    LET swept == [i \in DOMAIN delivery |-> Swept(delivery[i])]
        ready == {i \in DOMAIN delivery : Deliverable(swept[i])}
    IN  /\ dispatcher[w].pc = "idle"
        /\ \/ /\ ready = {}
              /\ swept # delivery
              /\ delivery' = swept
              /\ UNCHANGED dispatcher
           \/ \E i \in ready :
              /\ \A j \in ready : i <= j
              /\ delivery' = [swept EXCEPT ![i].attempts = @ + 1, ![i].due = FALSE]
              /\ dispatcher' = [dispatcher EXCEPT ![w] =
                     [pc |-> "deliver", id |-> i,
                      attempt |-> delivery[i].attempts + 1, success |-> FALSE]]
        /\ UNCHANGED <<hook, firing, recorded, fired, hookEdits>>

\* deliver: the endpoint answers 2xx, or anything else happens.
Deliver(w) ==
    \E ok \in BOOLEAN :
        /\ dispatcher[w].pc = "deliver"
        /\ dispatcher' = [dispatcher EXCEPT ![w].pc = "finish", ![w].success = ok]
        /\ UNCHANGED <<hook, delivery, firing, recorded, fired, hookEdits>>

\* As if the finishing update were not fenced.
StillClaimedUnfenced(w) == delivery[dispatcher[w].id].status # "gone"

\* The claim a worker's outcome belongs to is still the row's last one.
StillClaimed(w) ==
    LET me == dispatcher[w] IN
    delivery[me.id].status # "gone" /\ delivery[me.id].attempts = me.attempt

Outcome(w) ==
    IF dispatcher[w].success THEN "success"
    ELSE IF dispatcher[w].attempt >= HookMaxAttempts THEN "failed" ELSE "pending"

\* FinishWebhookDelivery; an update that matches no row is not an error.
FinishWebhookDelivery(w) ==
    LET me == dispatcher[w] IN
    /\ me.pc = "finish"
    /\ IF StillClaimed(w)
       THEN /\ delivery' = [delivery EXCEPT ![me.id].status = Outcome(w),
                   ![me.id].due = IF Outcome(w) = "pending" THEN FALSE ELSE @]
            /\ recorded' = [recorded EXCEPT ![me.id] =
                   IF me.attempt < @.attempt THEN @
                   ELSE [attempt |-> me.attempt, success |-> me.success]]
       ELSE UNCHANGED <<delivery, recorded>>
    /\ dispatcher' = [dispatcher EXCEPT ![w] = DispatcherIdle]
    /\ UNCHANGED <<hook, firing, fired, hookEdits>>

\* The worker dies before its outcome is written, or the write fails.
OutcomeLost(w) ==
    /\ dispatcher[w].pc # "idle"
    /\ dispatcher' = [dispatcher EXCEPT ![w] = DispatcherIdle]
    /\ UNCHANGED <<hook, delivery, firing, recorded, fired, hookEdits>>

\* next_attempt_at passes: a lease (whose worker may be stalled, not dead) or a
\* backoff.
AttemptDue(i) ==
    /\ delivery[i].status = "pending"
    /\ ~delivery[i].due
    /\ delivery' = [delivery EXCEPT ![i].due = TRUE]
    /\ UNCHANGED <<hook, firing, dispatcher, recorded, fired, hookEdits>>

Dispatch(w) ==
    \/ ClaimWebhookDelivery(w)
    \/ Deliver(w)
    \/ FinishWebhookDelivery(w)
    \/ OutcomeLost(w)

HookNext ==
    \/ ListMatchingWebhooks
    \/ CreateWebhookDelivery
    \/ FireAborted
    \/ \E h \in Hooks : UpdateWebhook(h) \/ DeleteWebhook(h)
    \/ \E i \in DOMAIN delivery : RedeliverWebhookDelivery(i) \/ AttemptDue(i)
    \/ \E w \in Dispatchers : Dispatch(w)

\* The worker loop polls every 15 s whatever happened before, a POST times out,
\* and time passes.
HookFairness ==
    /\ \A w \in Dispatchers : WF_hookVars(Dispatch(w))
    /\ \A i \in 1..MaxDeliveries : WF_hookVars(i \in DOMAIN delivery /\ AttemptDue(i))

HookSpec == HookInit /\ [][HookNext]_hookVars /\ HookFairness

(***************************************************************************)
(* Properties.                                                             *)
(***************************************************************************)

\* The shape of the queue: attempts never pass the budget, and a worker at
\* work holds an attempt that its row has counted.
HookTypeOK ==
    /\ hook \in [Hooks -> {"active", "inactive", "absent"}]
    /\ \A i \in DOMAIN delivery :
          /\ delivery[i].hook \in Hooks
          /\ delivery[i].status \in {"pending", "success", "failed", "gone"}
          /\ delivery[i].attempts \in 0..HookMaxAttempts
          /\ delivery[i].due \in BOOLEAN
    /\ DOMAIN recorded = DOMAIN delivery
    /\ firing \subseteq Hooks
    /\ \A w \in Dispatchers : dispatcher[w].pc # "idle" =>
          /\ dispatcher[w].id \in DOMAIN delivery
          /\ dispatcher[w].attempt \in 1..delivery[dispatcher[w].id].attempts

\* Once the last attempt's outcome is written the row says exactly that, even
\* when a claim's sweep parked the row while the attempt was in flight, and
\* however late a worker with a lapsed lease comes back.
VerdictIsLastAnswer ==
    \A i \in DOMAIN delivery :
        (/\ delivery[i].status # "gone"
         /\ recorded[i].attempt > 0
         /\ recorded[i].attempt = delivery[i].attempts) =>
            /\ (delivery[i].status = "success") = recorded[i].success
            /\ ~recorded[i].success /\ delivery[i].attempts < HookMaxAttempts
                  => delivery[i].status = "pending"

Waiting(i) ==
    /\ delivery[i].status = "pending"
    /\ hook[delivery[i].hook] = "active"

\* Once no more events come, every delivery of an enabled webhook is settled,
\* even when every worker dies before it can write an outcome: the sweep is what
\* ends it.
DeliveriesSettle == <>[](\A i \in DOMAIN delivery : ~Waiting(i))

=============================================================================
