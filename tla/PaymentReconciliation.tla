------------------------ MODULE PaymentReconciliation ------------------------
(***************************************************************************)
(* The reconciliation job next to the webhook handlers: on every tick      *)
(* reconcile_once lists the gateway's recent payments and reconcile_one    *)
(* compares each with its local row and, where they differ, pushes a       *)
(* synthetic event through process_webhook_event.  The job is one more     *)
(* task, so webhook tasks run between any two of its steps.                *)
(***************************************************************************)
EXTENDS PaymentWebhooks, FiniteSets

CONSTANTS
    Reconciler, \* the task of the job
    BatchSize   \* payments the gateway lists in one answer (count)

VARIABLES
    running, \* is a run of reconcile_once in progress?
    listed,  \* what the list call returned and the run has not looked at yet
    old      \* charges made before the lookback window

reconciliation == <<running, listed, old>>
rvars == <<vars, reconciliation>>

\* map_razorpay_payment_status and the event each status is healed with.
LocalStatus == [captured |-> "succeeded", failed |-> "failed", refunded |-> "refunded"]
EventFor    == [captured |-> "payment.captured", failed |-> "payment.failed",
                refunded |-> "refund.created"]

ReconcileId(item) ==
    [type |-> EventFor[item.status], checkout |-> charges[item.charge].checkout,
     charge |-> item.charge, attempt |-> 0]

\* The payments inside the lookback window.
Listable ==
    {[charge |-> ch, status |-> charges[ch].status] :
        ch \in {ch \in Charges \ old : charges[ch].status # "none"}}

\* One page of them and no further one: a full page may leave some out.
list_payments_since ==
    {page \in SUBSET Listable :
        Cardinality(page) = IF Cardinality(Listable) <= BatchSize
                            THEN Cardinality(Listable) ELSE BatchSize}

\* The run's pre-check: a local row, found by the payment's order_id or id,
\* whose status is not the gateway's.  The amount is neither listed nor put
\* into the synthetic payload, so a capture of another amount is not told
\* apart here.
NeedsHealing(item) ==
    LET c == charges[item.charge].checkout
    IN  /\ OrderIdIsCheckoutRef
        /\ payments[c].status \notin {"absent", LocalStatus[item.status]}

StartRun ==
    /\ ~running /\ handlers[Reconciler] = Idle
    /\ running' = TRUE /\ listed' \in list_payments_since
    /\ UNCHANGED <<vars, old>>

reconcile_one ==
    /\ running /\ handlers[Reconciler] = Idle
    /\ \E item \in listed :
         /\ listed' = listed \ {item}
         /\ handlers' = IF NeedsHealing(item)
                        THEN [handlers EXCEPT ![Reconciler] =
                               [id |-> ReconcileId(item),
                                effect |-> NoEffect(charges[item.charge].checkout),
                                stage |-> "accepted"]]
                        ELSE handlers
    /\ UNCHANGED <<store, faults, running, old>>

\* process_webhook_event looks the payment up again.
ReadPayment ==
    /\ handlers[Reconciler] # Idle /\ handlers[Reconciler].stage = "accepted"
    /\ handlers' = [handlers EXCEPT
         ![Reconciler] = [@ EXCEPT !.effect = ResolvePayment(handlers[Reconciler].id),
                                   !.stage = "payment"]]
    /\ UNCHANGED <<store, faults, reconciliation>>

FinishRun ==
    /\ running /\ listed = {} /\ handlers[Reconciler] = Idle
    /\ running' = FALSE
    /\ UNCHANGED <<vars, listed, old>>

\* run_once_with_timeout drops the run where it stands; an open transaction
\* rolls back.
TimeOut ==
    /\ running /\ faults < MaxFaults
    /\ running' = FALSE /\ listed' = {}
    /\ handlers' = [handlers EXCEPT ![Reconciler] = Idle]
    /\ faults' = faults + 1
    /\ UNCHANGED <<store, old>>

\* A charge leaves the lookback window, which counts from its creation.
AgeOut == \E ch \in Charges \ old :
    /\ charges[ch].status # "none"
    /\ old' = old \cup {ch}
    /\ UNCHANGED <<vars, running, listed>>

RInit == Init /\ running = FALSE /\ listed = {} /\ old = {}

RNext ==
    \/ /\ \/ Outside
          \/ \E h \in Handlers : Work(h) \/ Fail(h)
          \/ \E h \in Handlers \ {Reconciler}, id \in Deliverable : Receive(h, id)
       /\ UNCHANGED reconciliation
    \/ StartRun \/ reconcile_one \/ ReadPayment \/ FinishRun \/ TimeOut \/ AgeOut

\* interval.tick() keeps firing and a run in progress keeps going; nothing is
\* assumed of the gateway: webhooks may be delayed or lost.
RFairness ==
    /\ WF_rvars(StartRun) /\ WF_rvars(reconcile_one) /\ WF_rvars(ReadPayment)
    /\ WF_rvars(FinishRun)
    /\ \A h \in Handlers : WF_rvars(Work(h) /\ UNCHANGED reconciliation)

RSpec == RInit /\ [][RNext]_rvars /\ RFairness

-----------------------------------------------------------------------------
RTypeOK ==
    /\ TypeOK
    /\ running \in BOOLEAN
    /\ listed \in SUBSET [charge: Charges, status: {"captured", "failed", "refunded"}]
    /\ old \in SUBSET Charges

\* What reconcile_once is there for, "the pull-based backstop for webhooks
\* that never arrived": a payment the gateway captured in full is activated,
\* or settled otherwise, without any webhook, unless it ages out of the
\* lookback window first.  The code keeps it only if a payment's order_id (or
\* id) is the reference the checkout stored (OrderIdIsCheckoutRef); what it
\* stores is the id of the payment link or of the subscription.
CapturedIsHealed ==
    \A ch \in Charges, c \in Checkouts :
        (/\ charges[ch].status = "captured" /\ charges[ch].checkout = c
         /\ charges[ch].amount_ok)
            ~> \/ payments[c].status \in {"succeeded", "refunded", "disputed"}
               \/ charges[ch].status = "refunded"
               \/ ch \in old

=============================================================================
