---------------------------- MODULE AIGeneration ----------------------------
(***************************************************************************)
(* One AI sticker generation, the job of a (user, requestId) pair          *)
(* (app/ai/service.py, app/ai/firestore_store.py).                         *)
(*                                                                         *)
(* Its state is spread over three stores that share no transaction: the    *)
(* generation document, the shard ledger (the debit and the refund of the  *)
(* job, each under a key of its own) and the bucket that holds the image.  *)
(* A worker is a request being served; it may be slow enough to outlive its*)
(* lease, and it may end anywhere, because the process dies or because a   *)
(* call fails and the exception leaves the handler.  Requests for the same *)
(* job (a retry, a status poll, the sweep at app start) recover it: past   *)
(* the grace period one of them steals the lease and decides by looking    *)
(* into the bucket.                                                        *)
(***************************************************************************)
EXTENDS Naturals, FiniteSets

CONSTANTS
    Workers,        \* requests being served at the same time
    None,           \* no lease
    MaxFaults       \* crashes, failed calls and outlived leases in one behaviour

ASSUME WorkersAssumption ==
    /\ None \notin Workers
    /\ MaxFaults \in Nat

VARIABLES
    doc,        \* the generation document
    ledger,     \* the job's entries in the shard ledger
    object,     \* TRUE iff the image is in the bucket
    work,       \* worker -> what it is doing
    calls,      \* calls of the image provider
    faults      \* faults so far

vars == <<doc, ledger, object, work, calls, faults>>

Statuses == {"none", "pending", "succeeded", "failed", "refunded"}

Terminal == {"succeeded", "refunded"}

(***************************************************************************)
(* A lease is a version token.  A worker holds at most one, so the token is*)
(* the worker that got it; comparing leases is comparing holders.  Of the  *)
(* clock only two facts matter: the lease has expired, and the job is past *)
(* RECOVERY_GRACE.                                                         *)
(***************************************************************************)
Document == [status: Statuses, lease: Workers \cup {None}, expired: BOOLEAN, grace: BOOLEAN]

\* What a worker works for: its own new job, a job it recovers, or a request that holds
\* no lease.
Roles == {"run", "reconcile", "resume"}

Idle == [pc |-> "idle", role |-> "resume", target |-> "none"]

At(pc, role) == [pc |-> pc, role |-> role, target |-> "none"]

Finishing(role, target) == [pc |-> "finish", role |-> role, target |-> target]

Becomes(w, state) == work' = [work EXCEPT ![w] = state]

\* Nothing leaves a terminal status, and a failed job can only be refunded.
can_transition(current, target) ==
    \/ current = "pending" /\ target # "pending"
    \/ current = "failed" /\ target = "refunded"

is_lease_expired(d) == d.status = "pending" /\ (d.lease = None \/ d.expired)

is_recoverable(d) == d.status = "pending" /\ d.grace

----------------------------------------------------------------------------
Init ==
    /\ doc = [status |-> "none", lease |-> None, expired |-> FALSE, grace |-> FALSE]
    /\ ledger = {}
    /\ object = FALSE
    /\ work = [w \in Workers |-> Idle]
    /\ calls = 0
    /\ faults = 0

\* Fault: a job is created without looking whether it exists.
create_pending_blindly(w) ==
    /\ work[w].pc = "idle"
    /\ doc' = [status |-> "pending", lease |-> w, expired |-> FALSE, grace |-> FALSE]
    /\ Becomes(w, At("debit", "run"))
    /\ UNCHANGED <<ledger, object, calls, faults>>

\* The first request for the job creates the document with its lease; only the one that
\* creates it goes on to debit.
create_pending(w) ==
    /\ work[w].pc = "idle"
    /\ doc.status = "none"
    /\ doc' = [status |-> "pending", lease |-> w, expired |-> FALSE, grace |-> FALSE]
    /\ Becomes(w, At("debit", "run"))
    /\ UNCHANGED <<ledger, object, calls, faults>>

\* The price is debited under the generation's id.
debit(w) ==
    /\ work[w].pc = "debit"
    /\ ledger' = ledger \cup {"debit"}
    /\ Becomes(w, At("provider", "run"))
    /\ UNCHANGED <<doc, object, calls, faults>>

\* InsufficientShards: nothing was debited, the job is closed.
insufficient(w) ==
    /\ work[w].pc = "debit"
    /\ Becomes(w, Finishing("run", "refunded"))
    /\ UNCHANGED <<doc, ledger, object, calls, faults>>

\* The provider makes the image or refuses.
provider_generate(w) ==
    /\ work[w].pc = "provider"
    /\ calls' = calls + 1
    /\ \E next \in {"put", "refund"} : Becomes(w, At(next, "run"))
    /\ UNCHANGED <<doc, ledger, object, faults>>

\* The image is stored before the status says so.
put(w) ==
    /\ work[w].pc = "put"
    /\ object' = TRUE
    /\ Becomes(w, Finishing("run", "succeeded"))
    /\ UNCHANGED <<doc, ledger, calls, faults>>

\* The upload raises, whether or not the object got there.
put_fails(w) ==
    /\ work[w].pc = "put"
    /\ faults < MaxFaults
    /\ faults' = faults + 1
    /\ object' \in {object, TRUE}
    /\ Becomes(w, At("refund", "run"))
    /\ UNCHANGED <<doc, ledger, calls>>

\* Fault: a job whose refund failed is closed like one that was refunded.
refund_always_closed(w) ==
    /\ work[w].pc = "refund"
    /\ ledger' \in {ledger, ledger \cup {"refund"}}
    /\ Becomes(w, Finishing(work[w].role, "refunded"))
    /\ UNCHANGED <<doc, object, calls, faults>>

\* _fail and _retry_refund give the price back first.
refund(w) ==
    /\ work[w].pc = "refund"
    /\ ledger' = ledger \cup {"refund"}
    /\ Becomes(w, Finishing(work[w].role, "refunded"))
    /\ UNCHANGED <<doc, object, calls, faults>>

\* The credit raises, whether or not it landed: the job becomes failed, or stays so.
refund_fails(w) ==
    /\ work[w].pc = "refund"
    /\ faults < MaxFaults
    /\ faults' = faults + 1
    /\ ledger' \in {ledger, ledger \cup {"refund"}}
    /\ Becomes(w, IF work[w].role = "resume" THEN Idle ELSE Finishing(work[w].role, "failed"))
    /\ UNCHANGED <<doc, object, calls>>

\* The lease a finish expects: its own, or none for the retry of a refund.
ExpectedLease(w) == IF work[w].role = "resume" THEN None ELSE w

Wins(w) == can_transition(doc.status, work[w].target) /\ doc.lease = ExpectedLease(w)

\* What a worker does once its finish returned.
AfterFinish(w) ==
    CASE work[w].role = "run" /\ work[w].target = "succeeded" /\ ~Wins(w) -> At("abandon", "run")
      [] work[w].role = "reconcile" /\ work[w].target # "succeeded" /\ ~Wins(w) ->
           At("reread", "reconcile")
      [] work[w].role = "reconcile" /\ work[w].target = "refunded" /\ Wins(w) ->
           At("delete", "reconcile")
      [] OTHER -> Idle

\* The compare-and-set that settles the job.
finish(w) ==
    /\ work[w].pc = "finish"
    /\ doc' = IF Wins(w)
              THEN [doc EXCEPT !.status = work[w].target, !.lease = None, !.expired = FALSE]
              ELSE doc
    /\ Becomes(w, AfterFinish(w))
    /\ UNCHANGED <<ledger, object, calls, faults>>

\* _abandon: a late worker looks whether the job stands on the object it stored.
abandon(w) ==
    /\ work[w].pc = "abandon"
    /\ Becomes(w, IF doc.status = "succeeded" THEN Idle ELSE At("delete", "run"))
    /\ UNCHANGED <<doc, ledger, object, calls, faults>>

\* A recovery that lost its finish sweeps only if the job was refunded all the same.
reread(w) ==
    /\ work[w].pc = "reread"
    /\ Becomes(w, IF doc.status = "refunded" THEN At("delete", "reconcile") ELSE Idle)
    /\ UNCHANGED <<doc, ledger, object, calls, faults>>

\* The orphan is deleted.
delete(w) ==
    /\ work[w].pc = "delete"
    /\ object' = FALSE
    /\ Becomes(w, Idle)
    /\ UNCHANGED <<doc, ledger, calls, faults>>

\* Fault: only pending jobs are taken up again.
resume_pending_only(w) ==
    /\ work[w].pc = "idle"
    /\ is_recoverable(doc)
    /\ Becomes(w, At("steal", "resume"))
    /\ UNCHANGED <<doc, ledger, object, calls, faults>>

\* A request finds the job: a failed one is refunded, one past its grace is reconciled,
\* any other is answered as it is.
resume(w) ==
    /\ work[w].pc = "idle"
    /\ \/ doc.status = "failed" /\ Becomes(w, At("refund", "resume"))
       \/ is_recoverable(doc) /\ Becomes(w, At("steal", "resume"))
    /\ UNCHANGED <<doc, ledger, object, calls, faults>>

\* Fault: a job without a lease is taken for abandoned, whatever its status.
steal_any_expired(w) ==
    /\ work[w].pc = "steal"
    /\ \/ /\ doc.lease = None \/ doc.expired
          /\ doc' = [doc EXCEPT !.status = "pending", !.lease = w, !.expired = FALSE]
          /\ Becomes(w, At("exists", "reconcile"))
       \/ /\ doc.lease # None /\ ~doc.expired
          /\ Becomes(w, Idle)
          /\ UNCHANGED doc
    /\ UNCHANGED <<ledger, object, calls, faults>>

\* reconcile takes over an expired lease; if there is none to take it only answers.
steal_expired(w) ==
    /\ work[w].pc = "steal"
    /\ \/ /\ is_lease_expired(doc)
          /\ doc' = [doc EXCEPT !.lease = w, !.expired = FALSE]
          /\ Becomes(w, At("exists", "reconcile"))
       \/ /\ ~is_lease_expired(doc)
          /\ Becomes(w, Idle)
          /\ UNCHANGED doc
    /\ UNCHANGED <<ledger, object, calls, faults>>

\* The recovery looks into the bucket: an image means success, none means a refund.
exists(w) ==
    /\ work[w].pc = "exists"
    /\ Becomes(w, IF object THEN Finishing("reconcile", "succeeded")
                            ELSE At("refund", "reconcile"))
    /\ UNCHANGED <<doc, ledger, object, calls, faults>>

\* The worker ends: its process dies, or a call that is not caught raises.
crash(w) ==
    /\ work[w].pc # "idle"
    /\ faults < MaxFaults
    /\ faults' = faults + 1
    /\ Becomes(w, Idle)
    /\ UNCHANGED <<doc, ledger, object, calls>>

\* The debit landed but its answer was lost: the exception ends the request.
debit_unanswered(w) ==
    /\ work[w].pc = "debit"
    /\ faults < MaxFaults
    /\ faults' = faults + 1
    /\ ledger' = ledger \cup {"debit"}
    /\ Becomes(w, Idle)
    /\ UNCHANGED <<doc, object, calls>>

----------------------------------------------------------------------------
(***************************************************************************)
(* Time                                                                    *)
(***************************************************************************)

\* The worker that holds the lease is still serving the request it got it for.
HolderAlive == doc.lease # None /\ work[doc.lease].role # "resume"

\* The lease of a worker that is gone runs out.
lease_expires ==
    /\ doc.status = "pending"
    /\ ~doc.expired
    /\ ~HolderAlive
    /\ doc' = [doc EXCEPT !.expired = TRUE]
    /\ UNCHANGED <<ledger, object, work, calls, faults>>

\* A worker outlives its lease: Cloud Run's timeout does not stop the code.
lease_outlived ==
    /\ doc.status = "pending"
    /\ ~doc.expired
    /\ HolderAlive
    /\ faults < MaxFaults
    /\ faults' = faults + 1
    /\ doc' = [doc EXCEPT !.expired = TRUE]
    /\ UNCHANGED <<ledger, object, work, calls>>

\* RECOVERY_GRACE after the creation; the first lease, which is shorter, has expired.
grace_passes ==
    /\ doc.status = "pending"
    /\ doc.expired
    /\ ~doc.grace
    /\ doc' = [doc EXCEPT !.grace = TRUE]
    /\ UNCHANGED <<ledger, object, work, calls, faults>>

\* The steps of a request that is being served and meets no fault.
Serve(w) ==
    \/ debit(w)
    \/ insufficient(w)
    \/ provider_generate(w)
    \/ put(w)
    \/ refund(w)
    \/ finish(w)
    \/ abandon(w)
    \/ reread(w)
    \/ delete(w)
    \/ steal_expired(w)
    \/ exists(w)

Fault(w) == crash(w) \/ debit_unanswered(w) \/ put_fails(w) \/ refund_fails(w)

Next ==
    \/ \E w \in Workers : create_pending(w) \/ resume(w) \/ Serve(w) \/ Fault(w)
    \/ lease_expires
    \/ lease_outlived
    \/ grace_passes

(***************************************************************************)
(* Requests that are being served go on (every call returns: the provider's*)
(* has a timeout), time passes, and the user comes back: nothing else      *)
(* settles a job whose worker is gone, as app/ai/service.py says.          *)
(***************************************************************************)
Fairness ==
    /\ \A w \in Workers : WF_vars(Serve(w))
    /\ WF_vars(\E w \in Workers : resume(w))
    /\ WF_vars(lease_expires)
    /\ WF_vars(grace_passes)

Spec == Init /\ [][Next]_vars /\ Fairness

----------------------------------------------------------------------------
(***************************************************************************)
(* Properties                                                              *)
(***************************************************************************)

\* Type invariant: among others, only a pending job has a lease or a time-out.
TypeOK ==
    /\ doc \in Document
    /\ doc.status # "pending" => doc.lease = None /\ ~doc.expired
    /\ ledger \subseteq {"debit", "refund"}
    /\ object \in BOOLEAN
    /\ work \in [Workers -> [pc: {"idle", "debit", "provider", "put", "refund", "finish", "abandon",
                                  "reread", "delete", "steal", "exists"},
                             role: Roles, target: Statuses]]
    /\ calls \in Nat
    /\ faults \in 0..MaxFaults

\* A settled job stays settled, whatever a late worker, a recovery or a retry does: the
\* two gates of finish and the status test of steal_expired hold together.
TerminalStays ==
    [][/\ doc.status \in Terminal => doc'.status = doc.status
       /\ doc.status = "failed" => doc'.status \in {"failed", "refunded"}
       /\ doc.status = "pending" => doc'.status # "none"]_vars

\* However it was settled, by the worker or by a recovery, the document agrees with the
\* ledger: a job that counts as done was paid for, and a user whose job was closed as
\* refunded has the price back, if it was ever taken.
SettledAsPaid ==
    /\ doc.status = "succeeded" => "debit" \in ledger
    /\ doc.status = "refunded" /\ "debit" \in ledger => "refund" \in ledger

\* However many requests name the job, the provider is called once: a retry never makes,
\* and never costs, a second image.
ProviderCalledOnce == calls <= 1

\* Every job is settled in the end: no shard stays tied up in a pending or failed job of
\* a user who comes back.
Settles == doc.status # "none" ~> doc.status \in Terminal

(***************************************************************************)
(* What the comments of the code say beyond that, and the code does not do.*)
(***************************************************************************)

\* app/ai/service.py 222-224: whoever paid for a job that succeeded can fetch the image.
SucceededHasImage == doc.status = "succeeded" => object

=============================================================================
