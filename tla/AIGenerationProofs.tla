------------------------- MODULE AIGenerationProofs -------------------------
(***************************************************************************)
(* What AIGeneration guarantees for any number of requests and of faults.  *)
(*                                                                         *)
(* The promises are about three stores that share no transaction, so what  *)
(* makes them hold is where the workers still are.  One worker at most     *)
(* runs the job (the one that created the document); only it debits and    *)
(* calls the provider; nobody finishes the job as succeeded unless the     *)
(* debit is in the ledger, and nobody finishes it as refunded unless the   *)
(* refund is, or the debit never will be.  IInv says this of every worker. *)
(***************************************************************************)
EXTENDS AIGeneration, TLAPS

\* Where a worker of each role may be.
Roled ==
    \A w \in Workers :
        /\ work[w].pc \in {"debit", "provider", "put", "abandon"} => work[w].role = "run"
        /\ work[w].pc \in {"exists", "reread"} => work[w].role = "reconcile"
        /\ work[w].pc \in {"idle", "steal"} => work[w].role = "resume"
        /\ work[w].pc = "finish" => work[w].target \in {"succeeded", "failed", "refunded"}

\* The job has at most one runner, and none before the document exists.
OneRunner ==
    /\ \A v, w \in Workers : work[v].role = "run" /\ work[w].role = "run" => v = w
    /\ doc.status = "none" => \A w \in Workers : work[w].pc = "idle"

\* The provider is called by the runner, once.
OneCall ==
    /\ calls <= 1
    /\ doc.status = "none" => calls = 0
    /\ \A w \in Workers : work[w].pc \in {"debit", "provider"} => calls = 0

\* The debit is made by the runner, before the image.
DebitFirst ==
    /\ doc.status = "none" => "debit" \notin ledger
    /\ \A w \in Workers :
          /\ work[w].pc = "debit" => "debit" \notin ledger
          /\ work[w].pc \in {"provider", "put"} => "debit" \in ledger
          /\ work[w].pc = "finish" /\ work[w].target = "succeeded" => "debit" \in ledger
    /\ object => "debit" \in ledger
    /\ doc.status = "succeeded" => "debit" \in ledger

\* The price is back, or was never taken and never will be.
Squared ==
    \/ "refund" \in ledger
    \/ "debit" \notin ledger /\ \A w \in Workers : work[w].pc # "debit"

SquaredFirst ==
    /\ \A w \in Workers : work[w].pc = "finish" /\ work[w].target = "refunded" => Squared
    /\ doc.status = "refunded" => Squared

IInv ==
    /\ TypeOK
    /\ Roled
    /\ OneRunner
    /\ OneCall
    /\ DebitFirst
    /\ SquaredFirst

----------------------------------------------------------------------------
States == [pc: {"idle", "debit", "provider", "put", "refund", "finish", "abandon",
                "reread", "delete", "steal", "exists"},
           role: Roles, target: Statuses]

\* No worker serves and nothing is stored.
LEMMA InitIInv == Init => IInv
<1> SUFFICES ASSUME Init PROVE IInv
  OBVIOUS
<1>1. \A w \in Workers : work[w] = Idle
  BY DEF Init
<1>2. doc.status = "none" /\ ledger = {} /\ object = FALSE /\ calls = 0 /\ faults = 0
  BY DEF Init
<1>3. TypeOK
  <2>1. work \in [Workers -> States]
    BY DEF Init, States, Idle, Roles, Statuses
  <2>2. doc \in Document /\ doc.lease = None /\ ~doc.expired
    BY DEF Init, Document, Statuses
  <2>3. faults \in 0..MaxFaults
    BY <1>2, WorkersAssumption
  <2> QED
    BY <1>2, <2>1, <2>2, <2>3 DEF TypeOK, States
<1>4. Roled /\ OneRunner
  BY <1>1 DEF Roled, OneRunner, Idle
<1>5. OneCall /\ DebitFirst /\ SquaredFirst
  BY <1>1, <1>2 DEF OneCall, DebitFirst, SquaredFirst, Idle
<1> QED
  BY <1>3, <1>4, <1>5 DEF IInv

\* A step of one worker changes that worker's state and no other's.
LEMMA BecomesFacts ==
    ASSUME TypeOK, NEW w \in Workers, NEW state \in States, Becomes(w, state)
    PROVE  /\ work' \in [Workers -> States]
           /\ work'[w] = state
           /\ \A v \in Workers : v # w => work'[v] = work[v]
  BY DEF TypeOK, Becomes, States

\* A fault is counted within its bound.
LEMMA FaultCounted ==
    ASSUME TypeOK, faults < MaxFaults, faults' = faults + 1
    PROVE  faults' \in 0..MaxFaults
  BY WorkersAssumption DEF TypeOK

\* What a worker may do next is a state of a worker.
LEMMA NextStates ==
    /\ Idle \in States
    /\ \A role \in Roles :
          /\ At("debit", role) \in States
          /\ At("provider", role) \in States
          /\ At("put", role) \in States
          /\ At("refund", role) \in States
          /\ At("abandon", role) \in States
          /\ At("reread", role) \in States
          /\ At("delete", role) \in States
          /\ At("steal", role) \in States
          /\ At("exists", role) \in States
          /\ \A target \in Statuses : Finishing(role, target) \in States
  BY DEF Idle, At, Finishing, States, Roles, Statuses

\* The worker a finish leaves behind: done, or looking after the object.
LEMMA AfterFinishIs ==
    ASSUME TypeOK, NEW w \in Workers
    PROVE  /\ AfterFinish(w) \in {Idle, At("abandon", "run"), At("reread", "reconcile"),
                                  At("delete", "reconcile")}
           /\ AfterFinish(w) = At("abandon", "run") => work[w].role = "run"
           /\ AfterFinish(w) \in States
<1>1. /\ AfterFinish(w) \in {Idle, At("abandon", "run"), At("reread", "reconcile"),
                             At("delete", "reconcile")}
      /\ AfterFinish(w) = At("abandon", "run") => work[w].role = "run"
  BY DEF AfterFinish, Idle, At
<1>2. /\ Idle \in States /\ At("abandon", "run") \in States
      /\ At("reread", "reconcile") \in States /\ At("delete", "reconcile") \in States
  BY NextStates DEF Roles
<1> QED
  BY <1>1, <1>2

----------------------------------------------------------------------------
(***************************************************************************)
(* One lemma per action: the step keeps every part of IInv.                *)
(***************************************************************************)

\* The worker that creates the document is the one runner.
LEMMA CreatePendingIInv ==
    ASSUME IInv, NEW w \in Workers, create_pending(w)
    PROVE  IInv'
  BY DEF IInv, TypeOK, Document, Statuses, Roles, create_pending, Becomes, At, Roled,
         OneRunner, OneCall, DebitFirst, SquaredFirst, Squared

\* Only the runner debits, so the debit is in the ledger before any image.
LEMMA DebitIInv ==
    ASSUME IInv, NEW w \in Workers, debit(w)
    PROVE  IInv'
  BY DEF IInv, TypeOK, Document, Statuses, Roles, debit, Becomes, At, Roled,
         OneRunner, OneCall, DebitFirst, SquaredFirst, Squared

\* A refused debit is not in the ledger and, with one runner, never will be.
LEMMA InsufficientIInv ==
    ASSUME IInv, NEW w \in Workers, insufficient(w)
    PROVE  IInv'
  BY DEF IInv, TypeOK, Document, Statuses, Roles, insufficient, Becomes, Finishing, Roled,
         OneRunner, OneCall, DebitFirst, SquaredFirst, Squared

\* The runner has not called the provider before.
LEMMA ProviderGenerateIInv ==
    ASSUME IInv, NEW w \in Workers, provider_generate(w)
    PROVE  IInv'
  BY DEF IInv, TypeOK, Document, Statuses, Roles, provider_generate, Becomes, At, Roled,
         OneRunner, OneCall, DebitFirst, SquaredFirst, Squared

\* The image is stored by the runner, after its debit.
LEMMA PutIInv ==
    ASSUME IInv, NEW w \in Workers, put(w)
    PROVE  IInv'
  BY DEF IInv, TypeOK, Document, Statuses, Roles, put, Becomes, Finishing, Roled,
         OneRunner, OneCall, DebitFirst, SquaredFirst, Squared

\* A job is closed as refunded after the refund is in the ledger.
LEMMA RefundIInv ==
    ASSUME IInv, NEW w \in Workers, refund(w)
    PROVE  IInv'
  BY DEF IInv, TypeOK, Document, Statuses, Roles, refund, Becomes, Finishing, Roled,
         OneRunner, OneCall, DebitFirst, SquaredFirst, Squared

\* A late runner only looks.
LEMMA AbandonIInv ==
    ASSUME IInv, NEW w \in Workers, abandon(w)
    PROVE  IInv'
  BY DEF IInv, TypeOK, Document, Statuses, Roles, abandon, Becomes, At, Idle, Roled,
         OneRunner, OneCall, DebitFirst, SquaredFirst, Squared

\* A recovery that lost only looks.
LEMMA RereadIInv ==
    ASSUME IInv, NEW w \in Workers, reread(w)
    PROVE  IInv'
  BY DEF IInv, TypeOK, Document, Statuses, Roles, reread, Becomes, At, Idle, Roled,
         OneRunner, OneCall, DebitFirst, SquaredFirst, Squared

\* A request that finds the job takes no part in running it.
LEMMA ResumeIInv ==
    ASSUME IInv, NEW w \in Workers, resume(w)
    PROVE  IInv'
  BY DEF IInv, TypeOK, Document, Statuses, Roles, resume, Becomes, At, is_recoverable, Roled,
         OneRunner, OneCall, DebitFirst, SquaredFirst, Squared

\* A recovery that finds the image finds a job that was paid for.
LEMMA ExistsIInv ==
    ASSUME IInv, NEW w \in Workers, exists(w)
    PROVE  IInv'
  BY DEF IInv, TypeOK, Document, Statuses, Roles, exists, Becomes, At, Finishing, Roled,
         OneRunner, OneCall, DebitFirst, SquaredFirst, Squared

\* An upload that raised may have stored the image, of a job that was paid for.
LEMMA PutFailsIInv ==
    ASSUME IInv, NEW w \in Workers, put_fails(w)
    PROVE  IInv'
<1>1. faults' \in 0..MaxFaults
  BY FaultCounted DEF put_fails, IInv
<1>2. PICK state \in States : Becomes(w, state) /\ state = At("refund", "run")
  BY NextStates DEF put_fails, IInv, TypeOK, Roles, Statuses
<1>3. /\ work' \in [Workers -> States]
      /\ work'[w] = state
      /\ \A v \in Workers : v # w => work'[v] = work[v]
  BY <1>2, BecomesFacts DEF IInv
<1>4. TypeOK'
  BY <1>1, <1>3 DEF put_fails, IInv, TypeOK, States
<1>5. Roled'
  BY <1>2, <1>3 DEF put_fails, IInv, Roled, At
<1>6. OneRunner'
  BY <1>2, <1>3 DEF put_fails, IInv, OneRunner, Roled, At
<1>7. OneCall'
  BY <1>2, <1>3 DEF put_fails, IInv, OneCall, At
<1>8. DebitFirst'
  BY <1>2, <1>3 DEF put_fails, IInv, DebitFirst, OneRunner, Roled, At
<1>9. SquaredFirst'
  BY <1>2, <1>3 DEF put_fails, IInv, SquaredFirst, Squared, OneRunner, Roled, DebitFirst, At
<1> QED
  BY <1>4, <1>5, <1>6, <1>7, <1>8, <1>9 DEF IInv

\* A refund that raised closes nothing as refunded.
LEMMA RefundFailsIInv ==
    ASSUME IInv, NEW w \in Workers, refund_fails(w)
    PROVE  IInv'
<1>1. faults' \in 0..MaxFaults
  BY FaultCounted DEF refund_fails, IInv
<1>2. PICK state \in States :
        Becomes(w, state) /\ state \in {Idle, Finishing(work[w].role, "failed")}
  BY NextStates DEF refund_fails, IInv, TypeOK, Roles, Statuses
<1>3. /\ work' \in [Workers -> States]
      /\ work'[w] = state
      /\ \A v \in Workers : v # w => work'[v] = work[v]
  BY <1>2, BecomesFacts DEF IInv
<1>4. TypeOK'
  BY <1>1, <1>3 DEF refund_fails, IInv, TypeOK, States
<1>5. Roled'
  BY <1>2, <1>3 DEF refund_fails, IInv, Roled, Idle, Finishing
<1>6. OneRunner'
  BY <1>2, <1>3 DEF refund_fails, IInv, OneRunner, Roled, Idle, Finishing
<1>7. OneCall'
  BY <1>2, <1>3 DEF refund_fails, IInv, OneCall, Idle, Finishing
<1>8. DebitFirst'
  BY <1>2, <1>3 DEF refund_fails, IInv, DebitFirst, OneRunner, Roled, Idle, Finishing
<1>9. SquaredFirst'
  BY <1>2, <1>3 DEF refund_fails, IInv, SquaredFirst, Squared, OneRunner, Roled, DebitFirst,
         Idle, Finishing
<1> QED
  BY <1>4, <1>5, <1>6, <1>7, <1>8, <1>9 DEF IInv

\* A worker that ends leaves the stores as they are.
LEMMA CrashIInv ==
    ASSUME IInv, NEW w \in Workers, crash(w)
    PROVE  IInv'
<1>1. faults' \in 0..MaxFaults
  BY FaultCounted DEF crash, IInv
<1>2. PICK state \in States : Becomes(w, state) /\ state = Idle
  BY NextStates DEF crash, IInv, TypeOK, Roles, Statuses
<1>3. /\ work' \in [Workers -> States]
      /\ work'[w] = state
      /\ \A v \in Workers : v # w => work'[v] = work[v]
  BY <1>2, BecomesFacts DEF IInv
<1>4. TypeOK'
  BY <1>1, <1>3 DEF crash, IInv, TypeOK, States
<1>5. Roled'
  BY <1>2, <1>3 DEF crash, IInv, Roled, Idle
<1>6. OneRunner'
  BY <1>2, <1>3 DEF crash, IInv, OneRunner, Roled, Idle
<1>7. OneCall'
  BY <1>2, <1>3 DEF crash, IInv, OneCall, Idle
<1>8. DebitFirst'
  BY <1>2, <1>3 DEF crash, IInv, DebitFirst, OneRunner, Roled, Idle
<1>9. SquaredFirst'
  BY <1>2, <1>3 DEF crash, IInv, SquaredFirst, Squared, OneRunner, Roled, DebitFirst, Idle
<1> QED
  BY <1>4, <1>5, <1>6, <1>7, <1>8, <1>9 DEF IInv

\* A debit without an answer is in the ledger; its worker is gone.
LEMMA DebitUnansweredIInv ==
    ASSUME IInv, NEW w \in Workers, debit_unanswered(w)
    PROVE  IInv'
<1>1. faults' \in 0..MaxFaults
  BY FaultCounted DEF debit_unanswered, IInv
<1>2. PICK state \in States : Becomes(w, state) /\ state = Idle
  BY NextStates DEF debit_unanswered, IInv, TypeOK, Roles, Statuses
<1>3. /\ work' \in [Workers -> States]
      /\ work'[w] = state
      /\ \A v \in Workers : v # w => work'[v] = work[v]
  BY <1>2, BecomesFacts DEF IInv
<1>4. TypeOK'
  BY <1>1, <1>3 DEF debit_unanswered, IInv, TypeOK, States
<1>5. Roled'
  BY <1>2, <1>3 DEF debit_unanswered, IInv, Roled, Idle
<1>6. OneRunner'
  BY <1>2, <1>3 DEF debit_unanswered, IInv, OneRunner, Roled, Idle
<1>7. OneCall'
  BY <1>2, <1>3 DEF debit_unanswered, IInv, OneCall, Idle
<1>8. DebitFirst'
  BY <1>2, <1>3 DEF debit_unanswered, IInv, DebitFirst, OneRunner, Roled, Idle
<1>9. SquaredFirst'
  BY <1>2, <1>3 DEF debit_unanswered, IInv, SquaredFirst, Squared, OneRunner, Roled, DebitFirst,
         Idle
<1> QED
  BY <1>4, <1>5, <1>6, <1>7, <1>8, <1>9 DEF IInv

\* Deleting the image takes nothing that was promised.
LEMMA DeleteIInv ==
    ASSUME IInv, NEW w \in Workers, delete(w)
    PROVE  IInv'
<1>1. PICK state \in States : Becomes(w, state) /\ state = Idle
  BY NextStates DEF delete
<1>2. /\ work' \in [Workers -> States]
      /\ work'[w] = state
      /\ \A v \in Workers : v # w => work'[v] = work[v]
  BY <1>1, BecomesFacts DEF IInv
<1>3. doc' = doc /\ object' = FALSE
  BY DEF delete
<1>4. TypeOK'
  BY <1>2, <1>3 DEF delete, IInv, TypeOK, States
<1>5. Roled'
  BY <1>1, <1>2, <1>3 DEF delete, IInv, Roled, Idle
<1>6. OneRunner'
  BY <1>1, <1>2, <1>3 DEF delete, IInv, OneRunner, Roled, Idle
<1>7. OneCall'
  BY <1>1, <1>2, <1>3 DEF delete, IInv, OneRunner, OneCall, Idle
<1>8. DebitFirst'
  BY <1>1, <1>2, <1>3 DEF delete, IInv, DebitFirst, OneRunner, Roled, Idle
<1>9. SquaredFirst'
  BY <1>1, <1>2, <1>3 DEF delete, IInv, SquaredFirst, Squared, OneRunner, Roled, DebitFirst, Idle
<1> QED
  BY <1>4, <1>5, <1>6, <1>7, <1>8, <1>9 DEF IInv

\* Who wins the finish writes a target that agrees with the ledger.
LEMMA FinishIInv ==
    ASSUME IInv, NEW w \in Workers, finish(w)
    PROVE  IInv'
<1>1. PICK state \in States :
        /\ Becomes(w, state)
        /\ state \in {Idle, At("abandon", "run"), At("reread", "reconcile"),
                      At("delete", "reconcile")}
        /\ state = At("abandon", "run") => work[w].role = "run"
  BY AfterFinishIs DEF finish, IInv
<1>2. /\ work' \in [Workers -> States]
      /\ work'[w] = state
      /\ \A v \in Workers : v # w => work'[v] = work[v]
  BY <1>1, BecomesFacts DEF IInv
<1>3. /\ state.pc \in {"idle", "abandon", "reread", "delete"}
      /\ state.role = "run" => work[w].role = "run"
      /\ state.pc = "abandon" => state.role = "run"
      /\ state.pc = "reread" => state.role = "reconcile"
      /\ state.pc = "idle" => state.role = "resume"
  BY <1>1 DEF Idle, At
<1>4. /\ work[w].pc = "finish"
      /\ UNCHANGED <<ledger, object, calls, faults>>
  BY DEF finish
<1>5. /\ work[w].target \in {"succeeded", "failed", "refunded"}
      /\ doc.status # "none"
  BY <1>4 DEF IInv, Roled, OneRunner
<1>6. /\ doc' \in Document
      /\ doc'.status # "pending" => doc'.lease = None /\ ~doc'.expired
      /\ doc'.status \in {doc.status, work[w].target}
  <2>1. CASE Wins(w)
    BY <1>5, <2>1 DEF finish, IInv, TypeOK, Document, Statuses
  <2>2. CASE ~Wins(w)
    BY <2>2 DEF finish, IInv, TypeOK
  <2> QED
    BY <2>1, <2>2
<1>7. TypeOK'
  BY <1>2, <1>4, <1>6 DEF IInv, TypeOK, States
<1>8. Roled'
  BY <1>2, <1>3 DEF IInv, Roled
<1>9. OneRunner'
  BY <1>2, <1>3, <1>5, <1>6 DEF IInv, OneRunner
<1>10. OneCall'
  BY <1>2, <1>3, <1>4, <1>5, <1>6 DEF IInv, OneCall
<1>11. DebitFirst'
  BY <1>2, <1>3, <1>4, <1>5, <1>6 DEF IInv, DebitFirst
<1>12. SquaredFirst'
  BY <1>2, <1>3, <1>4, <1>5, <1>6 DEF IInv, SquaredFirst, Squared
<1> QED
  BY <1>7, <1>8, <1>9, <1>10, <1>11, <1>12 DEF IInv

\* Taking over the lease leaves the status as it is.
LEMMA StealExpiredIInv ==
    ASSUME IInv, NEW w \in Workers, steal_expired(w)
    PROVE  IInv'
<1>1. PICK state \in States : Becomes(w, state) /\ state \in {Idle, At("exists", "reconcile")}
  BY NextStates DEF steal_expired, Roles
<1>2. /\ work' \in [Workers -> States]
      /\ work'[w] = state
      /\ \A v \in Workers : v # w => work'[v] = work[v]
  BY <1>1, BecomesFacts DEF IInv
<1>3. /\ doc' \in Document
      /\ doc'.status = doc.status
      /\ doc'.status # "pending" => doc'.lease = None /\ ~doc'.expired
  BY DEF steal_expired, is_lease_expired, IInv, TypeOK, Document
<1>4. TypeOK'
  BY <1>2, <1>3 DEF steal_expired, IInv, TypeOK, States
<1>5. Roled'
  BY <1>1, <1>2, <1>3 DEF steal_expired, IInv, Roled, Idle, At
<1>6. OneRunner'
  BY <1>1, <1>2, <1>3 DEF steal_expired, IInv, OneRunner, Roled, Idle, At
<1>7. OneCall'
  BY <1>1, <1>2, <1>3 DEF steal_expired, IInv, OneRunner, OneCall, Idle, At
<1>8. DebitFirst'
  BY <1>1, <1>2, <1>3 DEF steal_expired, IInv, DebitFirst, OneRunner, Roled, Idle, At
<1>9. SquaredFirst'
  BY <1>1, <1>2, <1>3 DEF steal_expired, IInv, SquaredFirst, Squared, OneRunner, Roled, DebitFirst,
         Idle, At
<1> QED
  BY <1>4, <1>5, <1>6, <1>7, <1>8, <1>9 DEF IInv

\* The clock touches the document's lease and nothing else.
LEMMA ClockIInv ==
    ASSUME IInv, lease_expires \/ lease_outlived \/ grace_passes
    PROVE  IInv'
<1>1. /\ doc' \in Document
      /\ doc'.status = doc.status
      /\ doc.status = "pending"
      /\ UNCHANGED <<ledger, object, work, calls>>
  BY DEF lease_expires, lease_outlived, grace_passes, IInv, TypeOK, Document
<1>2. faults' \in 0..MaxFaults
  <2>1. CASE lease_outlived
    BY <2>1, FaultCounted DEF lease_outlived, IInv
  <2>2. CASE lease_expires \/ grace_passes
    BY <2>2 DEF lease_expires, grace_passes, IInv, TypeOK
  <2> QED
    BY <2>1, <2>2
<1>3. TypeOK'
  BY <1>1, <1>2 DEF IInv, TypeOK
<1>4. Roled' /\ OneRunner' /\ OneCall' /\ DebitFirst' /\ SquaredFirst'
  BY <1>1 DEF IInv, Roled, OneRunner, OneCall, DebitFirst, SquaredFirst, Squared
<1> QED
  BY <1>3, <1>4 DEF IInv

\* IInv is inductive.
LEMMA NextIInv == IInv /\ [Next]_vars => IInv'
<1> SUFFICES ASSUME IInv, [Next]_vars PROVE IInv'
  OBVIOUS
<1>1. CASE UNCHANGED vars
  BY <1>1 DEF vars, IInv, TypeOK, Roled, OneRunner, OneCall, DebitFirst, SquaredFirst, Squared
<1>2. ASSUME NEW w \in Workers, create_pending(w) \/ resume(w)
      PROVE  IInv'
  BY <1>2, CreatePendingIInv, ResumeIInv
<1>3. ASSUME NEW w \in Workers, Serve(w)
      PROVE  IInv'
  BY <1>3, DebitIInv, InsufficientIInv, ProviderGenerateIInv, PutIInv, RefundIInv,
     FinishIInv, AbandonIInv, RereadIInv, DeleteIInv, StealExpiredIInv, ExistsIInv
     DEF Serve
<1>4. ASSUME NEW w \in Workers, Fault(w)
      PROVE  IInv'
  BY <1>4, CrashIInv, DebitUnansweredIInv, PutFailsIInv, RefundFailsIInv DEF Fault
<1>5. CASE lease_expires \/ lease_outlived \/ grace_passes
  BY <1>5, ClockIInv
<1> QED
  BY <1>1, <1>2, <1>3, <1>4, <1>5 DEF Next

\* So it always holds.
LEMMA SpecIInv == Spec => []IInv
<1> QED
  BY InitIInv, NextIInv, PTL DEF Spec

----------------------------------------------------------------------------
(***************************************************************************)
(* The theorems                                                            *)
(***************************************************************************)

\* Type correctness: in particular only a pending job has a lease or a time-out, so a
\* settled one is never taken for an abandoned one.
THEOREM SpecTypeOK == Spec => []TypeOK
<1>1. IInv => TypeOK
  BY DEF IInv
<1> QED
  BY <1>1, SpecIInv, PTL

\* However many workers, recoveries and retries meet over the three stores: a job that
\* succeeded was paid for, and one that was closed as refunded has the price back.
THEOREM SpecSettledAsPaid == Spec => []SettledAsPaid
<1>1. IInv => SettledAsPaid
  BY DEF IInv, DebitFirst, SquaredFirst, Squared, SettledAsPaid
<1> QED
  BY <1>1, SpecIInv, PTL

\* The provider is called once for a job, whatever retries and recoveries it meets.
THEOREM SpecProviderCalledOnce == Spec => []ProviderCalledOnce
<1>1. IInv => ProviderCalledOnce
  BY DEF IInv, OneCall, ProviderCalledOnce
<1> QED
  BY <1>1, SpecIInv, PTL

\* What the gate of every step that writes the document leaves it: a settled job stays
\* settled, a failed one can only be refunded, and none is forgotten.
LEMMA StatusGated ==
    ASSUME IInv, [Next]_vars
    PROVE  /\ doc.status \in Terminal => doc'.status = doc.status
           /\ doc.status = "failed" => doc'.status \in {"failed", "refunded"}
           /\ doc.status = "pending" => doc'.status # "none"
<1>1. CASE doc' = doc
  BY <1>1 DEF Terminal
<1>2. ASSUME NEW w \in Workers, create_pending(w)
      PROVE  doc.status = "none" /\ doc'.status = "pending"
  BY <1>2 DEF create_pending
<1>3. ASSUME NEW w \in Workers, steal_expired(w)
      PROVE  doc'.status = doc.status
  BY <1>3 DEF steal_expired, IInv, TypeOK, Document
<1>4. ASSUME NEW w \in Workers, finish(w)
      PROVE  \/ doc' = doc
             \/ can_transition(doc.status, work[w].target) /\ doc'.status = work[w].target
  BY <1>4 DEF finish, Wins, IInv, TypeOK, Document
<1>5. ASSUME NEW w \in Workers, finish(w)
      PROVE  work[w].target \in {"succeeded", "failed", "refunded"}
  BY <1>5 DEF finish, IInv, Roled
<1>6. CASE lease_expires \/ lease_outlived \/ grace_passes
  BY <1>6 DEF lease_expires, lease_outlived, grace_passes, IInv, TypeOK, Document, Terminal
<1>7. \/ doc' = doc
      \/ \E w \in Workers : create_pending(w) \/ steal_expired(w) \/ finish(w)
      \/ lease_expires \/ lease_outlived \/ grace_passes
  BY DEF Next, vars, Serve, Fault, resume, debit, insufficient, provider_generate, put,
         refund, abandon, reread, delete, exists, crash, debit_unanswered, put_fails,
         refund_fails
<1> QED
  BY <1>1, <1>2, <1>3, <1>4, <1>5, <1>6, <1>7 DEF can_transition, Terminal

\* A settled job stays settled, whatever a late worker, a recovery or a retry does.
THEOREM SpecTerminalStays == Spec => TerminalStays
<1>1. IInv /\ [Next]_vars =>
        [/\ doc.status \in Terminal => doc'.status = doc.status
         /\ doc.status = "failed" => doc'.status \in {"failed", "refunded"}
         /\ doc.status = "pending" => doc'.status # "none"]_vars
  BY StatusGated
<1> QED
  BY <1>1, SpecIInv, PTL DEF Spec, TerminalStays

=============================================================================
