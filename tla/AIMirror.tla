------------------------------ MODULE AIMirror ------------------------------
(***************************************************************************)
(* One AI mirror, the operation of a (user, requestId) pair                *)
(* (app/ai/mirror.py).                                                     *)
(*                                                                         *)
(* Nothing is kept of it but the ledger's two entries, each under a key of *)
(* the operation: there is no document, no lease and no image in a bucket. *)
(* A request that dies after the debit leaves nobody who would refund it;  *)
(* the user who has not got the image sends the requestId again, perhaps   *)
(* while the first request is still being served.                          *)
(***************************************************************************)
EXTENDS Naturals, FiniteSets

CONSTANTS
    Workers,        \* requests being served at the same time
    MaxFaults       \* bound: crashes, failed calls and lost answers

ASSUME MirrorAssumption == MaxFaults \in Nat

VARIABLES
    ledger,     \* the operation's entries in the shard ledger
    work,       \* worker -> what it does next
    image,      \* TRUE iff the user has got an image
    unpaid,     \* TRUE iff an image was made when the price had been given back
    faults

vars == <<ledger, work, image, unpaid, faults>>

TypeOK ==
    /\ ledger \subseteq {"debit", "refund"}
    /\ work \in [Workers -> {"idle", "debit", "provider", "refund", "answer"}]
    /\ image \in BOOLEAN /\ unpaid \in BOOLEAN
    /\ faults \in 0..MaxFaults

Init ==
    /\ ledger = {}
    /\ work = [w \in Workers |-> "idle"]
    /\ image = FALSE /\ unpaid = FALSE
    /\ faults = 0

Becomes(w, step) == work' = [work EXCEPT ![w] = step]

\* Fault: an operation that was begun is not begun again.
generate_once(w) ==
    /\ work[w] = "idle" /\ ~image
    /\ "debit" \notin ledger
    /\ Becomes(w, "debit")
    /\ UNCHANGED <<ledger, image, unpaid, faults>>

\* POST /ai/mirrors/generate, again and again with one requestId until there is an image.
generate(w) ==
    /\ work[w] = "idle" /\ ~image
    /\ Becomes(w, "debit")
    /\ UNCHANGED <<ledger, image, unpaid, faults>>

\* The price, taken once however often the operation is tried.
_debit(w) ==
    /\ work[w] = "debit"
    /\ ledger' = ledger \cup {"debit"}
    /\ Becomes(w, "provider")
    /\ UNCHANGED <<image, unpaid, faults>>

\* InsufficientShards, before anything else happens.
insufficient(w) ==
    /\ work[w] = "debit"
    /\ "debit" \notin ledger
    /\ Becomes(w, "idle")
    /\ UNCHANGED <<ledger, image, unpaid, faults>>

\* The provider makes an image or raises.
provider_generate(w) ==
    /\ work[w] = "provider"
    /\ \/ /\ Becomes(w, "answer")
          /\ unpaid' = (unpaid \/ "refund" \in ledger)
       \/ /\ Becomes(w, "refund")
          /\ UNCHANGED unpaid
    /\ UNCHANGED <<ledger, image, faults>>

\* The price, given back once however often it is tried.
_refund(w) ==
    /\ work[w] = "refund"
    /\ ledger' = ledger \cup {"refund"}
    /\ Becomes(w, "idle")
    /\ UNCHANGED <<image, unpaid, faults>>

answer(w) ==
    /\ work[w] = "answer"
    /\ image' = TRUE
    /\ Becomes(w, "idle")
    /\ UNCHANGED <<ledger, unpaid, faults>>

(***************************************************************************)
(* A call of the ledger fails, whether or not it landed: a debit's failure *)
(* leaves the handler and a refund's is only logged.  Or the answer is     *)
(* lost, or the process is gone.                                           *)
(***************************************************************************)
fails(w) ==
    /\ work[w] # "idle"
    /\ faults < MaxFaults /\ faults' = faults + 1
    /\ ledger' \in {ledger} \cup (IF work[w] \in {"debit", "refund"}
                                  THEN {ledger \cup {work[w]}} ELSE {})
    /\ Becomes(w, "idle")
    /\ UNCHANGED <<image, unpaid>>

Serve(w) ==
    _debit(w) \/ insufficient(w) \/ provider_generate(w) \/ _refund(w) \/ answer(w)

Next == \E w \in Workers : generate(w) \/ Serve(w) \/ fails(w)

\* Requests that are being served go on, and the user comes back.
Spec ==
    /\ Init /\ [][Next]_vars
    /\ \A w \in Workers : WF_vars(Serve(w))
    /\ WF_vars(\E w \in Workers : generate(w))

----------------------------------------------------------------------------
(***************************************************************************)
(* Properties                                                              *)
(***************************************************************************)

\* A user who was debited has, in the end, the image or the price back, whatever died in
\* between: the requestId sent again is served on the same debit and, when the provider
\* fails again, refunded under the same key.
ServedOrRepaid == "debit" \in ledger ~> image \/ "refund" \in ledger

\* mirror.py has every image paid, a retry by the debit of the first request.  It is not
\* so once that debit was refunded.
ImagesArePaid == ~unpaid

=============================================================================
