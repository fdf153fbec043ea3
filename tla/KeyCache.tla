------------------------------ MODULE KeyCache ------------------------------
(***************************************************************************)
(* The public keys of a signer, copied into the memory of one process      *)
(* (AppleJWKSProvider in app/auth/jwks.py; AdMobKeyProvider in             *)
(* app/ads/verifier.py is the same machine with a longer life of the copy).*)
(*                                                                         *)
(* Handlers run in the threads of a pool, and nothing locks the cache: a   *)
(* thread that fetches is away while others look keys up, and of two       *)
(* answers on their way the older one may be stored last.  Time is kept as *)
(* the age of each moment the code remembers, up to the age at which it    *)
(* stops to matter; a moment that never came is as old as that.            *)
(***************************************************************************)
EXTENDS Integers

CONSTANTS
    KeyIds,         \* key ids the signer may ever publish, as 1..n in order of publication
    Threads,        \* threads that may look a key up at the same time
    TTL,            \* ttl_seconds
    MIN_REFRESH     \* min_refresh_interval

VARIABLES
    published,      \* the keys the signer publishes now
    keys,           \* the copy
    loadedAge, attemptedAge, rotationAge,
                    \* since the copy was made, a fetch was tried, a rotation looked for
    lookups         \* thread -> [at, key, response]

cacheVars == <<published, keys, loadedAge, attemptedAge, rotationAge, lookups>>

Places == {"idle", "refreshing", "refreshed", "look",
           "checking", "checked", "look again", "found", "UNKNOWN_KEY_ID", "KEYS_UNAVAILABLE"}

Idle == [at |-> "idle", key |-> 0, response |-> {}]

CacheTypeOK ==
    /\ published \subseteq KeyIds
    /\ keys \subseteq KeyIds
    /\ loadedAge \in 0..TTL /\ attemptedAge \in 0..MIN_REFRESH /\ rotationAge \in 0..MIN_REFRESH
    /\ lookups \in [Threads -> [at: Places, key: KeyIds \cup {0}, response: SUBSET KeyIds]]

\* A process that has just started.
Empty ==
    /\ keys = {}
    /\ loadedAge = TTL /\ attemptedAge = MIN_REFRESH /\ rotationAge = MIN_REFRESH
    /\ lookups = [r \in Threads |-> Idle]

\* Or one that has run for a while, with a copy of that age.
Running ==
    /\ keys = published
    /\ loadedAge \in MIN_REFRESH..TTL /\ attemptedAge = MIN_REFRESH /\ rotationAge = MIN_REFRESH
    /\ lookups = [r \in Threads |-> Idle]

\* A signer with one key.
CacheInit ==
    /\ \E k \in KeyIds : published = {k} /\ \A l \in KeyIds : k <= l
    /\ Empty \/ Running

----------------------------------------------------------------------------
_is_stale == loadedAge = TTL

_may_attempt == attemptedAge = MIN_REFRESH

_may_check_rotation == rotationAge = MIN_REFRESH

At(r, place) == lookups[r].at = place

Goes(r, place) == lookups' = [lookups EXCEPT ![r].at = place]

Unstored == UNCHANGED <<published, keys, loadedAge>>

\* A handler needs key k.  A stale copy is fetched anew first, but not on every request
\* while the signer is down.  To read the moment of the last fetch and to set it is one
\* step here: a thread that comes in between only fetches too.
Ask(r, k) ==
    /\ At(r, "idle")
    /\ \/ /\ _is_stale /\ _may_attempt
          /\ attemptedAge' = 0
          /\ lookups' = [lookups EXCEPT ![r].at = "refreshing", ![r].key = k]
       \/ /\ ~(_is_stale /\ _may_attempt)
          /\ lookups' = [lookups EXCEPT ![r].at = "look", ![r].key = k]
          /\ UNCHANGED attemptedAge
    /\ Unstored /\ UNCHANGED rotationAge

\* A key that is not in the copy may be new: one look for a rotation in each interval.
Look(r) ==
    /\ At(r, "look")
    /\ \/ /\ lookups[r].key \in keys
          /\ Goes(r, "found")
          /\ UNCHANGED <<attemptedAge, rotationAge>>
       \/ /\ lookups[r].key \notin keys /\ _may_check_rotation
          /\ rotationAge' = 0 /\ attemptedAge' = 0
          /\ Goes(r, "checking")
       \/ /\ lookups[r].key \notin keys /\ ~_may_check_rotation
          /\ Goes(r, "UNKNOWN_KEY_ID")
          /\ UNCHANGED <<attemptedAge, rotationAge>>
    /\ Unstored

LookAgain(r) ==
    /\ At(r, "look again")
    /\ Goes(r, IF lookups[r].key \in keys THEN "found" ELSE "UNKNOWN_KEY_ID")
    /\ Unstored /\ UNCHANGED <<attemptedAge, rotationAge>>

Fetching(r) == At(r, "refreshing") \/ At(r, "checking")

\* The signer answers with what it publishes.
Responds(r) ==
    /\ Fetching(r)
    /\ lookups' = [lookups EXCEPT ![r].at = IF @ = "refreshing" THEN "refreshed" ELSE "checked",
                                  ![r].response = published]
    /\ Unstored /\ UNCHANGED <<attemptedAge, rotationAge>>

\* Where a thread goes on when its fetch is over.
After(r) == IF lookups[r].at \in {"refreshing", "refreshed"} THEN "look" ELSE "look again"

\* Fault: a process that has keys keeps them.
StoreOnce(r) ==
    /\ At(r, "refreshed") \/ At(r, "checked")
    /\ keys' = IF keys = {} THEN lookups[r].response ELSE keys
    /\ loadedAge' = 0
    /\ lookups' = [lookups EXCEPT ![r].at = After(r), ![r].response = {}]
    /\ UNCHANGED <<published, attemptedAge, rotationAge>>

\* The answer is stored, whatever was stored meanwhile.
Store(r) ==
    /\ At(r, "refreshed") \/ At(r, "checked")
    /\ keys' = lookups[r].response
    /\ loadedAge' = 0
    /\ lookups' = [lookups EXCEPT ![r].at = After(r), ![r].response = {}]
    /\ UNCHANGED <<published, attemptedAge, rotationAge>>

\* No answer, a broken one or one without keys: the old copy has to do, if there is one.
FetchFails(r) ==
    /\ Fetching(r)
    /\ Goes(r, IF keys = {} THEN "KEYS_UNAVAILABLE" ELSE After(r))
    /\ Unstored /\ UNCHANGED <<attemptedAge, rotationAge>>

\* The handler has its answer.
Taken(r, answer) ==
    /\ At(r, answer)
    /\ lookups' = [lookups EXCEPT ![r] = Idle]
    /\ Unstored /\ UNCHANGED <<attemptedAge, rotationAge>>

Lookup(r) ==
    Look(r) \/ LookAgain(r) \/ Responds(r) \/ Store(r) \/ FetchFails(r)

----------------------------------------------------------------------------
Older(age, limit) == IF age < limit THEN age + 1 ELSE age

Ages ==
    /\ loadedAge' = Older(loadedAge, TTL)
    /\ attemptedAge' = Older(attemptedAge, MIN_REFRESH)
    /\ rotationAge' = Older(rotationAge, MIN_REFRESH)
    /\ UNCHANGED <<published, keys, lookups>>

\* The signer adds a key, and later withdraws an older one.
Publish(k) ==
    /\ k \in KeyIds \ published /\ \A l \in published : l < k
    /\ published' = published \cup {k}
    /\ UNCHANGED <<keys, loadedAge, attemptedAge, rotationAge, lookups>>

Withdraw(k) ==
    /\ k \in published /\ \E l \in published : l > k
    /\ published' = published \ {k}
    /\ UNCHANGED <<keys, loadedAge, attemptedAge, rotationAge, lookups>>

\* The process is replaced; the requests in it are lost.
Restart ==
    /\ keys' = {} /\ loadedAge' = TTL
    /\ attemptedAge' = MIN_REFRESH /\ rotationAge' = MIN_REFRESH
    /\ lookups' = [r \in Threads |-> Idle]
    /\ UNCHANGED published

=============================================================================
