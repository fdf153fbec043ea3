---------------------------- MODULE RewardedAds ----------------------------
(***************************************************************************)
(* Rewarded ads: from the context a device puts into an ad to the shards   *)
(* that Google's signed callback pays (app/ads, app/api/ads.py).           *)
(*                                                                         *)
(* Google calls until it hears 200.  A handler looks the signing key up in *)
(* the cache of its process (KeyCache), resolves the context to its user   *)
(* and pays by one step of ShardLedger, whose documents it shares.         *)
(***************************************************************************)
EXTENDS ShardLedger

CONSTANTS
    Viewer,         \* ad -> the user who watches it
    Expected,       \* ads of the configured unit and with the configured reward
    Elsewhere,      \* ads whose callbacks reach another process of the service
    CONTEXT_LIFETIME,
    Absent,         \* no context
    KeyIds, Threads, TTL, MIN_REFRESH,
    MaxRestarts     \* bound: times the process is replaced

ASSUME RewardedAdsAssumption ==
    /\ Viewer \in [Ads -> Users]
    /\ Expected \subseteq Ads /\ Elsewhere \subseteq Ads
    /\ CONTEXT_LIFETIME \in Nat \ {0}
    /\ Absent \notin 0..CONTEXT_LIFETIME
    /\ KeyIds \subseteq Nat
    /\ TTL \in Nat \ {0} /\ MIN_REFRESH \in 1..TTL
    /\ MaxRestarts \in Nat

VARIABLES
    published, keys, loadedAge, attemptedAge, rotationAge, lookups,     \* the key cache
    contexts,       \* ad -> the age of the context in it
    signed,         \* ad -> the key of its callback, for the ads watched
    handlers,       \* thread -> [at, ad], the callback it handles
    statuses,       \* ad -> the last status Google heard, and why
    restarts

\* AdMobKeyProvider: KeyCache, with a longer TTL.
Cache == INSTANCE KeyCache

cache == <<published, keys, loadedAge, attemptedAge, rotationAge, lookups>>

adsVars == <<shards, cache, contexts, signed, handlers, statuses, restarts>>

\* What is answered with 200, and 400, 503 or no answer at all.
Settled == {"granted", "duplicate", "limit_reached", "unexpected", "missing_context",
            "expired_context"}

NoCallback == [at |-> "idle", ad |-> Absent]

AdsTypeOK ==
    /\ TypeOK
    /\ Cache!CacheTypeOK
    /\ contexts \in [Ads -> 0..CONTEXT_LIFETIME \cup {Absent}]
    /\ DOMAIN signed \subseteq Ads
    /\ \A a \in DOMAIN signed : signed[a] \in KeyIds
    /\ handlers \in [Threads -> [at: {"key", "context", "grant"}, ad: Ads] \cup {NoCallback}]
    /\ statuses \in [Ads -> Settled \cup {"unsettled"}]
    /\ restarts \in 0..MaxRestarts

AdsInit ==
    /\ Init
    /\ Cache!CacheInit
    /\ contexts = [a \in Ads |-> Absent]
    /\ signed = [a \in {} |-> a]
    /\ handlers = [r \in Threads |-> NoCallback]
    /\ statuses = [a \in Ads |-> "unsettled"]
    /\ restarts = 0

----------------------------------------------------------------------------
(***************************************************************************)
(* The device and Google                                                   *)
(***************************************************************************)

\* POST /users/me/rewarded-ads/context; the device may go on without.
issue_context(a) ==
    /\ a \notin DOMAIN signed \cup Elsewhere /\ contexts[a] = Absent
    /\ contexts' = [contexts EXCEPT ![a] = 0]
    /\ UNCHANGED <<shards, cache, signed, handlers, statuses, restarts>>

\* The ad was watched: its callback is signed with a key that is published.
Watch(a) ==
    /\ a \notin DOMAIN signed \cup Elsewhere
    /\ \E k \in published : signed' = Create(signed, a, k)
    /\ UNCHANGED <<shards, cache, contexts, handlers, statuses, restarts>>

\* Google withdraws a key when no callback it signed is on its way any more.
Rotate ==
    /\ \/ \E k \in KeyIds : Cache!Publish(k)
       \/ \E k \in KeyIds :
             /\ \A a \in DOMAIN signed : signed[a] = k => statuses[a] \in Settled
             /\ Cache!Withdraw(k)
    /\ UNCHANGED <<shards, contexts, signed, handlers, statuses, restarts>>

\* Another process pays an ad of this user, into the same ledger.
PaidElsewhere(a) ==
    /\ a \in Elsewhere
    /\ RewardedAd(Viewer[a], a)
    /\ UNCHANGED <<cache, contexts, signed, handlers, statuses, restarts>>

Tick ==
    /\ Cache!Ages
    /\ contexts' = [a \in Ads |-> IF contexts[a] = Absent THEN Absent
                                  ELSE Cache!Older(contexts[a], CONTEXT_LIFETIME)]
    /\ UNCHANGED <<shards, signed, handlers, statuses, restarts>>

----------------------------------------------------------------------------
(***************************************************************************)
(* The callback                                                            *)
(***************************************************************************)

Handles(r, place) == handlers[r].at = place

Goes(r, place) == handlers' = [handlers EXCEPT ![r].at = place]

\* The handler ends; Google hears its answer or does not.
Answer(r, why) ==
    /\ handlers' = [handlers EXCEPT ![r] = NoCallback]
    /\ \/ statuses' = [statuses EXCEPT ![handlers[r].ad] = IF @ \in Settled THEN @ ELSE why]
       \/ UNCHANGED statuses
    /\ UNCHANGED <<contexts, signed, restarts>>

\* GET /admob/rewarded/ssv, for the first time or again.
rewarded_ssv(r, a) ==
    /\ a \in DOMAIN signed /\ statuses[a] \notin Settled
    /\ Handles(r, "idle")
    /\ handlers' = [handlers EXCEPT ![r] = [at |-> "key", ad |-> a]]
    /\ Cache!Ask(r, signed[a])
    /\ UNCHANGED <<shards, contexts, signed, statuses, restarts>>

key_for(r) ==
    /\ Cache!Lookup(r)
    /\ UNCHANGED <<shards, contexts, signed, handlers, statuses, restarts>>

\* KEYS_UNAVAILABLE is a 503 and UNKNOWN_KEY_ID a 400: Google calls again in either case.
KeyMissing(r) ==
    /\ Cache!Taken(r, "UNKNOWN_KEY_ID") \/ Cache!Taken(r, "KEYS_UNAVAILABLE")
    /\ Answer(r, "unsettled")
    /\ UNCHANGED shards

\* The signature is good: _check_product, and whether there is a context at all.
Verified(r) ==
    LET a == handlers[r].ad IN
    /\ Cache!Taken(r, "found")
    /\ \/ a \notin Expected /\ Answer(r, "unexpected")
       \/ a \in Expected /\ contexts[a] = Absent /\ Answer(r, "missing_context")
       \/ /\ a \in Expected /\ contexts[a] # Absent
          /\ Goes(r, "context")
          /\ UNCHANGED <<contexts, signed, statuses, restarts>>
    /\ UNCHANGED shards

\* Fault: a context is used up by the callback that reads it.
resolve_and_consume(r) ==
    LET a == handlers[r].ad IN
    /\ Handles(r, "context")
    /\ \/ contexts[a] = CONTEXT_LIFETIME /\ Answer(r, "expired_context")
       \/ /\ contexts[a] # CONTEXT_LIFETIME
          /\ Goes(r, "grant")
          /\ contexts' = [contexts EXCEPT ![a] = Absent]
          /\ UNCHANGED <<signed, statuses, restarts>>
    /\ UNCHANGED <<shards, cache>>

\* _resolve_user reads the context and leaves it there for the next call.
resolve_user(r) ==
    LET a == handlers[r].ad IN
    /\ Handles(r, "context")
    /\ \/ contexts[a] = CONTEXT_LIFETIME /\ Answer(r, "expired_context")
       \/ /\ contexts[a] # CONTEXT_LIFETIME
          /\ Goes(r, "grant")
          /\ UNCHANGED <<contexts, signed, statuses, restarts>>
    /\ UNCHANGED <<shards, cache>>

\* One transaction: paid now, paid before, or the day of the ad is used up.
grant(r) ==
    LET a == handlers[r].ad  u == Viewer[a]  paid == Key(u, "rewarded_ad", a) \in DOMAIN ledger
    IN
    /\ Handles(r, "grant")
    /\ \/ RewardedAd(u, a) /\ Answer(r, "granted")
       \/ paid /\ Answer(r, "duplicate") /\ UNCHANGED shards
       \/ /\ ~paid /\ quotas[<<u, RewardDay[a]>>] >= DAILY_REWARD_LIMIT
          /\ Answer(r, "limit_reached") /\ UNCHANGED shards
    /\ UNCHANGED cache

\* The store is down (503).
StoreFails(r) ==
    /\ Handles(r, "context") \/ Handles(r, "grant")
    /\ handlers' = [handlers EXCEPT ![r] = NoCallback]
    /\ UNCHANGED <<shards, cache, contexts, signed, statuses, restarts>>

\* Cloud Run replaces the process.
Restart ==
    /\ restarts < MaxRestarts
    /\ restarts' = restarts + 1
    /\ Cache!Restart
    /\ handlers' = [r \in Threads |-> NoCallback]
    /\ UNCHANGED <<shards, contexts, signed, statuses>>

Handler(r) ==
    \/ \E a \in Ads : rewarded_ssv(r, a)
    \/ key_for(r) \/ KeyMissing(r) \/ Verified(r) \/ resolve_user(r) \/ grant(r) \/ StoreFails(r)

AdsNext ==
    \/ \E a \in Ads : issue_context(a) \/ Watch(a) \/ PaidElsewhere(a)
    \/ \E r \in Threads : Handler(r)
    \/ Rotate \/ Tick \/ Restart

AdsSpec == AdsInit /\ [][AdsNext]_adsVars

(***************************************************************************)
(* Threads run, time passes and Google calls again; neither Google's key   *)
(* server, nor the store, nor the way back to Google fails for ever.       *)
(***************************************************************************)
Heard == \E a \in Ads : statuses'[a] # statuses[a]

AdsFairSpec ==
    /\ AdsSpec
    /\ WF_adsVars(Tick)
    /\ \A a \in Ads : SF_adsVars(\E r \in Threads : rewarded_ssv(r, a))
    /\ \A r \in Threads :
          WF_adsVars(key_for(r) \/ KeyMissing(r) \/ Verified(r) \/ resolve_user(r) \/ grant(r))
    /\ SF_adsVars(\E r \in Threads : Cache!Responds(r) /\ key_for(r))
    /\ SF_adsVars(\E r \in Threads : resolve_user(r))
    /\ SF_adsVars(\E r \in Threads : (Verified(r) \/ resolve_user(r) \/ grant(r)) /\ Heard)

----------------------------------------------------------------------------
(***************************************************************************)
(* Properties                                                              *)
(***************************************************************************)

\* What 200 tells Google, which then never calls again, is true for good: the ad is paid;
\* its day is used up by other ads; or it was not to be paid, because it is not ours, came
\* without a context, or its context ran out before a call got through.
SettledIsFair ==
    \A a \in Ads :
        LET u == Viewer[a]  paid == Key(u, "rewarded_ad", a) \in DOMAIN ledger IN
        /\ statuses[a] \in {"granted", "duplicate"} => paid
        /\ statuses[a] = "limit_reached" =>
              /\ ~paid
              /\ Cardinality({b \in Ads : /\ Viewer[b] = u /\ RewardDay[b] = RewardDay[a]
                                          /\ Key(u, "rewarded_ad", b) \in DOMAIN ledger})
                    = DAILY_REWARD_LIMIT
        /\ statuses[a] = "unexpected" => a \notin Expected /\ ~paid
        /\ statuses[a] = "missing_context" => contexts[a] = Absent /\ ~paid
        /\ statuses[a] = "expired_context" => contexts[a] = CONTEXT_LIFETIME

\* Every ad that was watched is settled in the end: a rotation of Google's keys, an old
\* answer stored over a newer one, a window in which nobody may look for a rotation and
\* a failed fetch only delay it.
WatchedIsSettled ==
    \A a \in Ads : a \in DOMAIN signed ~> statuses[a] \in Settled

\* What tests/test_rewarded_ads.py says of a failed fetch: it is not a failed signature,
\* so a callback that comes before there were any keys is not answered as one.
FetchFailureIsNotRejection ==
    \A r \in Threads : lookups[r].at = "UNKNOWN_KEY_ID" => keys # {}

=============================================================================
