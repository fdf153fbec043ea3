------------------------------- MODULE Digest -------------------------------
(***************************************************************************)
(* The scheduler's jobs that tell subscribers of new mirrors               *)
(* (app/notifications/digest.py), the deliveries that keep two runs from   *)
(* telling twice, the preferences and the devices they are sent to         *)
(* (app/push/).  Jobs overlap, are called again, and stop anywhere.        *)
(***************************************************************************)
EXTENDS Naturals, Functions

CONSTANTS
    Users, Tokens, Jobs, Edits,
    WeekLength,         \* days in a window of the weekly kinds (7)
    MaxDay, MaxJobs, MaxEdits, MaxRegistrations,    \* bounds
    None

ASSUME DigestAssumption ==
    /\ WeekLength \in Nat \ {0}
    /\ MaxDay \in Nat /\ MaxJobs \in Nat /\ MaxEdits \in Nat /\ MaxRegistrations \in Nat
    /\ None \notin Users

VARIABLES
    day,            \* the day in Korea
    published,      \* days on which a mirror that is public now was published
    preferences,    \* user -> settings
    edits,          \* a settings request that has read, and what it will save
    devices,        \* token -> its user, and whether it is enabled
    deliveries,     \* <<user, kind, window>> that are taken
    center,         \* <<user, kind, window>> -> notifications stored
    jobs,           \* the runs under way
    started, edited, registered,    \* counters for the bounds
    pushed,         \* history: <<delivery, token>> -> pushes that arrived
    lost,           \* history: deliveries whose job stopped before it stored the notification
    asked,          \* history: <<user, kind>> the user has turned on
    news            \* history: days on which a mirror was published

settings == <<preferences, edits, edited, asked>>
shop == <<day, published, news>>
sent == <<deliveries, center, pushed, lost>>
registry == <<devices, registered>>
vars == <<settings, shop, sent, registry, jobs, started>>

Kinds == {"mirror_digest_daily", "mirror_digest_weekly", "recommendation"}

Preferences == [digest: {"off", "daily", "weekly"}, recommendation: BOOLEAN]

Default == [digest |-> "off", recommendation |-> FALSE]

Device == [user: Users, enabled: BOOLEAN]

Span(kind) == IF kind = "mirror_digest_daily" THEN 1 ELSE WeekLength

\* The window of a kind on a day: the date, or the week.
window(kind, d) == d \div Span(kind)

Deliveries == Users \X Kinds \X (0..MaxDay)

Job == [step: {"next", "claim", "create", "devices", "send", "disable"},
        kind: Kinds, window: 0..MaxDay, news: BOOLEAN,
        left: SUBSET Users, user: Users \cup {None},
        to: SUBSET Tokens, dead: Tokens \cup {None}]

NoJob == [step |-> "none"]

TypeOK ==
    /\ day \in 0..MaxDay /\ published \subseteq news /\ news \subseteq 0..day
    /\ preferences \in [Users -> Preferences]
    /\ edits \in [Edits -> {None} \cup [user: Users, to: Preferences]]
    /\ DOMAIN devices \subseteq Tokens /\ devices \in [DOMAIN devices -> Device]
    /\ deliveries \subseteq Deliveries
    /\ DOMAIN center \subseteq Deliveries /\ center \in [DOMAIN center -> Nat]
    /\ DOMAIN pushed \subseteq Deliveries \X Tokens /\ pushed \in [DOMAIN pushed -> Nat]
    /\ lost \subseteq deliveries /\ asked \subseteq Users \X Kinds
    /\ jobs \in [Jobs -> {NoJob} \cup Job]
    /\ started \in 0..MaxJobs /\ edited \in 0..MaxEdits /\ registered \in 0..MaxRegistrations

Init ==
    /\ day = 0 /\ published = {} /\ news = {}
    /\ preferences = [u \in Users |-> Default]
    /\ edits = [e \in Edits |-> None]
    /\ \E owner \in [Tokens -> Users] :
          devices = [t \in Tokens |-> [user |-> owner[t], enabled |-> TRUE]]
    /\ deliveries = {} /\ center = <<>> /\ pushed = <<>> /\ lost = {} /\ asked = {}
    /\ jobs = [j \in Jobs |-> NoJob]
    /\ started = 0 /\ edited = 0 /\ registered = 0

Put(coll, id, doc) == [k \in DOMAIN coll \cup {id} |-> IF k = id THEN doc ELSE coll[k]]

More(coll, id) == Put(coll, id, IF id \in DOMAIN coll THEN coll[id] + 1 ELSE 1)

----------------------------------------------------------------------------
(***************************************************************************)
(* The shop, the settings and the devices                                  *)
(***************************************************************************)

\* A mirror is published.
publish ==
    /\ day \notin published
    /\ published' = published \cup {day} /\ news' = news \cup {day}
    /\ UNCHANGED <<day, settings, sent, registry, jobs, started>>

\* It is withdrawn, taken down or deleted.
withdraw(d) ==
    /\ d \in published
    /\ published' = published \ {d}
    /\ UNCHANGED <<day, news, settings, sent, registry, jobs, started>>

midnight ==
    /\ day < MaxDay
    /\ day' = day + 1
    /\ UNCHANGED <<published, news, settings, sent, registry, jobs, started>>

Wants(p, kind) ==
    CASE kind = "mirror_digest_daily"  -> p.digest = "daily"
      [] kind = "mirror_digest_weekly" -> p.digest = "weekly"
      [] kind = "recommendation"       -> p.recommendation

\* What a screen sends is one setting; the others are those that are read now.
update(e, u) ==
    /\ edits[e] = None
    /\ edited < MaxEdits
    /\ edited' = edited + 1
    /\ \/ \E f \in {"off", "daily", "weekly"} :
             /\ edits' = [edits EXCEPT ![e] =
                            [user |-> u, to |-> [preferences[u] EXCEPT !.digest = f]]]
             /\ asked' = asked \cup {<<u, k>> : k \in {x \in Kinds \ {"recommendation"} :
                                                Wants([digest |-> f], x)}}
       \/ \E b \in BOOLEAN :
             /\ edits' = [edits EXCEPT ![e] =
                            [user |-> u, to |-> [preferences[u] EXCEPT !.recommendation = b]]]
             /\ asked' = IF b THEN asked \cup {<<u, "recommendation">>} ELSE asked
    /\ UNCHANGED <<preferences, shop, sent, registry, jobs, started>>

\* The whole document is set, whatever it has become in between.
save(e) ==
    /\ edits[e] # None
    /\ preferences' = [preferences EXCEPT ![edits[e].user] = edits[e].to]
    /\ edits' = [edits EXCEPT ![e] = None]
    /\ UNCHANGED <<edited, asked, shop, sent, registry, jobs, started>>

\* PUT /push-devices: who registers a token is its owner from now on.
register(t, u) ==
    /\ registered < MaxRegistrations
    /\ registered' = registered + 1
    /\ devices' = Put(devices, t, [user |-> u, enabled |-> TRUE])
    /\ UNCHANGED <<settings, shop, sent, jobs, started>>

unregister(t, u) ==
    /\ t \in DOMAIN devices
    /\ devices[t].user = u
    /\ devices' = Restrict(devices, DOMAIN devices \ {t})
    /\ UNCHANGED <<registered, settings, shop, sent, jobs, started>>

----------------------------------------------------------------------------
(***************************************************************************)
(* The jobs                                                                *)
(***************************************************************************)

registered_user_ids == {devices[t].user : t \in {x \in DOMAIN devices : devices[x].enabled}}

\* Whether new_mirrors counts any: what was published just a span ago counts or not,
\* with the hour.
new_mirrors(kind) ==
    {\E d \in published : d + Span(kind) > day, \E d \in published : d + Span(kind) >= day}

\* POST /jobs/...: the subscribers, the window and the number of new mirrors.
run(j, kind) ==
    /\ jobs[j] = NoJob
    /\ started < MaxJobs
    /\ started' = started + 1
    /\ \E n \in new_mirrors(kind) :
          jobs' = [jobs EXCEPT ![j] =
                     [step |-> "next", kind |-> kind, window |-> window(kind, day),
                      news |-> n, left |-> registered_user_ids, user |-> None,
                      to |-> {}, dead |-> None]]
    /\ UNCHANGED <<settings, shop, sent, registry>>

Goes(j, job) == jobs' = [jobs EXCEPT ![j] = job]

Key(job) == <<job.user, job.kind, job.window>>

\* Fault: the place is taken before it is known that there is anything to tell.
worth_always(job) == TRUE

\* Nothing new: the place stays free for what may still come.
worth(job) == job.kind = "recommendation" \/ job.news

\* The next subscriber, if the kind is wanted.
consider(j, u) ==
    LET job == jobs[j] IN
    /\ job.step = "next"
    /\ u \in job.left
    /\ Goes(j, IF Wants(preferences[u], job.kind) /\ worth(job)
               THEN [job EXCEPT !.step = "claim", !.left = @ \ {u}, !.user = u]
               ELSE [job EXCEPT !.left = @ \ {u}])
    /\ UNCHANGED <<settings, shop, sent, registry, started>>

\* Fault: a delivery is looked for by the notifications of the user, not claimed.
first_seen(key) == key \notin DOMAIN center

first(key) == key \notin deliveries

\* The create of the delivery decides between two runs.
claim(j) ==
    LET job == jobs[j] IN
    /\ job.step = "claim"
    /\ IF first(Key(job))
       THEN /\ deliveries' = deliveries \cup {Key(job)}
            /\ Goes(j, [job EXCEPT !.step = IF job.kind = "recommendation" THEN "devices"
                                            ELSE "create"])
       ELSE /\ Goes(j, [job EXCEPT !.step = "next", !.user = None])
            /\ UNCHANGED deliveries
    /\ UNCHANGED <<center, pushed, lost, settings, shop, registry, started>>

create(j) ==
    LET job == jobs[j] IN
    /\ job.step = "create"
    /\ center' = More(center, Key(job))
    /\ Goes(j, [job EXCEPT !.step = "devices"])
    /\ UNCHANGED <<deliveries, pushed, lost, settings, shop, registry, started>>

\* Whatever goes wrong with a push, the job goes on with the next subscriber.
Pushes(j, to) ==
    Goes(j, [jobs[j] EXCEPT !.step = IF to = {} THEN "next" ELSE "send",
                            !.user = IF to = {} THEN None ELSE @,
                            !.to = to, !.dead = None])

read_devices(j) ==
    LET u == jobs[j].user IN
    /\ jobs[j].step = "devices"
    /\ \/ Pushes(j, {t \in DOMAIN devices : devices[t].user = u /\ devices[t].enabled})
       \/ Pushes(j, {})
    /\ UNCHANGED <<settings, shop, sent, registry, started>>

\* The token of the device read before: delivered, refused for now, or over for good.
send(j, t) ==
    LET job == jobs[j] IN
    /\ job.step = "send"
    /\ t \in job.to
    /\ \/ /\ pushed' = More(pushed, <<Key(job), t>>)
          /\ Pushes(j, job.to \ {t})
       \/ /\ UNCHANGED pushed
          /\ Pushes(j, job.to \ {t})
       \/ /\ UNCHANGED pushed
          /\ Goes(j, [job EXCEPT !.step = "disable", !.to = @ \ {t}, !.dead = t])
    /\ UNCHANGED <<deliveries, center, lost, settings, shop, registry, started>>

\* A registration that is gone stays gone; one made anew in between is disabled too.
disabled(t) ==
    IF t \in DOMAIN devices THEN [devices EXCEPT ![t].enabled = FALSE] ELSE devices

disable(j) ==
    LET job == jobs[j] IN
    /\ job.step = "disable"
    /\ \/ devices' = disabled(job.dead)
       \/ UNCHANGED devices
    /\ Pushes(j, job.to)
    /\ UNCHANGED <<registered, settings, shop, sent, started>>

\* The list is done.
ends(j) ==
    /\ jobs[j].step = "next"
    /\ jobs[j].left = {}
    /\ Goes(j, NoJob)
    /\ UNCHANGED <<settings, shop, sent, registry, started>>

\* The store fails (503) or the instance stops; the scheduler may call again.
fails(j) ==
    /\ jobs[j] # NoJob
    /\ lost' = IF jobs[j].step = "create" THEN lost \cup {Key(jobs[j])} ELSE lost
    /\ Goes(j, NoJob)
    /\ UNCHANGED <<deliveries, center, pushed, settings, shop, registry, started>>

Runs(j) ==
    \/ \E kind \in Kinds : run(j, kind)
    \/ \E u \in Users : consider(j, u)
    \/ claim(j) \/ create(j) \/ read_devices(j)
    \/ \E t \in Tokens : send(j, t)
    \/ disable(j) \/ ends(j) \/ fails(j)

Next ==
    \/ \E j \in Jobs : Runs(j)
    \/ publish \/ midnight
    \/ \E d \in 0..MaxDay : withdraw(d)
    \/ \E e \in Edits, u \in Users : update(e, u)
    \/ \E e \in Edits : save(e)
    \/ \E t \in Tokens, u \in Users : register(t, u) \/ unregister(t, u)

Spec == Init /\ [][Next]_vars

----------------------------------------------------------------------------
(***************************************************************************)
(* Properties                                                              *)
(***************************************************************************)

\* However often the scheduler calls and however the runs overlap, a user is told once in
\* a window: one notification, and one push for each device; a recommendation is not stored.
ToldOnce ==
    /\ \A key \in DOMAIN center : center[key] <= 1 /\ key[2] # "recommendation"
    /\ \A p \in DOMAIN pushed : pushed[p] <= 1

\* A place is taken only for a user who has asked for the kind, and for a digest only when
\* a mirror was published in the window's reach; its notification is stored, unless the
\* job stopped just then.
DeliveriesAreDue ==
    \A key \in deliveries :
        LET u == key[1]  kind == key[2]  w == key[3] IN
        /\ <<u, kind>> \in asked
        /\ kind # "recommendation" =>
              /\ \E d \in news : window(kind, d) \in {w, w - 1}
              /\ \/ key \in DOMAIN center \cup lost
                 \/ \E j \in Jobs : jobs[j].step = "create" /\ Key(jobs[j]) = key
=============================================================================
