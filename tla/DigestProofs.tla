---------------------------- MODULE DigestProofs ----------------------------
(***************************************************************************)
(* What Digest guarantees for every set of users, tokens and jobs.         *)
(*                                                                         *)
(* Neither property stands alone.  That a user is told once rests on where *)
(* the jobs are: a job past its claim holds a place nobody else holds, has *)
(* stored nothing before "create" and pushes to each device at most once.  *)
(* That a delivery is due rests on what a job learned before its claim,    *)
(* and on the settings it read, which a request in flight may still save.  *)
(* DInv says so, one conjunct for each, and is inductive.                  *)
(***************************************************************************)
EXTENDS Digest, TLAPS

\* A job that has won its claim, or is about to make one.
Holds(job) == job.step \in {"create", "devices", "send", "disable"}

Serving(job) == job.step = "claim" \/ Holds(job)

\* A mirror was published in the window or the one before.
InReach(kind, w) == \E d \in news : window(kind, d) \in {w, w - 1}

\* A job serves a user who asked for its kind, and has news if it is a digest.
JobDue(job) ==
    /\ Serving(job) =>
          job.user \in Users /\ <<job.user, job.kind>> \in asked /\ worth(job)
    /\ job.step = "create" => job.kind # "recommendation"
    /\ job # NoJob /\ job.news => InReach(job.kind, job.window)

\* What it holds is taken, and what it has yet to do was never done.
JobFirst(job) ==
    Holds(job) =>
        /\ Key(job) \in deliveries
        /\ job.step = "create" => Key(job) \notin DOMAIN center
        /\ \A t \in Tokens : <<Key(job), t>> \in DOMAIN pushed =>
              job.step \in {"send", "disable"} /\ t \notin job.to

\* Two jobs never hold the same place.
HeldOnce ==
    \A i, j \in Jobs : i # j /\ Holds(jobs[i]) /\ Holds(jobs[j]) => Key(jobs[i]) # Key(jobs[j])

\* What was stored and what was pushed belong to a place that is taken.
StoredOnce ==
    \A key \in DOMAIN center :
        key \in deliveries /\ key[2] # "recommendation" /\ center[key] = 1

PushedOnce == \A p \in DOMAIN pushed : p[1] \in deliveries /\ pushed[p] = 1

\* What is wanted, or will be once a request is saved, was asked for.
WantsAsked ==
    /\ \A u \in Users, k \in Kinds : Wants(preferences[u], k) => <<u, k>> \in asked
    /\ \A e \in Edits : edits[e] # None =>
          \A k \in Kinds : Wants(edits[e].to, k) => <<edits[e].user, k>> \in asked

JobsInv == \A j \in Jobs : JobDue(jobs[j]) /\ JobFirst(jobs[j])

DInv ==
    /\ TypeOK
    /\ JobsInv
    /\ HeldOnce
    /\ StoredOnce
    /\ PushedOnce
    /\ WantsAsked
    /\ DeliveriesAreDue

----------------------------------------------------------------------------
(***************************************************************************)
(* Windows                                                                 *)
(***************************************************************************)

\* A day of at most a span ago is in the same window or in the one before.
LEMMA WindowsNear ==
    ASSUME NEW s \in Nat \ {0}, NEW d \in Nat, NEW n \in Nat, d <= n, n <= d + s
    PROVE  n \div s \in 0..n /\ d \div s \in {n \div s, n \div s - 1}
  OBVIOUS

\* The window of a day that can still come is one of those that are counted.
LEMMA WindowFacts ==
    ASSUME TypeOK, NEW kind \in Kinds
    PROVE  /\ window(kind, day) \in 0..MaxDay
           /\ \A d \in news : d + Span(kind) >= day =>
                 window(kind, d) \in {window(kind, day), window(kind, day) - 1}
  <1>1. Span(kind) \in Nat \ {0}
    BY DigestAssumption DEF Span
  <1>2. day \in Nat /\ day <= MaxDay /\ MaxDay \in Nat
    BY DigestAssumption DEF TypeOK
  <1>3. \A d \in news : d \in Nat /\ d <= day
    BY <1>2 DEF TypeOK
  <1>4. window(kind, day) \in 0..MaxDay
    <2>1. day \div Span(kind) \in 0..day
      BY <1>1, <1>2, WindowsNear
    <2>. QED
      BY <1>2, <2>1 DEF window
  <1>5. ASSUME NEW d \in news, d + Span(kind) >= day
        PROVE  window(kind, d) \in {window(kind, day), window(kind, day) - 1}
    <2>1. d \in Nat /\ d <= day /\ day <= d + Span(kind)
      BY <1>1, <1>2, <1>3, <1>5
    <2>2. d \div Span(kind) \in {day \div Span(kind), day \div Span(kind) - 1}
      BY <1>1, <1>2, <2>1, WindowsNear
    <2>. QED
      BY <2>2 DEF window
  <1>. QED
    BY <1>4, <1>5

----------------------------------------------------------------------------
(***************************************************************************)
(* Jobs                                                                    *)
(***************************************************************************)

\* A move of job j writes no document of a place that another job holds.
Untouched(j, n) ==
    \A i \in Jobs \ {j} : Holds(jobs[i]) =>
        /\ Key(jobs[i]) \in DOMAIN center' => Key(jobs[i]) \in DOMAIN center
        /\ \A t \in Tokens : <<Key(jobs[i]), t>> \in DOMAIN pushed' =>
              <<Key(jobs[i]), t>> \in DOMAIN pushed
        /\ Holds(n) => Key(jobs[i]) # Key(n)

\* Every job but the one that moves keeps what is said of it.
LEMMA OneJobMoves ==
    ASSUME TypeOK, JobsInv, HeldOnce,
           NEW j \in Jobs, NEW n \in {NoJob} \cup Job, jobs' = [jobs EXCEPT ![j] = n],
           UNCHANGED <<asked, news>>, deliveries \subseteq deliveries',
           Untouched(j, n), JobDue(n)', JobFirst(n)'
    PROVE  JobsInv' /\ HeldOnce'
  <1>1. jobs'[j] = n /\ \A i \in Jobs \ {j} : jobs'[i] = jobs[i]
    BY DEF TypeOK
  <1>2. ASSUME NEW i \in Jobs \ {j}
        PROVE  JobDue(jobs[i])' /\ JobFirst(jobs[i])'
    <2>. PICK job : job = jobs[i]
      OBVIOUS
    <2>1. JobDue(job) /\ JobFirst(job) /\ jobs'[i] = job
      BY <1>1 DEF JobsInv
    <2>2. JobDue(job)'
      BY <2>1 DEF JobDue, InReach
    <2>3. JobFirst(job)'
      BY <2>1 DEF JobFirst, Untouched
    <2>. QED
      BY <2>1, <2>2, <2>3
  <1>3. JobsInv'
    BY <1>1, <1>2 DEF JobsInv
  <1>4. HeldOnce'
    BY <1>1 DEF HeldOnce, Untouched
  <1>. QED
    BY <1>3, <1>4

\* A move that writes no document of the digest, of a job that has no notification to store.
Quiet(j, n) ==
    /\ jobs' = [jobs EXCEPT ![j] = n]
    /\ UNCHANGED <<settings, shop, sent>>
    /\ jobs[j].step # "create"
    /\ JobDue(n) /\ JobFirst(n)
    /\ Holds(n) => Holds(jobs[j]) /\ Key(n) = Key(jobs[j])

LEMMA QuietMove ==
    ASSUME DInv, TypeOK', NEW j \in Jobs, NEW n \in {NoJob} \cup Job, Quiet(j, n)
    PROVE  DInv'
  <1>1. /\ UNCHANGED <<preferences, edits, asked, day, published, news>>
        /\ UNCHANGED <<deliveries, center, pushed, lost>>
    BY DEF Quiet, settings, shop, sent
  <1>2. jobs' = [jobs EXCEPT ![j] = n] /\ TypeOK
    BY DEF Quiet, DInv
  <1>3. JobDue(n)' /\ JobFirst(n)'
    BY <1>1 DEF Quiet, JobDue, JobFirst, InReach
  <1>4. Untouched(j, n)
    BY <1>1 DEF Quiet, DInv, HeldOnce, Untouched
  <1>5. JobsInv' /\ HeldOnce'
    BY <1>1, <1>2, <1>3, <1>4, OneJobMoves DEF DInv
  <1>6. StoredOnce' /\ PushedOnce' /\ WantsAsked'
    BY <1>1 DEF DInv, StoredOnce, PushedOnce, WantsAsked
  <1>7. DeliveriesAreDue'
    <2>1. \A i \in Jobs : jobs[i].step = "create" => jobs'[i] = jobs[i]
      BY <1>2 DEF Quiet, TypeOK
    <2>. QED
      BY <1>1, <2>1 DEF DInv, DeliveriesAreDue
  <1>. QED
    BY <1>5, <1>6, <1>7 DEF DInv

\* A job that has started is a job; only one under way has news or a subscriber.
LEMMA JobFacts ==
    ASSUME TypeOK, NEW j \in Jobs, jobs[j].step # "none"
    PROVE  jobs[j] \in Job /\ jobs[j] # NoJob
  BY DEF TypeOK, NoJob, Job

LEMMA JobIsNotNoJob == \A n \in Job : n # NoJob
  BY DEF Job, NoJob

\* What a step that moves one job leaves of the types to show.
LEMMA JobTypes ==
    ASSUME TypeOK, NEW j \in Jobs, NEW n \in {NoJob} \cup Job, jobs' = [jobs EXCEPT ![j] = n],
           UNCHANGED <<settings, shop, sent, registry, started>>
    PROVE  TypeOK'
  <1>1. jobs' \in [Jobs -> {NoJob} \cup Job]
    BY DEF TypeOK
  <1>. QED
    BY <1>1 DEF TypeOK, settings, shop, sent, registry

\* A run starts with what it reads, and serves nobody yet.
LEMMA RunStep ==
    ASSUME DInv, NEW j \in Jobs, NEW kind \in Kinds, run(j, kind)
    PROVE  DInv'
  <1>1. PICK new \in new_mirrors(kind) :
           jobs' = [jobs EXCEPT ![j] =
                      [step |-> "next", kind |-> kind, window |-> window(kind, day),
                       news |-> new, left |-> registered_user_ids, user |-> None,
                       to |-> {}, dead |-> None]]
    BY DEF run
  <1>. PICK n : n = [step |-> "next", kind |-> kind, window |-> window(kind, day),
                     news |-> new, left |-> registered_user_ids, user |-> None,
                     to |-> {}, dead |-> None]
    OBVIOUS
  <1>2. new \in BOOLEAN
    BY DEF new_mirrors
  <1>3. registered_user_ids \subseteq Users
    BY DEF registered_user_ids, DInv, TypeOK, Device
  <1>4. window(kind, day) \in 0..MaxDay
    BY WindowFacts DEF DInv
  <1>5. n \in Job
    BY <1>2, <1>3, <1>4 DEF Job
  <1>6. new => InReach(kind, window(kind, day))
    <2>1. new => \E d \in published : d + Span(kind) >= day
      <3>1. \A d \in published : d + Span(kind) > day => d + Span(kind) >= day
        <4>1. \A d \in published : d \in Int
          BY DigestAssumption DEF DInv, TypeOK
        <4>2. Span(kind) \in Int /\ day \in Int
          BY DigestAssumption DEF DInv, TypeOK, Span
        <4>. QED
          BY <4>1, <4>2
      <3>. QED
        BY <3>1 DEF new_mirrors
    <2>2. published \subseteq news
      BY DEF DInv, TypeOK
    <2>. QED
      BY <2>1, <2>2, WindowFacts DEF DInv, InReach
  <1>7. JobDue(n) /\ JobFirst(n) /\ ~Holds(n)
    BY <1>6 DEF JobDue, JobFirst, Serving, Holds
  <1>8. Quiet(j, n)
    <2>1. jobs' = [jobs EXCEPT ![j] = n]
      BY <1>1
    <2>2. jobs[j].step # "create" /\ UNCHANGED <<settings, shop, sent>>
      BY DEF run, NoJob
    <2>. QED
      BY <1>7, <2>1, <2>2 DEF Quiet
  <1>9. TypeOK'
    <2>1. jobs' \in [Jobs -> {NoJob} \cup Job]
      BY <1>1, <1>5 DEF DInv, TypeOK
    <2>2. started' \in 0..MaxJobs
      BY DigestAssumption DEF run, DInv, TypeOK
    <2>. QED
      BY <2>1, <2>2 DEF run, DInv, TypeOK, settings, shop, sent, registry
  <1>. QED
    BY <1>5, <1>8, <1>9, QuietMove

\* A subscriber is served only if the kind is wanted, and so was asked for.
LEMMA ConsiderStep ==
    ASSUME DInv, NEW j \in Jobs, NEW u \in Users, consider(j, u)
    PROVE  DInv'
  <1>. PICK job : job = jobs[j]
    OBVIOUS
  <1>1. job \in Job /\ job # NoJob /\ JobDue(job)
    BY JobFacts DEF consider, DInv, JobsInv
  <1>2. PICK n \in Job : /\ jobs' = [jobs EXCEPT ![j] = n]
                         /\ n.kind = job.kind /\ n.window = job.window /\ n.news = job.news
                         /\ \/ n.step = "next"
                            \/ /\ n.step = "claim" /\ n.user = u
                               /\ Wants(preferences[u], job.kind) /\ worth(job)
    <2>1. CASE Wants(preferences[u], job.kind) /\ worth(job)
      <3>. PICK n : n = [job EXCEPT !.step = "claim", !.left = @ \ {u}, !.user = u]
        OBVIOUS
      <3>1. n \in Job /\ n.kind = job.kind /\ n.window = job.window /\ n.news = job.news
            /\ n.step = "claim" /\ n.user = u
        BY <1>1 DEF Job
      <3>2. jobs' = [jobs EXCEPT ![j] = n]
        BY <2>1 DEF consider, Goes
      <3>. QED
        BY <2>1, <3>1, <3>2
    <2>2. CASE ~(Wants(preferences[u], job.kind) /\ worth(job))
      <3>. PICK n : n = [job EXCEPT !.left = @ \ {u}]
        OBVIOUS
      <3>1. n \in Job /\ n.kind = job.kind /\ n.window = job.window /\ n.news = job.news
            /\ n.step = "next"
        BY <1>1 DEF Job, consider
      <3>2. jobs' = [jobs EXCEPT ![j] = n]
        BY <2>2 DEF consider, Goes
      <3>. QED
        BY <3>1, <3>2
    <2>. QED
      BY <2>1, <2>2
  <1>3. JobDue(n) /\ JobFirst(n) /\ ~Holds(n)
    <2>1. n.step = "claim" => <<u, job.kind>> \in asked /\ worth(n)
      BY <1>1, <1>2 DEF DInv, WantsAsked, Job, worth
    <2>. QED
      BY <1>1, <1>2, <2>1 DEF JobDue, JobFirst, Serving, Holds
  <1>4. Quiet(j, n)
    BY <1>2, <1>3 DEF consider, Quiet
  <1>5. TypeOK'
    BY <1>2, JobTypes DEF consider, DInv
  <1>. QED
    BY <1>4, <1>5, QuietMove

\* A job ends, whatever it has done, unless it stops before it stores a notification.
LEMMA Leaves ==
    ASSUME DInv, NEW j \in Jobs, jobs' = [jobs EXCEPT ![j] = NoJob],
           jobs[j].step # "create", UNCHANGED <<settings, shop, sent, registry, started>>
    PROVE  DInv'
  <1>1. JobDue(NoJob) /\ JobFirst(NoJob) /\ ~Holds(NoJob)
    BY DEF JobDue, JobFirst, Serving, Holds, NoJob
  <1>2. Quiet(j, NoJob)
    BY <1>1 DEF Quiet
  <1>3. TypeOK'
    BY JobTypes DEF DInv
  <1>. QED
    BY <1>2, <1>3, QuietMove

\* A job with the same subscriber, kind and window holds the same place.
Follows(n, job) ==
    /\ n \in Job
    /\ n.kind = job.kind /\ n.window = job.window /\ n.news = job.news
    /\ Holds(n) => n.user = job.user

LEMMA SamePlace ==
    ASSUME NEW job, NEW n, Follows(n, job), Holds(n)
    PROVE  Key(n) = Key(job) /\ (worth(job) => worth(n))
  BY DEF Follows, Key, worth

\* A job goes on to push to some devices, or to the next subscriber.
LEMMA PushesFacts ==
    ASSUME TypeOK, NEW j \in Jobs, Holds(jobs[j]), NEW to \in SUBSET Tokens, Pushes(j, to)
    PROVE  \E n : /\ Follows(n, jobs[j])
                  /\ jobs' = [jobs EXCEPT ![j] = n]
                  /\ n.to = to /\ n.step \in {"next", "send"}
  <1>. PICK job : job = jobs[j]
    OBVIOUS
  <1>1. job \in Job
    BY JobFacts DEF Holds
  <1>2. CASE to = {}
    <2>. PICK n : n = [job EXCEPT !.step = "next", !.user = None, !.to = to, !.dead = None]
      OBVIOUS
    <2>1. n \in Job /\ n.kind = job.kind /\ n.window = job.window /\ n.news = job.news
          /\ n.to = to /\ n.step = "next"
      BY <1>1 DEF Job
    <2>2. jobs' = [jobs EXCEPT ![j] = n]
      BY <1>2 DEF Pushes, Goes
    <2>. QED
      BY <2>1, <2>2 DEF Follows, Holds
  <1>3. CASE to # {}
    <2>. PICK n : n = [job EXCEPT !.step = "send", !.user = @, !.to = to, !.dead = None]
      OBVIOUS
    <2>1. n \in Job /\ n.kind = job.kind /\ n.window = job.window /\ n.news = job.news
          /\ n.to = to /\ n.step = "send" /\ n.user = job.user
      BY <1>1 DEF Job
    <2>2. jobs' = [jobs EXCEPT ![j] = n]
      BY <1>3 DEF Pushes, Goes
    <2>. QED
      BY <2>1, <2>2 DEF Follows
  <1>. QED
    BY <1>2, <1>3

\* A job that pushes on, to devices it has not pushed to, keeps what is said of it.
LEMMA GoesOn ==
    ASSUME DInv, NEW j \in Jobs, Holds(jobs[j]), NEW n, Follows(n, jobs[j]),
           n.step \in {"next", "send", "disable"},
           jobs[j].step = "devices" \/ n.to \subseteq jobs[j].to
    PROVE  JobDue(n) /\ JobFirst(n)
  <1>. PICK job : job = jobs[j]
    OBVIOUS
  <1>1. JobDue(job) /\ JobFirst(job) /\ job # NoJob /\ NoJob # n
    BY JobFacts, JobIsNotNoJob DEF DInv, JobsInv, Holds, Follows
  <1>2. Holds(n) => Key(n) = Key(job) /\ (worth(job) => worth(n))
    BY SamePlace
  <1>3. JobDue(n)
    BY <1>1, <1>2 DEF JobDue, Serving, Follows, Holds
  <1>4. ASSUME Holds(n)
        PROVE  /\ Key(n) \in deliveries
               /\ n.step # "create"
               /\ n.step \in {"send", "disable"}
               /\ \A t \in Tokens : <<Key(n), t>> \in DOMAIN pushed => t \notin n.to
    BY <1>1, <1>2, <1>4 DEF JobFirst, Holds
  <1>5. JobFirst(n)
    BY <1>4 DEF JobFirst
  <1>. QED
    BY <1>3, <1>5

\* The same when nothing is written but the devices.
LEMMA PushesOn ==
    ASSUME DInv, NEW j \in Jobs, Holds(jobs[j]), jobs[j].step # "create",
           NEW to \in SUBSET Tokens, Pushes(j, to),
           jobs[j].step = "devices" \/ to \subseteq jobs[j].to,
           TypeOK', UNCHANGED <<settings, shop, sent>>
    PROVE  DInv'
  <1>1. PICK n : /\ Follows(n, jobs[j])
                 /\ jobs' = [jobs EXCEPT ![j] = n]
                 /\ n.to = to /\ n.step \in {"next", "send"}
    BY PushesFacts DEF DInv
  <1>2. JobDue(n) /\ JobFirst(n)
    BY <1>1, GoesOn
  <1>3. Quiet(j, n)
    BY <1>1, <1>2, SamePlace DEF Quiet
  <1>4. n \in Job
    BY <1>1 DEF Follows
  <1>. QED
    BY <1>3, <1>4, QuietMove

\* A number more for one member of a collection.
LEMMA MoreFacts ==
    ASSUME NEW c, c \in [DOMAIN c -> Nat], NEW id
    PROVE  /\ DOMAIN More(c, id) = DOMAIN c \cup {id}
           /\ More(c, id) \in [DOMAIN More(c, id) -> Nat]
           /\ \A k \in DOMAIN c : k # id => More(c, id)[k] = c[k]
           /\ id \notin DOMAIN c => More(c, id)[id] = 1
  BY DEF More, Put

\* The job that takes a place is the only one to hold it, and nothing was done for it.
LEMMA ClaimStep ==
    ASSUME DInv, NEW j \in Jobs, claim(j)
    PROVE  DInv'
  <1>. PICK job : job = jobs[j]
    OBVIOUS
  <1>1. job \in Job /\ job # NoJob /\ JobDue(job) /\ job.step = "claim"
    BY JobFacts DEF claim, DInv, JobsInv
  <1>. PICK key : key = Key(job)
    OBVIOUS
  <1>2. /\ key = <<job.user, job.kind, job.window>> /\ key \in Deliveries
        /\ <<job.user, job.kind>> \in asked /\ worth(job)
    BY <1>1 DEF JobDue, Serving, Key, Deliveries, Job
  <1>3. /\ UNCHANGED <<center, pushed, lost, started>>
        /\ UNCHANGED <<settings, shop, registry>>
        /\ UNCHANGED <<preferences, edits, asked, day, published, news>>
    BY DEF claim, settings, shop
  <1>4. CASE key \in deliveries
    <2>. PICK n : n = [job EXCEPT !.step = "next", !.user = None]
      OBVIOUS
    <2>1. /\ jobs' = [jobs EXCEPT ![j] = n]
          /\ deliveries' = deliveries
      BY <1>4 DEF claim, first, Goes
    <2>2. n \in Job /\ n.kind = job.kind /\ n.window = job.window /\ n.news = job.news
          /\ n.step = "next"
      BY <1>1 DEF Job
    <2>3. JobDue(n) /\ JobFirst(n) /\ ~Holds(n)
      BY <1>1, <2>2 DEF JobDue, JobFirst, Serving, Holds
    <2>4. UNCHANGED <<sent, registry>>
      BY <1>3, <2>1 DEF sent
    <2>5. TypeOK'
      BY <1>3, <2>1, <2>2, <2>4, JobTypes DEF DInv
    <2>6. Quiet(j, n)
      BY <1>1, <1>3, <2>1, <2>3, <2>4 DEF Quiet
    <2>. QED
      BY <2>2, <2>5, <2>6, QuietMove
  <1>5. CASE key \notin deliveries
    <2>. PICK n : n = [job EXCEPT !.step = IF job.kind = "recommendation" THEN "devices"
                                           ELSE "create"]
      OBVIOUS
    <2>1. /\ jobs' = [jobs EXCEPT ![j] = n]
          /\ deliveries' = deliveries \cup {key}
      BY <1>5 DEF claim, first, Goes
    <2>2. n \in Job /\ n.kind = job.kind /\ n.window = job.window /\ n.news = job.news
          /\ n.user = job.user
          /\ n.step = IF job.kind = "recommendation" THEN "devices" ELSE "create"
      BY <1>1 DEF Job
    <2>3. Key(n) = key /\ Holds(n) /\ worth(n) /\ n # NoJob
      BY <1>1, <1>2, <2>2, JobIsNotNoJob DEF Key, Holds, worth
    <2>4. key \notin DOMAIN center /\ \A t \in Tokens : <<key, t>> \notin DOMAIN pushed
      BY <1>5 DEF DInv, StoredOnce, PushedOnce
    <2>5. TypeOK'
      <3>1. jobs' \in [Jobs -> {NoJob} \cup Job]
        BY <2>1, <2>2 DEF DInv, TypeOK
      <3>2. deliveries' \subseteq Deliveries /\ lost' \subseteq deliveries'
        BY <1>2, <1>3, <2>1 DEF DInv, TypeOK
      <3>. QED
        BY <1>3, <3>1, <3>2 DEF DInv, TypeOK, settings, shop, registry
    <2>6. JobDue(n)
      BY <1>1, <1>2, <2>2, <2>3 DEF JobDue, Serving
    <2>7. JobDue(n)'
      BY <1>3, <2>6 DEF JobDue, InReach
    <2>8. JobFirst(n)'
      BY <1>3, <2>1, <2>3, <2>4 DEF JobFirst
    <2>9. Untouched(j, n)
      <3>1. \A i \in Jobs \ {j} : Holds(jobs[i]) => Key(jobs[i]) # key
        BY <1>5 DEF DInv, JobsInv, JobFirst
      <3>. QED
        BY <1>3, <2>3, <3>1 DEF Untouched
    <2>10. JobsInv' /\ HeldOnce'
      BY <1>3, <2>1, <2>2, <2>3, <2>7, <2>8, <2>9, OneJobMoves DEF DInv
    <2>11. StoredOnce' /\ PushedOnce' /\ WantsAsked'
      BY <1>3, <2>1 DEF DInv, StoredOnce, PushedOnce, WantsAsked
    <2>12. DeliveriesAreDue'
      <3>1. jobs'[j] = n /\ \A i \in Jobs \ {j} : jobs'[i] = jobs[i]
        BY <2>1 DEF DInv, TypeOK
      <3>2. \A i \in Jobs : jobs[i].step = "create" => jobs'[i] = jobs[i]
        BY <1>1, <3>1
      <3>3. job.kind # "recommendation" => InReach(job.kind, job.window) /\ n.step = "create"
        BY <1>1, <1>2, <2>2 DEF JobDue, worth
      <3>4. key[1] = job.user /\ key[2] = job.kind /\ key[3] = job.window
        BY <1>2
      <3>5. ASSUME NEW k \in deliveries'
            PROVE  /\ <<k[1], k[2]>> \in asked
                   /\ k[2] # "recommendation" =>
                        /\ InReach(k[2], k[3])
                        /\ \/ k \in DOMAIN center \cup lost
                           \/ \E i \in Jobs : jobs'[i].step = "create" /\ Key(jobs'[i]) = k
        <4>1. CASE k = key
          BY <1>2, <2>3, <3>1, <3>3, <3>4, <4>1
        <4>2. CASE k \in deliveries
          BY <3>2, <4>2 DEF DInv, DeliveriesAreDue, InReach
        <4>. QED
          BY <2>1, <4>1, <4>2
      <3>. QED
        BY <1>3, <3>5 DEF DeliveriesAreDue, InReach, Key
    <2>. QED
      BY <2>5, <2>10, <2>11, <2>12 DEF DInv
  <1>. QED
    BY <1>4, <1>5

\* The notification of a place is stored by the job that holds it, which then goes on.
LEMMA CreateStep ==
    ASSUME DInv, NEW j \in Jobs, create(j)
    PROVE  DInv'
  <1>. PICK job : job = jobs[j]
    OBVIOUS
  <1>1. job \in Job /\ JobDue(job) /\ JobFirst(job) /\ job.step = "create" /\ Holds(job)
    BY JobFacts DEF create, DInv, JobsInv, Holds
  <1>. PICK key : key = Key(job)
    OBVIOUS
  <1>2. /\ key = <<job.user, job.kind, job.window>>
        /\ key \in deliveries /\ key \notin DOMAIN center /\ key[2] # "recommendation"
        /\ \A t \in Tokens : <<key, t>> \notin DOMAIN pushed
    BY <1>1 DEF JobFirst, JobDue, Key
  <1>3. /\ UNCHANGED <<deliveries, pushed, lost, started>>
        /\ UNCHANGED <<settings, shop, registry>>
        /\ UNCHANGED <<preferences, edits, asked, day, published, news>>
    BY DEF create, settings, shop
  <1>4. /\ center' = More(center, key)
        /\ center \in [DOMAIN center -> Nat]
    BY DEF create, DInv, TypeOK
  <1>5. /\ DOMAIN center' = DOMAIN center \cup {key}
        /\ center' \in [DOMAIN center' -> Nat]
        /\ \A k \in DOMAIN center : center'[k] = center[k]
        /\ center'[key] = 1
    <2>1. /\ DOMAIN More(center, key) = DOMAIN center \cup {key}
          /\ More(center, key) \in [DOMAIN More(center, key) -> Nat]
          /\ \A k \in DOMAIN center : k # key => More(center, key)[k] = center[k]
          /\ key \notin DOMAIN center => More(center, key)[key] = 1
      BY <1>4, MoreFacts
    <2>. QED
      BY <1>2, <1>4, <2>1
  <1>. PICK n : n = [job EXCEPT !.step = "devices"]
    OBVIOUS
  <1>6. jobs' = [jobs EXCEPT ![j] = n]
    BY DEF create, Goes
  <1>7. n \in Job /\ n.kind = job.kind /\ n.window = job.window /\ n.news = job.news
        /\ n.user = job.user /\ n.step = "devices"
    BY <1>1 DEF Job
  <1>8. Key(n) = key /\ Holds(n)
    BY <1>2, <1>7 DEF Key, Holds
  <1>9. TypeOK'
    <2>1. jobs' \in [Jobs -> {NoJob} \cup Job]
      BY <1>6, <1>7 DEF DInv, TypeOK
    <2>2. DOMAIN center' \subseteq Deliveries
      BY <1>2, <1>5 DEF DInv, TypeOK
    <2>. QED
      BY <1>3, <1>5, <2>1, <2>2 DEF DInv, TypeOK, settings, shop, registry
  <1>10. JobDue(n)'
    <2>1. JobDue(n)
      BY <1>1, <1>7, JobIsNotNoJob DEF JobDue, Serving, worth, Holds
    <2>. QED
      BY <1>3, <2>1 DEF JobDue, InReach
  <1>11. JobFirst(n)'
    BY <1>2, <1>3, <1>7, <1>8 DEF JobFirst
  <1>12. Untouched(j, n)
    <2>1. \A i \in Jobs \ {j} : Holds(jobs[i]) => Key(jobs[i]) # key
      BY <1>1 DEF DInv, HeldOnce
    <2>. QED
      BY <1>3, <1>5, <1>8, <2>1 DEF Untouched
  <1>13. JobsInv' /\ HeldOnce'
    BY <1>3, <1>5, <1>6, <1>7, <1>8, <1>10, <1>11, <1>12, OneJobMoves DEF DInv
  <1>14. StoredOnce'
    BY <1>2, <1>3, <1>5 DEF DInv, StoredOnce
  <1>15. PushedOnce' /\ WantsAsked'
    BY <1>3 DEF DInv, PushedOnce, WantsAsked
  <1>16. DeliveriesAreDue'
    <2>1. \A i \in Jobs \ {j} : jobs'[i] = jobs[i]
      BY <1>6 DEF DInv, TypeOK
    <2>2. ASSUME NEW k \in deliveries, k[2] # "recommendation"
          PROVE  k \in DOMAIN center' \cup lost
                 \/ \E i \in Jobs : jobs'[i].step = "create" /\ Key(jobs'[i]) = k
      <3>1. CASE k \in DOMAIN center \cup lost
        BY <1>5, <3>1
      <3>2. CASE \E i \in Jobs : jobs[i].step = "create" /\ Key(jobs[i]) = k
        BY <1>5, <2>1, <3>2
      <3>. QED
        BY <2>2, <3>1, <3>2 DEF DInv, DeliveriesAreDue
    <2>3. \A i : Key(jobs'[i]) = Key(jobs[i])'
      BY DEF Key
    <2>. QED
      BY <1>3, <2>2, <2>3 DEF DInv, DeliveriesAreDue
  <1>. QED
    BY <1>9, <1>13, <1>14, <1>15, <1>16 DEF DInv

\* What a step that writes nothing but the devices leaves of the types to show.
LEMMA DeviceTypes ==
    ASSUME TypeOK, NEW j \in Jobs, NEW n \in {NoJob} \cup Job, jobs' = [jobs EXCEPT ![j] = n],
           devices' \in [DOMAIN devices' -> Device], DOMAIN devices' \subseteq Tokens,
           UNCHANGED <<settings, shop, sent, registered, started>>
    PROVE  TypeOK'
  <1>1. jobs' \in [Jobs -> {NoJob} \cup Job]
    BY DEF TypeOK
  <1>. QED
    BY <1>1 DEF TypeOK, settings, shop, sent

\* The devices of the subscriber are read once, or not at all.
LEMMA ReadDevicesStep ==
    ASSUME DInv, NEW j \in Jobs, read_devices(j)
    PROVE  DInv'
  <1>1. Holds(jobs[j]) /\ jobs[j].step = "devices"
    BY DEF read_devices, Holds
  <1>2. PICK to \in SUBSET Tokens : Pushes(j, to)
    <2>1. {t \in DOMAIN devices : devices[t].user = jobs[j].user /\ devices[t].enabled}
             \in SUBSET Tokens
      BY DEF DInv, TypeOK
    <2>. QED
      BY <2>1 DEF read_devices
  <1>3. PICK n : Follows(n, jobs[j]) /\ jobs' = [jobs EXCEPT ![j] = n]
    BY <1>1, <1>2, PushesFacts DEF DInv
  <1>4. TypeOK'
    BY <1>3, JobTypes DEF read_devices, DInv, Follows
  <1>. QED
    BY <1>1, <1>2, <1>4, PushesOn DEF read_devices

\* A push to a device is tried once: whether it arrives or not, the device is left out then.
LEMMA SendStep ==
    ASSUME DInv, NEW j \in Jobs, NEW t \in Tokens, send(j, t)
    PROVE  DInv'
  <1>. PICK job : job = jobs[j]
    OBVIOUS
  <1>1. job \in Job /\ JobFirst(job) /\ job.step = "send" /\ Holds(job) /\ t \in job.to
    BY JobFacts DEF send, DInv, JobsInv, Holds
  <1>2. job.to \in SUBSET Tokens /\ job.to \ {t} \in SUBSET Tokens
    BY <1>1 DEF Job
  <1>. PICK to \in SUBSET Tokens : to = job.to \ {t}
    BY <1>2
  <1>3. UNCHANGED <<deliveries, center, lost, settings, shop, registry, started>>
    BY DEF send
  <1>4. CASE UNCHANGED pushed /\ Pushes(j, to)
    <2>1. UNCHANGED sent
      BY <1>3, <1>4 DEF sent
    <2>2. PICK n : Follows(n, jobs[j]) /\ jobs' = [jobs EXCEPT ![j] = n]
      BY <1>1, <1>4, PushesFacts DEF DInv
    <2>3. TypeOK'
      BY <1>3, <2>1, <2>2, JobTypes DEF DInv, Follows
    <2>. QED
      BY <1>1, <1>3, <1>4, <2>1, <2>3, PushesOn
  <1>5. CASE /\ UNCHANGED pushed
             /\ Goes(j, [job EXCEPT !.step = "disable", !.to = @ \ {t}, !.dead = t])
    <2>. PICK n : n = [job EXCEPT !.step = "disable", !.to = @ \ {t}, !.dead = t]
      OBVIOUS
    <2>1. UNCHANGED sent
      BY <1>3, <1>5 DEF sent
    <2>2. jobs' = [jobs EXCEPT ![j] = n]
      BY <1>5 DEF Goes
    <2>3. /\ n \in Job /\ n.kind = job.kind /\ n.window = job.window /\ n.news = job.news
          /\ n.user = job.user /\ n.step = "disable" /\ n.to = to
      BY <1>1, <1>2 DEF Job
    <2>4. Follows(n, jobs[j]) /\ Holds(n) /\ n.to \subseteq job.to
      BY <2>3 DEF Follows, Holds
    <2>5. JobDue(n) /\ JobFirst(n)
      BY <1>1, <2>3, <2>4, GoesOn
    <2>6. Quiet(j, n)
      BY <1>1, <1>3, <2>1, <2>2, <2>4, <2>5, SamePlace DEF Quiet
    <2>7. TypeOK'
      BY <1>3, <2>1, <2>2, <2>3, JobTypes DEF DInv
    <2>. QED
      BY <2>3, <2>6, <2>7, QuietMove
  <1>6. CASE pushed' = More(pushed, <<Key(job), t>>) /\ Pushes(j, to)
    <2>. PICK p : p = <<Key(job), t>>
      OBVIOUS
    <2>1. p \notin DOMAIN pushed /\ p[1] \in deliveries /\ p \in Deliveries \X Tokens
      <3>1. Key(job) \in deliveries /\ deliveries \subseteq Deliveries
        BY <1>1 DEF JobFirst, DInv, TypeOK
      <3>. QED
        BY <1>1, <3>1 DEF JobFirst
    <2>2. /\ DOMAIN pushed' = DOMAIN pushed \cup {p}
          /\ pushed' \in [DOMAIN pushed' -> Nat]
          /\ \A q \in DOMAIN pushed : pushed'[q] = pushed[q]
          /\ pushed'[p] = 1
      <3>1. pushed \in [DOMAIN pushed -> Nat] /\ pushed' = More(pushed, p)
        BY <1>6 DEF DInv, TypeOK
      <3>2. /\ DOMAIN More(pushed, p) = DOMAIN pushed \cup {p}
            /\ More(pushed, p) \in [DOMAIN More(pushed, p) -> Nat]
            /\ \A k \in DOMAIN pushed : k # p => More(pushed, p)[k] = pushed[k]
            /\ p \notin DOMAIN pushed => More(pushed, p)[p] = 1
        BY <3>1, MoreFacts
      <3>. QED
        BY <2>1, <3>1, <3>2
    <2>3. PICK n : /\ Follows(n, jobs[j])
                   /\ jobs' = [jobs EXCEPT ![j] = n]
                   /\ n.to = to /\ n.step \in {"next", "send"}
      BY <1>1, <1>6, PushesFacts DEF DInv
    <2>4. n \in Job /\ (Holds(n) => Key(n) = Key(job))
      BY <2>3, SamePlace DEF Follows
    <2>5. /\ UNCHANGED <<preferences, edits, asked, day, published, news>>
          /\ UNCHANGED <<deliveries, center, lost>>
      BY <1>3 DEF settings, shop
    <2>6. TypeOK'
      <3>1. jobs' \in [Jobs -> {NoJob} \cup Job]
        BY <2>3, <2>4 DEF DInv, TypeOK
      <3>2. DOMAIN pushed' \subseteq Deliveries \X Tokens
        BY <2>1, <2>2 DEF DInv, TypeOK
      <3>. QED
        BY <1>3, <2>2, <3>1, <3>2 DEF DInv, TypeOK, settings, shop, registry
    <2>7. JobDue(n) /\ JobFirst(n)
      BY <1>1, <2>3, GoesOn
    <2>8. JobDue(n)'
      BY <2>5, <2>7 DEF JobDue, InReach
    <2>9. JobFirst(n)'
      <3>1. ASSUME Holds(n), NEW s \in Tokens, <<Key(n), s>> \in DOMAIN pushed'
            PROVE  s \notin n.to
        <4>1. CASE <<Key(n), s>> = p
          BY <2>3, <4>1
        <4>2. CASE <<Key(n), s>> \in DOMAIN pushed
          BY <2>7, <3>1, <4>2 DEF JobFirst
        <4>. QED
          BY <2>2, <3>1, <4>1, <4>2
      <3>2. Holds(n) => n.step = "send"
        BY <2>3 DEF Holds
      <3>3. Holds(n) => Key(n) \in deliveries
        BY <2>7 DEF JobFirst
      <3>. QED
        BY <2>5, <3>1, <3>2, <3>3 DEF JobFirst
    <2>10. Untouched(j, n)
      <3>1. \A i \in Jobs \ {j} : Holds(jobs[i]) => Key(jobs[i]) # Key(job)
        BY <1>1 DEF DInv, HeldOnce
      <3>. QED
        BY <2>2, <2>4, <2>5, <3>1 DEF Untouched
    <2>11. JobsInv' /\ HeldOnce'
      BY <2>3, <2>4, <2>5, <2>8, <2>9, <2>10, OneJobMoves DEF DInv
    <2>12. PushedOnce'
      BY <2>1, <2>2, <2>5 DEF DInv, PushedOnce
    <2>13. StoredOnce' /\ WantsAsked'
      BY <2>5 DEF DInv, StoredOnce, WantsAsked
    <2>14. DeliveriesAreDue'
      <3>1. \A i \in Jobs : jobs[i].step = "create" => jobs'[i] = jobs[i]
        BY <1>1, <2>3 DEF DInv, TypeOK
      <3>. QED
        BY <2>5, <3>1 DEF DInv, DeliveriesAreDue
    <2>. QED
      BY <2>6, <2>11, <2>12, <2>13, <2>14 DEF DInv
  <1>. QED
    BY <1>4, <1>5, <1>6 DEF send

\* A token that is over for good is disabled, or that fails; the job goes on.
LEMMA DisableStep ==
    ASSUME DInv, NEW j \in Jobs, disable(j)
    PROVE  DInv'
  <1>. PICK to : to = jobs[j].to
    OBVIOUS
  <1>1. Holds(jobs[j]) /\ jobs[j].step = "disable" /\ to \in SUBSET Tokens
    BY JobFacts DEF disable, Holds, DInv, Job
  <1>2. PICK n : Follows(n, jobs[j]) /\ jobs' = [jobs EXCEPT ![j] = n]
    BY <1>1, PushesFacts DEF disable, DInv
  <1>3. devices' \in [DOMAIN devices' -> Device] /\ DOMAIN devices' \subseteq Tokens
    <2>. PICK t : t = jobs[j].dead
      OBVIOUS
    <2>1. ASSUME t \in DOMAIN devices
          PROVE  [devices EXCEPT ![t].enabled = FALSE] \in [DOMAIN devices -> Device]
      BY <2>1 DEF DInv, TypeOK, Device
    <2>2. /\ devices' \in [DOMAIN devices -> Device]
      BY <2>1 DEF disable, disabled, DInv, TypeOK
    <2>. QED
      BY <2>2 DEF DInv, TypeOK
  <1>4. UNCHANGED <<settings, shop, sent, registered, started>>
    BY DEF disable
  <1>5. TypeOK'
    BY <1>2, <1>3, <1>4, DeviceTypes DEF DInv, Follows
  <1>6. Pushes(j, to)
    BY DEF disable
  <1>. QED
    BY <1>1, <1>4, <1>5, <1>6, PushesOn

\* A job that stops before it stores its notification leaves it in lost.
LEMMA FailsStep ==
    ASSUME DInv, NEW j \in Jobs, fails(j)
    PROVE  DInv'
  <1>1. /\ UNCHANGED <<deliveries, center, pushed, settings, shop, registry, started>>
        /\ jobs' = [jobs EXCEPT ![j] = NoJob]
    BY DEF fails, Goes
  <1>2. CASE jobs[j].step # "create"
    <2>1. UNCHANGED sent
      BY <1>1, <1>2 DEF fails, sent
    <2>. QED
      BY <1>1, <1>2, <2>1, Leaves
  <1>3. CASE jobs[j].step = "create"
    <2>1. lost' = lost \cup {Key(jobs[j])}
      BY <1>3 DEF fails
    <2>2. Key(jobs[j]) \in deliveries
      BY <1>3 DEF DInv, JobsInv, JobFirst, Holds
    <2>3. UNCHANGED <<preferences, edits, asked, day, published, news>>
      BY <1>1 DEF settings, shop
    <2>4. TypeOK'
      <3>1. jobs' \in [Jobs -> {NoJob} \cup Job]
        BY <1>1 DEF DInv, TypeOK
      <3>2. lost' \subseteq deliveries'
        BY <1>1, <2>1, <2>2 DEF DInv, TypeOK
      <3>. QED
        BY <1>1, <3>1, <3>2 DEF DInv, TypeOK, settings, shop, registry
    <2>5. JobDue(NoJob)' /\ JobFirst(NoJob)' /\ ~Holds(NoJob)
      BY DEF JobDue, JobFirst, Serving, Holds, NoJob
    <2>6. Untouched(j, NoJob)
      BY <1>1, <2>5 DEF Untouched
    <2>7. JobsInv' /\ HeldOnce'
      BY <1>1, <2>3, <2>5, <2>6, OneJobMoves DEF DInv
    <2>8. StoredOnce' /\ PushedOnce' /\ WantsAsked'
      BY <1>1, <2>3 DEF DInv, StoredOnce, PushedOnce, WantsAsked
    <2>9. DeliveriesAreDue'
      <3>1. \A i \in Jobs \ {j} : jobs'[i] = jobs[i]
        BY <1>1 DEF DInv, TypeOK
      <3>2. ASSUME NEW k \in deliveries, k[2] # "recommendation"
            PROVE  k \in DOMAIN center \cup lost'
                   \/ \E i \in Jobs : jobs'[i].step = "create" /\ Key(jobs'[i]) = k
        <4>1. CASE k \in DOMAIN center \cup lost
          BY <2>1, <4>1
        <4>2. CASE \E i \in Jobs : jobs[i].step = "create" /\ Key(jobs[i]) = k
          BY <2>1, <3>1, <4>2
        <4>. QED
          BY <3>2, <4>1, <4>2 DEF DInv, DeliveriesAreDue
      <3>3. \A i : Key(jobs'[i]) = Key(jobs[i])'
        BY DEF Key
      <3>. QED
        BY <1>1, <2>3, <3>2, <3>3 DEF DInv, DeliveriesAreDue
    <2>. QED
      BY <2>4, <2>7, <2>8, <2>9 DEF DInv
  <1>. QED
    BY <1>2, <1>3

----------------------------------------------------------------------------
(***************************************************************************)
(* The shop, the settings and the devices                                  *)
(***************************************************************************)

\* What is said of the jobs and of what they sent does not depend on the shop's mirrors
\* that are gone, nor on the day; what users asked for and what was news only grows.
LEMMA OthersMove ==
    ASSUME DInv, TypeOK', WantsAsked', UNCHANGED <<jobs, deliveries, center, pushed, lost>>,
           asked \subseteq asked', news \subseteq news'
    PROVE  DInv'
  <1>1. ASSUME NEW j \in Jobs
        PROVE  JobDue(jobs[j])' /\ JobFirst(jobs[j])'
    <2>. PICK job : job = jobs[j]
      OBVIOUS
    <2>1. JobDue(job) /\ JobFirst(job) /\ jobs'[j] = job
      BY DEF DInv, JobsInv
    <2>2. JobDue(job)'
      BY <2>1 DEF JobDue, InReach
    <2>3. JobFirst(job)'
      BY <2>1 DEF JobFirst
    <2>. QED
      BY <2>1, <2>2, <2>3
  <1>2. JobsInv' /\ HeldOnce'
    BY <1>1 DEF JobsInv, DInv, HeldOnce
  <1>3. StoredOnce' /\ PushedOnce'
    BY DEF DInv, StoredOnce, PushedOnce
  <1>4. DeliveriesAreDue'
    BY DEF DInv, DeliveriesAreDue
  <1>. QED
    BY <1>2, <1>3, <1>4 DEF DInv

LEMMA ShopStep ==
    ASSUME DInv, publish \/ midnight \/ (\E d \in 0..MaxDay : withdraw(d))
    PROVE  DInv'
  <1>1. UNCHANGED <<settings, sent, registry, jobs, started>> /\ news \subseteq news'
    BY DEF publish, midnight, withdraw
  <1>2. TypeOK'
    <2>1. day' \in 0..MaxDay /\ published' \subseteq news' /\ news' \subseteq 0..day'
      BY DigestAssumption DEF DInv, TypeOK, publish, midnight, withdraw
    <2>. QED
      BY <1>1, <2>1 DEF DInv, TypeOK, settings, sent, registry
  <1>3. WantsAsked'
    BY <1>1 DEF DInv, WantsAsked, settings
  <1>. QED
    BY <1>1, <1>2, <1>3, OthersMove DEF settings, sent

\* A request asks for what it turns on; what else it will save is wanted when it reads.
LEMMA UpdateStep ==
    ASSUME DInv, NEW e \in Edits, NEW u \in Users, update(e, u)
    PROVE  DInv'
  <1>1. UNCHANGED <<preferences, shop, sent, registry, jobs, started>>
    BY DEF update
  <1>2. preferences[u] \in Preferences
    BY DEF DInv, TypeOK
  <1>3. PICK p \in Preferences :
           /\ edits' = [edits EXCEPT ![e] = [user |-> u, to |-> p]]
           /\ asked \subseteq asked' /\ asked' \subseteq Users \X Kinds
           /\ \A k \in Kinds : Wants(p, k) => <<u, k>> \in asked'
    <2>0. \A k \in Kinds : Wants(preferences[u], k) => <<u, k>> \in asked
      BY DEF DInv, WantsAsked
    <2>1. ASSUME NEW f \in {"off", "daily", "weekly"},
                 edits' = [edits EXCEPT ![e] =
                            [user |-> u, to |-> [preferences[u] EXCEPT !.digest = f]]],
                 asked' = asked \cup {<<u, k>> : k \in {x \in Kinds \ {"recommendation"} :
                                                Wants([digest |-> f], x)}}
          PROVE  \E p \in Preferences :
                    /\ edits' = [edits EXCEPT ![e] = [user |-> u, to |-> p]]
                    /\ asked \subseteq asked' /\ asked' \subseteq Users \X Kinds
                    /\ \A k \in Kinds : Wants(p, k) => <<u, k>> \in asked'
      <3>. PICK p : p = [preferences[u] EXCEPT !.digest = f]
        OBVIOUS
      <3>1. p \in Preferences /\ p.digest = f /\ p.recommendation = preferences[u].recommendation
        BY <1>2 DEF Preferences
      <3>2. asked \subseteq asked' /\ asked' \subseteq Users \X Kinds
        BY <2>1 DEF DInv, TypeOK
      <3>3. \A k \in Kinds : Wants(p, k) => <<u, k>> \in asked'
        <4>1. Wants(p, "recommendation") => <<u, "recommendation">> \in asked'
          BY <2>0, <3>1, <3>2 DEF Wants, Kinds
        <4>2. \A k \in Kinds \ {"recommendation"} : Wants(p, k) => Wants([digest |-> f], k)
          BY <3>1 DEF Wants, Kinds
        <4>3. \A k \in Kinds \ {"recommendation"} : Wants(p, k) => <<u, k>> \in asked'
          BY <2>1, <4>2
        <4>. QED
          BY <4>1, <4>3
      <3>. QED
        BY <2>1, <3>1, <3>2, <3>3
    <2>2. ASSUME NEW b \in BOOLEAN,
                 edits' = [edits EXCEPT ![e] =
                            [user |-> u, to |-> [preferences[u] EXCEPT !.recommendation = b]]],
                 asked' = IF b THEN asked \cup {<<u, "recommendation">>} ELSE asked
          PROVE  \E p \in Preferences :
                    /\ edits' = [edits EXCEPT ![e] = [user |-> u, to |-> p]]
                    /\ asked \subseteq asked' /\ asked' \subseteq Users \X Kinds
                    /\ \A k \in Kinds : Wants(p, k) => <<u, k>> \in asked'
      <3>. PICK p : p = [preferences[u] EXCEPT !.recommendation = b]
        OBVIOUS
      <3>1. p \in Preferences /\ p.digest = preferences[u].digest /\ p.recommendation = b
        BY <1>2 DEF Preferences
      <3>2. asked \subseteq asked' /\ asked' \subseteq Users \X Kinds
        BY <2>2 DEF DInv, TypeOK, Kinds
      <3>3. \A k \in Kinds : Wants(p, k) => <<u, k>> \in asked'
        <4>1. Wants(p, "recommendation") => <<u, "recommendation">> \in asked'
          BY <2>2, <3>1 DEF Wants
        <4>2. \A k \in Kinds \ {"recommendation"} : Wants(p, k) => Wants(preferences[u], k)
          BY <3>1 DEF Wants, Kinds
        <4>. QED
          BY <2>0, <3>2, <4>1, <4>2
      <3>. QED
        BY <2>2, <3>1, <3>2, <3>3
    <2>. QED
      BY <2>1, <2>2 DEF update
  <1>4. TypeOK'
    <2>1. edits' \in [Edits -> {None} \cup [user: Users, to: Preferences]]
      BY <1>3 DEF DInv, TypeOK
    <2>2. edited' \in 0..MaxEdits
      BY DigestAssumption DEF update, DInv, TypeOK
    <2>. QED
      BY <1>1, <1>3, <2>1, <2>2 DEF DInv, TypeOK, shop, sent, registry
  <1>5. WantsAsked'
    <2>1. edits'[e].user = u /\ edits'[e].to = p /\ \A x \in Edits \ {e} : edits'[x] = edits[x]
      BY <1>3 DEF DInv, TypeOK
    <2>2. ASSUME NEW x \in Edits, edits'[x] # None, NEW k \in Kinds, Wants(edits'[x].to, k)
          PROVE  <<edits'[x].user, k>> \in asked'
      BY <1>3, <2>1, <2>2 DEF DInv, WantsAsked
    <2>3. \A v \in Users, k \in Kinds : Wants(preferences'[v], k) => <<v, k>> \in asked'
      BY <1>1, <1>3 DEF DInv, WantsAsked
    <2>4. \A q, k : Wants(q, k)' <=> Wants(q, k)
      BY DEF Wants
    <2>. QED
      BY <2>2, <2>3 DEF WantsAsked, Wants
  <1>. QED
    BY <1>1, <1>3, <1>4, <1>5, OthersMove DEF shop, sent

\* What a request saves was wanted when it read, or asked for by it.
LEMMA SaveStep ==
    ASSUME DInv, NEW e \in Edits, save(e)
    PROVE  DInv'
  <1>1. UNCHANGED <<edited, asked, shop, sent, registry, jobs, started>>
    BY DEF save
  <1>2. PICK u \in Users, p \in Preferences : edits[e].user = u /\ edits[e].to = p
    BY DEF save, DInv, TypeOK
  <1>3. /\ preferences' = [preferences EXCEPT ![u] = p]
        /\ edits' = [edits EXCEPT ![e] = None]
        /\ \A k \in Kinds : Wants(p, k) => <<u, k>> \in asked
    BY <1>2 DEF save, DInv, WantsAsked
  <1>4. TypeOK'
    <2>1. preferences' \in [Users -> Preferences]
      BY <1>2, <1>3 DEF DInv, TypeOK
    <2>2. edits' \in [Edits -> {None} \cup [user: Users, to: Preferences]]
      BY <1>3 DEF DInv, TypeOK
    <2>. QED
      BY <1>1, <2>1, <2>2 DEF DInv, TypeOK, shop, sent, registry
  <1>5. WantsAsked'
    <2>1. preferences'[u] = p /\ \A v \in Users \ {u} : preferences'[v] = preferences[v]
      BY <1>3 DEF DInv, TypeOK
    <2>2. edits'[e] = None /\ \A x \in Edits \ {e} : edits'[x] = edits[x]
      BY <1>3 DEF DInv, TypeOK
    <2>3. \A v \in Users, k \in Kinds : Wants(preferences'[v], k) => <<v, k>> \in asked
      BY <1>3, <2>1 DEF DInv, WantsAsked
    <2>4. \A x \in Edits : edits'[x] # None =>
             \A k \in Kinds : Wants(edits'[x].to, k) => <<edits'[x].user, k>> \in asked
      BY <2>2 DEF DInv, WantsAsked
    <2>. QED
      BY <1>1, <2>3, <2>4 DEF WantsAsked, Wants
  <1>. QED
    BY <1>1, <1>4, <1>5, OthersMove DEF shop, sent

LEMMA RegistryStep ==
    ASSUME DInv, NEW t \in Tokens, NEW u \in Users, register(t, u) \/ unregister(t, u)
    PROVE  DInv'
  <1>1. UNCHANGED <<settings, shop, sent, jobs, started>>
    BY DEF register, unregister
  <1>2. devices' \in [DOMAIN devices' -> Device] /\ DOMAIN devices' \subseteq Tokens
    <2>1. devices \in [DOMAIN devices -> Device] /\ DOMAIN devices \subseteq Tokens
      BY DEF DInv, TypeOK
    <2>2. CASE register(t, u)
      <3>. PICK doc \in Device : doc = [user |-> u, enabled |-> TRUE]
        BY DEF Device
      <3>1. devices' = [k \in DOMAIN devices \cup {t} |-> IF k = t THEN doc ELSE devices[k]]
        BY <2>2 DEF register, Put
      <3>. QED
        BY <2>1, <3>1
    <2>3. CASE unregister(t, u)
      <3>1. devices' = [k \in DOMAIN devices \ {t} |-> devices[k]]
        BY <2>3 DEF unregister, Restrict
      <3>. QED
        BY <2>1, <3>1
    <2>. QED
      BY <2>2, <2>3
  <1>3. registered' \in 0..MaxRegistrations
    BY DigestAssumption DEF register, unregister, DInv, TypeOK
  <1>4. TypeOK'
    BY <1>1, <1>2, <1>3 DEF DInv, TypeOK, settings, shop, sent
  <1>5. WantsAsked'
    BY <1>1 DEF DInv, WantsAsked, settings
  <1>. QED
    BY <1>1, <1>4, <1>5, OthersMove DEF settings, shop, sent

----------------------------------------------------------------------------
(***************************************************************************)
(* The inductive invariant                                                 *)
(***************************************************************************)

LEMMA InitDInv == Init => DInv
  <1>. SUFFICES ASSUME Init
       PROVE  DInv
    OBVIOUS
  <1>1. TypeOK
    <2>1. center \in [DOMAIN center -> Nat] /\ DOMAIN center = {}
      BY DEF Init
    <2>2. pushed \in [DOMAIN pushed -> Nat] /\ DOMAIN pushed = {}
      BY DEF Init
    <2>3. devices \in [DOMAIN devices -> Device] /\ DOMAIN devices \subseteq Tokens
      BY DEF Init, Device
    <2>4. preferences \in [Users -> Preferences]
      BY DEF Init, Default, Preferences
    <2>5. /\ day \in 0..MaxDay /\ published \subseteq news /\ news \subseteq 0..day
          /\ started \in 0..MaxJobs /\ edited \in 0..MaxEdits
          /\ registered \in 0..MaxRegistrations
      BY DigestAssumption DEF Init
    <2>. QED
      BY <2>1, <2>2, <2>3, <2>4, <2>5 DEF Init, TypeOK
  <1>2. JobsInv /\ HeldOnce
    BY DEF Init, JobsInv, JobDue, JobFirst, HeldOnce, Serving, Holds, NoJob
  <1>3. StoredOnce /\ PushedOnce /\ DeliveriesAreDue
    BY DEF Init, StoredOnce, PushedOnce, DeliveriesAreDue
  <1>4. WantsAsked
    BY DEF Init, WantsAsked, Wants, Default, Kinds
  <1>. QED
    BY <1>1, <1>2, <1>3, <1>4 DEF DInv

LEMMA NextDInv ==
    ASSUME DInv, [Next]_vars
    PROVE  DInv'
  <1>1. ASSUME NEW j \in Jobs, Runs(j)
        PROVE  DInv'
    <2>1. CASE ends(j)
      BY <2>1, Leaves DEF ends, Goes
    <2>. QED
      BY <1>1, <2>1, RunStep, ConsiderStep, ClaimStep, CreateStep, ReadDevicesStep, SendStep,
         DisableStep, FailsStep DEF Runs
  <1>2. CASE UNCHANGED vars
    <2>1. UNCHANGED <<settings, shop, sent, registry, jobs, started>>
      BY <1>2 DEF vars
    <2>2. TypeOK' /\ WantsAsked'
      BY <2>1 DEF DInv, TypeOK, WantsAsked, settings, shop, sent, registry
    <2>. QED
      BY <2>1, <2>2, OthersMove DEF settings, shop, sent
  <1>. QED
    BY <1>1, <1>2, ShopStep, UpdateStep, SaveStep, RegistryStep DEF Next

----------------------------------------------------------------------------
(***************************************************************************)
(* Theorems                                                                *)
(***************************************************************************)

\* The inductive invariant holds in every reachable state.
THEOREM SpecDInv == Spec => []DInv
  BY InitDInv, NextDInv, PTL DEF Spec

\* The documents of the digest are always well-formed.
THEOREM SpecTypeOK == Spec => []TypeOK
  <1>1. DInv => TypeOK
    BY DEF DInv
  <1>. QED
    BY <1>1, SpecDInv, PTL

\* Jobs that overlap, are called again and stop anywhere tell a user once in a window.
THEOREM SpecToldOnce == Spec => []ToldOnce
  <1>1. DInv => ToldOnce
    BY DEF DInv, StoredOnce, PushedOnce, ToldOnce
  <1>. QED
    BY <1>1, SpecDInv, PTL

\* A place is taken only for a user who asked and for news there was, and its notification
\* is stored unless the job stopped just then.
THEOREM SpecDeliveriesAreDue == Spec => []DeliveriesAreDue
  <1>1. DInv => DeliveriesAreDue
    BY DEF DInv
  <1>. QED
    BY <1>1, SpecDInv, PTL

=============================================================================
