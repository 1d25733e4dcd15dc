------------------------------ MODULE Histories ------------------------------
(***************************************************************************)
(* What the histories of the program keep of their samples: resources      *)
(* (src/historyStore.ts), applications (src/applicationImpactHistory.ts),  *)
(* network quality (src/networkQualityHistory.ts), connections             *)
(* (src/connectionHistory.ts) and watch events                             *)
(* (src/applicationWatchHistory.ts), and how they are shown                *)
(* (src/timeSeries.ts).  Each is a function of the samples; the log of     *)
(* all samples is kept here to compare with.                               *)
(* An average is kept as a total and a count.                              *)
(*                                                                         *)
(* A sixth one is the record of what the user did                          *)
(* (src/userActionHistory.ts and src/hooks/useUserActionHistory.ts): the   *)
(* records of the session, those that are kept, and what a restart makes   *)
(* of them.  The file behind the kept ones is that of NativeHistory; here  *)
(* it is what was written last, which a restart finds.                     *)
(*                                                                         *)
(* A behaviour is about one of the six.                                    *)
(***************************************************************************)
EXTENDS Integers, Sequences, FiniteSets, FiniteSetsExt, SequencesExt, TLC

CONSTANTS
  Bucket,      \* the ticks of a bucket
  Retention,   \* the ticks that a history keeps
  Limit,       \* the most entries of a history that has a limit
  MaxSamples,  \* bound of the model: samples taken
  RecordRetention,  \* the ticks that the record of actions keeps
  MaxActs      \* bound of the model: actions begun, restarts and changes of the settings

VARIABLE s

Apps == {1, 2, 3}
BucketOf(t) == t \div Bucket
Larger(a, b) == IF a >= b THEN a ELSE b

\* The Limit best of a set, by a strict order.
Best(set, Before(_, _)) == {x \in set : Cardinality({y \in set : Before(y, x)}) < Limit}

\* Two sets of records with one record for each key, merged key by key.
Combine(left, right, Key(_), Merge(_, _)) ==
  {x \in left : \A y \in right : Key(y) # Key(x)} \cup {y \in right : \A x \in left : Key(x) # Key(y)}
  \cup {Merge(p[1], p[2]) : p \in {q \in left \X right : Key(q[1]) = Key(q[2])}}

----------------------------------------------------------------------------
(* Resources: the latest point of each bucket.                             *)

MergeResources(stored, incoming, now) ==
  LET usable == {p \in stored \cup incoming : p.at >= now - Retention /\ p.at <= now}
  IN {p \in usable : \A q \in usable : BucketOf(q.at) = BucketOf(p.at) => q.at <= p.at}

----------------------------------------------------------------------------
(* Applications: a point for each bucket, with the heaviest applications.  *)

EntryFromApplication(app, cpu) == [app |-> app, n |-> 1, total |-> Larger(0, cpu), peak |-> Larger(0, cpu)]
MergeEntries(p, q) == [p EXCEPT !.n = @ + q.n, !.total = @ + q.total, !.peak = Larger(@, q.peak)]
Heavier(p, q) == p.peak > q.peak \/ (p.peak = q.peak /\ p.app < q.app)
RankEntries(entries) == Best(entries, Heavier)
AppOf(e) == e.app
CombineEntries(left, right) == RankEntries(Combine(left, right, AppOf, MergeEntries))

MergePoint(point, entries, at) ==
  [point EXCEPT !.at = Larger(@, at), !.n = @ + 1, !.apps = CombineEntries(@, entries)]

MergeApplications(current, sample, at) ==
  LET recent == {p \in current : p.at >= at - Retention}
      entries == {EntryFromApplication(app, sample[app]) : app \in DOMAIN sample}
      same == {p \in recent : p.bucket = BucketOf(at)}
  IN (recent \ same) \cup
     (IF same = {} THEN {[bucket |-> BucketOf(at), at |-> at, n |-> 1, apps |-> RankEntries(entries)]}
      ELSE {MergePoint(p, entries, at) : p \in same})

\* Buckets of the display: points of one are merged in their order.
MergeDisplayPoints(left, right, bucket) ==
  [bucket |-> bucket, at |-> Larger(left.at, right.at), n |-> left.n + right.n,
   apps |-> CombineEntries(left.apps, right.apps)]

FoldPoints(points, bucket, Merge(_, _, _)) ==
  LET ordered == SetToSortSeq(points, LAMBDA p, q : p.at < q.at)
  IN FoldLeft(LAMBDA p, q : Merge(p, q, bucket), [Head(ordered) EXCEPT !.bucket = bucket], Tail(ordered))

ForDisplay(points, ticks, Merge(_, _, _)) ==
  {FoldPoints({p \in points : p.at \div ticks = b}, b, Merge) : b \in {p.at \div ticks : p \in points}}

ApplicationsForDisplay(points, ticks) == ForDisplay(points, ticks, MergeDisplayPoints)

Summarize(points) ==
  LET entries(app) == {e \in UNION {p.apps : p \in points} : e.app = app}
  IN RankEntries({[app |-> app,
                   n |-> MapThenSumSet(LAMBDA p : MapThenSumSet(LAMBDA e : e.n, {e \in p.apps : e.app = app}), points),
                   total |-> MapThenSumSet(LAMBDA p : MapThenSumSet(LAMBDA e : e.total, {e \in p.apps : e.app = app}), points),
                   peak |-> Max({e.peak : e \in entries(app)})] : app \in {a \in Apps : entries(a) # {}}})

----------------------------------------------------------------------------
(* Network quality: a point for each bucket, with the events in it.        *)
(* A status is 0 (online), 1 (limited) or 2 (offline); a latency that was  *)
(* not measured is -1; a signature that is not known is 0.                 *)

LatencyOf(sample) == IF sample.latency < 0 THEN [n |-> 0, total |-> 0] ELSE [n |-> 1, total |-> sample.latency]
WeightedAverage(a, b) == [n |-> a.n + b.n, total |-> a.total + b.total]

DeriveEvents(previous, sample, at) ==
  LET event(kind) == [kind |-> kind, at |-> at, status |-> IF kind = "status_change" THEN sample.status ELSE -1]
  IN (IF previous = {} THEN {}
      ELSE LET p == CHOOSE q \in previous : TRUE
           IN (IF at - p.at > Bucket + 1 THEN {event("sleep_gap")} ELSE {})
              \cup (IF p.network # 0 /\ sample.network # 0 /\ p.network # sample.network
                    THEN {event("interface_change")} ELSE {})
              \cup (IF p.status # sample.status THEN {event("status_change")} ELSE {}))
     \cup (IF sample.dns # "passed" /\ \A p \in previous : p.dns # sample.dns THEN {event("dns_failure")} ELSE {})

PointFromSample(sample, at, events) ==
  [bucket |-> BucketOf(at), at |-> at, n |-> 1, status |-> sample.status, latency |-> LatencyOf(sample),
   events |-> events, network |-> sample.network, dns |-> sample.dns]

MergeBucket(p, sample, at, events) ==
  [p EXCEPT !.at = Larger(@, at), !.n = @ + 1, !.status = Larger(@, sample.status),
            !.latency = WeightedAverage(@, LatencyOf(sample)), !.events = @ \cup events,
            !.network = IF sample.network = 0 THEN @ ELSE sample.network, !.dns = sample.dns]

MergeQuality(current, sample, at) ==
  LET recent == {p \in current : p.at >= at - Retention}
      latest == {p \in recent : \A q \in recent : q.at <= p.at}
      events == DeriveEvents(latest, sample, at)
      same == {p \in recent : p.bucket = BucketOf(at)}
  IN (recent \ same) \cup (IF same = {} THEN {PointFromSample(sample, at, events)}
                           ELSE {MergeBucket(p, sample, at, events) : p \in same})

MergeHistoryPoints(left, right, bucket) ==
  [left EXCEPT !.bucket = bucket, !.at = Larger(@, right.at), !.n = @ + right.n,
               !.status = Larger(@, right.status), !.latency = WeightedAverage(@, right.latency),
               !.events = @ \cup right.events, !.network = IF right.network = 0 THEN @ ELSE right.network,
               !.dns = right.dns]

QualityForDisplay(points, ticks) == ForDisplay(points, ticks, MergeHistoryPoints)

----------------------------------------------------------------------------
(* Connections: how often each remote end was seen in a bucket.            *)

Unspecified == 0  \* the remote end of a socket that only listens

MergeConnections(current, sample, at, now) ==
  LET seen == {[bucket |-> BucketOf(at), at |-> at, end |-> end, host |-> sample.host, n |-> 1] :
                 end \in sample.ends \ {Unspecified}}
      key(e) == <<e.bucket, e.end>>
      again(p, q) == [p EXCEPT !.at = Larger(@, q.at), !.n = @ + 1, !.host = IF q.host = 0 THEN @ ELSE q.host]
      later(p, q) == p.at > q.at \/ (p.at = q.at /\ p.bucket * 10 + p.end < q.bucket * 10 + q.end)
  IN Best({e \in Combine(current, seen, key, again) : e.at >= now - Retention}, later)

\* Grouped by the remote end or by the name it was resolved to.
AggregateConnections(entries, byName) ==
  LET label(e) == IF byName /\ e.host # 0 THEN <<"host", e.host>> ELSE <<"end", e.end>>
  IN {[label |-> l, n |-> MapThenSumSet(LAMBDA e : e.n, {e \in entries : label(e) = l}),
       at |-> Max({e.at : e \in {f \in entries : label(f) = l}})] : l \in {label(e) : e \in entries}}

----------------------------------------------------------------------------
(* Watch events: the last ones, each once.                                 *)

MergeWatchEvents(current, incoming, now) ==
  LET usable == {e \in current \cup incoming : e.at >= now - Retention /\ e.at <= now}
      later(e, f) == e.at > f.at \/ (e.at = f.at /\ e.rule > f.rule)
  IN Best(usable, later)

----------------------------------------------------------------------------
(* Series of a chart.                                                      *)

Downsample(points, ticks, start, now) ==
  LET shown == {p \in points : p.at >= start /\ p.at <= now}
      in(b) == {p \in shown : p.at \div ticks = b}
  IN {[at |-> b * ticks, n |-> Cardinality({p \in in(b) : p.v >= 0}),
       total |-> MapThenSumSet(LAMBDA p : p.v, {p \in in(b) : p.v >= 0}),
       samples |-> Cardinality(in(b))] : b \in {p.at \div ticks : p \in shown}}

\* Points with a value belong to one segment when no gap and no point
\* without a value lies between them.
SameSegment(points, p, q, gap) ==
  LET between == {r \in points : r.at >= p.at /\ r.at <= q.at}
      next(r) == CHOOSE x \in between : x.at > r.at /\ \A y \in between : y.at > r.at => x.at <= y.at
  IN /\ \A r \in between : r.v >= 0
     /\ \A r \in between : r.at < q.at => next(r).at - r.at <= gap

Segments(points, gap) ==
  LET valued == {p \in points : p.v >= 0}
  IN {{q \in valued : IF p.at <= q.at THEN SameSegment(points, p, q, gap) ELSE SameSegment(points, q, p, gap)} :
        p \in valued}

Completeness(points, start, end, interval) ==
  LET ticks == Larger(1, interval)
      expected == Larger(1, (Larger(1, end - start) + ticks - 1) \div ticks)
      observed == Cardinality({p.at \div ticks : p \in {q \in points : q.at >= start /\ q.at <= end}})
  IN IF observed >= expected THEN 100 ELSE (100 * observed) \div expected

----------------------------------------------------------------------------
(* What is read back from a file: what does not check is left out.         *)

Readable(kind, p) ==
  CASE kind = "resources" -> p.at > 0 /\ p.v \in -1 .. 100
    [] kind = "applications" -> p.n >= 0 /\ \A e \in p.apps : e.n >= 0 /\ e.total >= 0 /\ e.peak >= 0
    [] kind = "quality" -> p.status \in 0 .. 2 /\ p.n >= 0 /\ p.latency.n >= 0 /\ p.latency.total >= 0
    [] OTHER -> p.at >= 0

----------------------------------------------------------------------------
(* Samples are taken as time goes on.                                      *)

Kinds == {"resources", "applications", "quality", "connections", "watch"}

SampleInit == \E kind \in Kinds : s = [kind |-> kind, now |-> 1, log |-> <<>>, kept |-> {}]

Inputs(kind) ==
  CASE kind = "resources" -> {-1, 3}
    [] kind = "applications" -> {1 :> a @@ 2 :> b @@ 3 :> 1 : a \in {-1, 2}, b \in {0, 3}}
    [] kind = "quality" -> {[status |-> 0, latency |-> 4, network |-> 1, dns |-> "passed"],
                            [status |-> 1, latency |-> 6, network |-> 2, dns |-> "failed"],
                            [status |-> 2, latency |-> -1, network |-> 0, dns |-> "failed"],
                            [status |-> 2, latency |-> -1, network |-> 1, dns |-> "passed"]}
    [] kind = "connections" -> [ends : {{0, 1}, {1, 2}, {2, 3}}, host : {0, 7}]
    [] kind = "watch" -> {1, 2}

Merged(kind, kept, input, at) ==
  CASE kind = "resources" -> MergeResources(kept, {[at |-> at, v |-> input]}, at)
    [] kind = "applications" -> MergeApplications(kept, input, at)
    [] kind = "quality" -> MergeQuality(kept, input, at)
    [] kind = "connections" -> MergeConnections(kept, input, at, at)
    [] kind = "watch" -> MergeWatchEvents(kept, {[at |-> at, rule |-> input]}, at)

Sample ==
  /\ s.kind \in Kinds /\ Len(s.log) < MaxSamples
  /\ \E step \in {1, Bucket, Retention}, input \in Inputs(s.kind) :
       LET at == s.now + step
       IN s' = [s EXCEPT !.now = at, !.log = Append(@, [at |-> at, input |-> input]),
                         !.kept = Merged(s.kind, @, input, at)]

\* The program starts again with what it can read of its file.
Restart == s.kind \in Kinds /\ s.kept # {} /\ s' = [s EXCEPT !.kept = {p \in @ : Readable(s.kind, p)}]

----------------------------------------------------------------------------
(* The record of what the user did.                                        *)

Update == "application_update"
ActionKinds == {Update, "process_close"}
Ends == {"succeeded", "failed"}  \* of five; an update is confirmed when it succeeded

RecordInit ==
  s = [kind |-> "actions", session |-> {}, stored |-> {}, file |-> {}, pending |-> {}, hydrated |-> TRUE, persist |-> TRUE,
       names |-> TRUE, now |-> 1, acts |-> MaxActs]

Spend == [s EXCEPT !.acts = @ - 1, !.now = @ + 1]

----------------------------------------------------------------------------
CreateRecord(id, kind) ==
  [id |-> id, kind |-> kind, status |-> "running", verified |-> FALSE, completed |-> 0, name |-> TRUE,
   confirmed |-> FALSE]

Completed(r, status, now) == [r EXCEPT !.status = status, !.completed = Max({@, r.id, now})]
Redacted(records) == {[r EXCEPT !.name = FALSE] : r \in records}

\* Fault: the records of the file are taken as they are.
RecoveredAsKept(records, now) == records

Recovered(records, now) ==
  {IF r.status = "running" THEN Completed(r, "interrupted", now) ELSE r : r \in records}

\* Records of the retention, and of two with one identity the incoming one.
\* A record begins at the tick that identifies it.
MergeRecords(stored, incoming, now) ==
  LET ids == {r.id : r \in incoming}
  IN {r \in {q \in stored : q.id \notin ids} \cup incoming : r.id >= now - RecordRetention /\ r.id <= now}

\* What the file may be read back from: a running record has no end.
ReadableRecord(r) ==
  IF r.status = "running" THEN r.completed = 0 ELSE r.completed >= r.id

\* Of the updates that succeeded the last one that was not confirmed.
ConfirmLatest(records) ==
  LET waiting == {r \in records : r.kind = Update /\ r.status = "succeeded" /\ ~r.confirmed}
  IN {IF r \in waiting /\ \A q \in waiting : q.id <= r.id
      THEN [r EXCEPT !.confirmed = TRUE, !.verified = TRUE] ELSE r : r \in records}

----------------------------------------------------------------------------
(* The kept records.  An update of them made before the file was read is   *)
(* made again on what was read.                                            *)

ApplyChange(change, records, now) ==
  CASE change.op = "merge" -> MergeRecords(records, change.records, now)
    [] change.op = "complete" ->
         {IF r.id = change.id THEN Completed(r, change.status, now) ELSE r : r \in records}
    [] change.op = "redact" -> Redacted(records)
    [] change.op = "confirm" -> ConfirmLatest(records)

\* Changes commute but for the order of a merge and what completes or redacts it.
ApplyChanges(changes, records, now) ==
  LET of(op) == {c \in changes : c.op = op}
      merged == MergeRecords(records, UNION {c.records : c \in of("merge")}, now)
      completed == {IF \E c \in of("complete") : c.id = r.id
                    THEN Completed(r, (CHOOSE c \in of("complete") : c.id = r.id).status, now) ELSE r : r \in merged}
      confirmed == IF of("confirm") = {} THEN completed ELSE ConfirmLatest(completed)
  IN IF of("redact") = {} THEN confirmed ELSE Redacted(confirmed)

SetStored(t, change) ==
  [t EXCEPT !.stored = ApplyChange(change, @, t.now), !.pending = IF t.hydrated THEN @ ELSE @ \cup {change}]

----------------------------------------------------------------------------
(* Operations.                                                             *)

StartAction(kind) ==
  /\ s.acts > 0
  /\ LET record == CreateRecord(s.now + 1, kind)
         t == [Spend EXCEPT !.session = @ \cup {record}]
     IN s' = IF s.persist
             THEN SetStored(t, [op |-> "merge", records |-> {[record EXCEPT !.name = s.names]}]) ELSE t

CompleteAction(id, status) ==
  /\ \E r \in s.session : r.id = id /\ r.status = "running"
  /\ LET completed == {IF r.id = id THEN Completed(r, status, s.now) ELSE r : r \in s.session}
     IN s' = SetStored([s EXCEPT !.session = completed],
                       [op |-> "complete", id |-> id, status |-> status])

\* The new version says at its start that the update was installed.
ConfirmLatestApplicationUpdate(t) ==
  SetStored([t EXCEPT !.session = ConfirmLatest(@)], [op |-> "confirm"])

SetTargetNames ==
  /\ s.acts > 0
  /\ s' = IF s.names THEN SetStored([Spend EXCEPT !.names = FALSE], [op |-> "redact"])
          ELSE [Spend EXCEPT !.names = TRUE]

SetPersistence == s.acts > 0 /\ s' = [Spend EXCEPT !.persist = ~@]

\* The retention is applied when it changes, to both lists.
ApplyRetention ==
  /\ s.acts > 0
  /\ LET t == [Spend EXCEPT !.session = MergeRecords({}, @, s.now + 1)]
     IN s' = IF s.stored = {} THEN t ELSE SetStored(t, [op |-> "merge", records |-> {}])

\* What the list shows: the records of the session before those kept.
Shown == MergeRecords(s.stored, s.session, s.now)

----------------------------------------------------------------------------
(* The file, and a restart.                                                *)

Persist == s.hydrated /\ s.persist /\ s.file # s.stored /\ s' = [s EXCEPT !.file = s.stored]

\* The session is lost.  Names that may not be kept are redacted at the start
\* as well, and a new version confirms its update, before the file was read.
RestartRecord ==
  /\ s.acts > 0
  /\ LET t == [Spend EXCEPT !.session = {}, !.stored = {}, !.pending = {}, !.hydrated = FALSE]
         u == IF s.names THEN t ELSE SetStored(t, [op |-> "redact"])
     IN s' \in {u, ConfirmLatestApplicationUpdate(u)}

Hydrate ==
  /\ ~s.hydrated
  /\ LET read == Recovered({r \in s.file : ReadableRecord(r)}, s.now)
     IN s' = [s EXCEPT !.hydrated = TRUE, !.pending = {}, !.stored = ApplyChanges(s.pending, read, s.now)]

ActionsNext ==
  \/ \E kind \in ActionKinds : StartAction(kind)
  \/ \E r \in s.session, status \in Ends : CompleteAction(r.id, status)
  \/ SetTargetNames \/ SetPersistence \/ ApplyRetention \/ Persist \/ RestartRecord \/ Hydrate

----------------------------------------------------------------------------
Init == SampleInit \/ RecordInit
Next ==
  \/ Sample \/ Restart
  \/ s.kind = "actions" /\ ActionsNext

----------------------------------------------------------------------------
(* Properties.                                                             *)

Logged(bucket) == {x \in Range(s.log) : BucketOf(x.at) = bucket}
Recent == {x \in Range(s.log) : x.at >= s.now - Retention}

ApplicationsAsSampled ==
  /\ \A x \in Recent : \E p \in s.kept : p.bucket = BucketOf(x.at)
  /\ \A p \in s.kept :
       LET peak(app) == Larger(0, Max({x.input[app] : x \in Logged(p.bucket)}))
           heavier(a, b) == peak(a) > peak(b) \/ (peak(a) = peak(b) /\ a < b)
       IN /\ p.n = Cardinality(Logged(p.bucket))
          /\ {e.app : e \in p.apps} = Best(Apps, heavier)
          /\ \A e \in p.apps : e.peak = peak(e.app) /\ e.n <= p.n /\ e.total <= e.n * e.peak

QualityAsSampled ==
  /\ \A x \in Recent : \E p \in s.kept : p.bucket = BucketOf(x.at)
  /\ \A p \in s.kept :
       LET samples == {x \in Logged(p.bucket) : x.input.latency >= 0}
       IN /\ p.n = Cardinality(Logged(p.bucket))
          /\ p.status = Max({x.input.status : x \in Logged(p.bucket)})
          /\ p.latency = [n |-> Cardinality(samples), total |-> MapThenSumSet(LAMBDA x : x.input.latency, samples)]

ConnectionsAsSampled ==
  /\ \A e \in s.kept :
       LET samples == {x \in Logged(e.bucket) : e.end \in x.input.ends}
       IN e.n \in 1 .. Cardinality(samples) /\ \E x \in samples : x.at = e.at
  /\ \A x \in Range(s.log), end \in Apps :
       x.at = s.now /\ end \in x.input.ends =>
         \/ \E e \in s.kept : e.end = end /\ e.at = s.now
         \/ Cardinality({e \in s.kept : e.at = s.now}) = Limit

\* However samples and restarts follow on each other, each history keeps what
\* a look at all the samples of its retention says it should, merged into one
\* point for each bucket: no sample is lost or counted twice, and of the
\* applications those with the highest peaks are kept with their peaks.
KeptAsSampled ==
  CASE s.kind = "resources" ->
         s.kept = {p \in {[at |-> x.at, v |-> x.input] : x \in Recent} :
                     \A x \in Recent : BucketOf(x.at) = BucketOf(p.at) => x.at <= p.at}
    [] s.kind = "applications" -> ApplicationsAsSampled
    [] s.kind = "quality" -> QualityAsSampled
    [] s.kind = "connections" -> ConnectionsAsSampled
    [] s.kind = "watch" ->
         LET recent == {[at |-> x.at, rule |-> x.input] : x \in Recent}
         IN s.kept = {e \in recent : Cardinality({f \in recent : f.at > e.at}) < Limit}
    [] OTHER -> TRUE

\* What is shown is what is kept: the buckets of a display, the groups of a
\* list and the segments of a chart leave out nothing and repeat nothing.
ShownAsKept ==
  CASE s.kind = "applications" ->
         LET shown == ApplicationsForDisplay(s.kept, 2 * Bucket)
         IN /\ MapThenSumSet(LAMBDA p : p.n, shown) = MapThenSumSet(LAMBDA p : p.n, s.kept)
            /\ s.kept # {} => Max({e.peak : e \in Summarize(s.kept)}) = Max({e.peak : e \in UNION {p.apps : p \in s.kept}})
    [] s.kind = "quality" ->
         LET shown == QualityForDisplay(s.kept, 2 * Bucket)
         IN /\ MapThenSumSet(LAMBDA p : p.n, shown) = MapThenSumSet(LAMBDA p : p.n, s.kept)
            /\ MapThenSumSet(LAMBDA p : p.latency.total, shown) = MapThenSumSet(LAMBDA p : p.latency.total, s.kept)
            /\ UNION {p.events : p \in shown} = UNION {p.events : p \in s.kept}
    [] s.kind = "connections" ->
         \A byName \in BOOLEAN :
           MapThenSumSet(LAMBDA g : g.n, AggregateConnections(s.kept, byName)) = MapThenSumSet(LAMBDA e : e.n, s.kept)
    [] s.kind = "resources" ->
         LET valued == {p \in s.kept : p.v >= 0}
             segments == Segments(s.kept, Bucket)
         IN /\ UNION segments = valued
            /\ \A a, b \in segments : a = b \/ a \cap b = {}
            /\ MapThenSumSet(LAMBDA p : p.total, Downsample(s.kept, Bucket, s.now - Retention, s.now))
                 = MapThenSumSet(LAMBDA p : p.v, valued)
            /\ Completeness(s.kept, s.now - Retention, s.now, Bucket) \in 0 .. 100
    [] OTHER -> TRUE

\* What a history writes it reads back after a restart.
WrittenIsReadable == s.kind \in Kinds => \A p \in s.kept : Readable(s.kind, p)

\* No record stays running that nothing can end any more: once the file was
\* read, a running record is one of this session, whenever the program died.
RunningIsOfSession ==
  s.kind = "actions" /\ s.hydrated => \A r \in s.stored : r.status = "running" =>
    \E q \in s.session : q.id = r.id /\ q.status = "running"

\* While names may not be kept none is among the kept records, whatever the
\* file had when the program died.
NamesAreRedacted ==
  s.kind = "actions" /\ s.hydrated /\ ~s.names => \A r \in s.stored : ~r.name

\* The list and the file agree on how an operation ended, and what is written
\* can be read back.
OneOutcome ==
  s.kind = "actions" =>
  /\ \A r \in s.stored, q \in s.session : r.id = q.id => r.status = q.status
  /\ \A r \in s.stored \cup s.file : ReadableRecord(r)
  /\ \A r, q \in Shown : r.id = q.id => r = q
=============================================================================
