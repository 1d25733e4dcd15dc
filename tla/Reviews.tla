------------------------------ MODULE Reviews -------------------------------
(***************************************************************************)
(* What the kept history tells the user: what is usual for the device      *)
(* (src/personalBaseline.ts), the review of today and of the week          *)
(* (src/todayReview.ts, src/weeklyReview.ts) with the effects of what the  *)
(* user did, and how long the battery was used (src/batterySessions.ts).   *)
(*                                                                         *)
(* A day has four ticks and the clock begins on a Thursday, so the fifth   *)
(* day is a Monday.  Each tick or more a point is kept.                    *)
(***************************************************************************)
EXTENDS Integers, Sequences, FiniteSets, SequencesExt, FiniteSetsExt, Folds

CONSTANT MaxPoints  \* bound of the model: points kept

VARIABLE s

DayOf(at) == at \div 4
HourOf(at) == at % 4
Weekend(at) == DayOf(at) % 7 \in {2, 3}
StartOfLocalDay(now) == 4 * DayOf(now)

MinimumBaselinePoints == 2
MinimumBaselineDays == 2
BaselineMinAge == 2
BaselineMaxAge == 28
MeaningfulDelta == 1
SessionGap == 2

----------------------------------------------------------------------------
(* What is usual.                                                          *)

Values(points) == SetToSortSeq({<<p.cpu, p.at>> : p \in points}, LAMBDA a, b : a[1] < b[1] \/ (a[1] = b[1] /\ a[2] < b[2]))
Total(points) == MapThenSumSet(LAMBDA p : p.cpu, points)

\* Twice the median, a whole number.
Median2(values) ==
  LET n == Len(values)
  IN IF n % 2 = 0 THEN values[n \div 2] + values[n \div 2 + 1] ELSE 2 * values[n \div 2 + 1]

Recent(points, now) == {p \in points : p.at >= now - 1 /\ p.at <= now}
Baseline(points, now) ==
  {p \in points : /\ now - p.at >= BaselineMinAge /\ now - p.at <= BaselineMaxAge
                  /\ HourOf(p.at) = HourOf(now) /\ Weekend(p.at) = Weekend(now)}

\* How far the points lie from twice their median, the median of that, twice.
MedianAbsoluteDeviation2(points, center2) ==
  LET distance(p) == IF 2 * p.cpu >= center2 THEN 2 * p.cpu - center2 ELSE center2 - 2 * p.cpu
      ordered == SetToSortSeq({<<distance(p), p.at>> : p \in points},
                              LAMBDA a, b : a[1] < b[1] \/ (a[1] = b[1] /\ a[2] < b[2]))
  IN Median2([i \in DOMAIN ordered |-> ordered[i][1]])

\* Half as much again, by more than little, and by three times the usual
\* difference; the average now is a sum over a count.
IsElevated(sum, count, typical2, deviation2) ==
  /\ typical2 > 0
  /\ 4 * sum - 2 * typical2 * count >= typical2 * count
  /\ 2 * sum - typical2 * count >= 2 * MeaningfulDelta * count
  /\ 4 * sum - 2 * typical2 * count >= 3 * deviation2 * count

CompareMetric(points, now) ==
  LET recent == Recent(points, now)
      baseline == Baseline(points, now)
      days == {DayOf(p.at) : p \in baseline}
      ordered == Values(baseline)
      typical2 == Median2([i \in DOMAIN ordered |-> ordered[i][1]])
  IN IF recent = {} \/ Cardinality(baseline) < MinimumBaselinePoints \/ Cardinality(days) < MinimumBaselineDays
     THEN "learning"
     ELSE IF IsElevated(Total(recent), Cardinality(recent), typical2, MedianAbsoluteDeviation2(baseline, typical2))
     THEN "elevated" ELSE "typical"

----------------------------------------------------------------------------
(* Effects of what was done, and the reviews.                              *)

\* Points within four ticks before and after the action was completed.
MetricEffect(points, action) ==
  LET before == {p \in points : p.at >= action.completed - 4 /\ p.at < action.completed}
      after == {p \in points : p.at > action.completed /\ p.at <= action.completed + 4}
      delta == Total(after) * Cardinality(before) - Total(before) * Cardinality(after)
  IN CASE action.status # "succeeded" -> "not_applicable"
       [] action.status = "succeeded" /\ (Cardinality(before) < 2 \/ Cardinality(after) < 2) -> "insufficient"
       [] OTHER -> IF delta <= -Cardinality(before) * Cardinality(after) THEN "improved"
                   ELSE IF delta >= Cardinality(before) * Cardinality(after) THEN "increased" ELSE "stable"

\* Today has what was completed today, running actions apart.
TodayActions(actions, now) ==
  {a \in actions : a.status # "running" /\ a.completed >= StartOfLocalDay(now) /\ a.completed <= now}

BuildTodayReview(t) ==
  LET completed == TodayActions(t.actions, t.now)
      active == {a \in t.alerts : a.ended = -1}
      today == {a \in t.alerts : a \in active \/ a.at >= StartOfLocalDay(t.now) \/ a.ended >= StartOfLocalDay(t.now)}
  IN [status |-> IF active # {} THEN "active" ELSE IF today # {} THEN "settled"
                 ELSE IF completed # {} THEN "handled" ELSE "calm",
      events |-> Cardinality(today), resolved |-> Cardinality(today \ active)]

\* The week counts an action at the time it began.
SummarizePeriod(t, from, to) ==
  LET done == {a \in t.actions : a.status \notin {"running", "cancelled"} /\ a.started >= from /\ a.started <= to}
  IN [anomalies |-> Cardinality({a \in t.alerts : a.at >= from /\ a.at <= to}),
      actions |-> Cardinality(done),
      improvements |-> Cardinality({a \in done : MetricEffect(t.points, a) = "improved"})]

BuildWeeklyReview(t) ==
  LET today == StartOfLocalDay(t.now)
  IN [today |-> SummarizePeriod(t, today, t.now), yesterday |-> SummarizePeriod(t, today - 4, today - 1),
      sevenDays |-> SummarizePeriod(t, today - 24, t.now),
      days |-> Cardinality({DayOf(p.at) : p \in {q \in t.points : q.at >= today - 24}})]

\* The next Monday at the second tick, and never today.
NextWeeklyReviewAt(now) ==
  Min({at \in (now + 1)..(now + 32) : HourOf(at) = 1 /\ DayOf(at) % 7 = 4 /\ DayOf(at) > DayOf(now)})

----------------------------------------------------------------------------
(* Battery.                                                                *)

\* A session ends with the charger, or with a gap.
Continues(p, q) == p.battery /\ q.battery /\ q.at - p.at <= SessionGap
BatterySessions(points) ==
  LET ordered == SetToSortSeq(points, LAMBDA p, q : p.at < q.at)
      step(groups, p) ==
        CASE ~p.battery -> Append(groups, <<>>)
          [] p.battery /\ (groups = <<>> \/ Last(groups) = <<>> \/ ~Continues(Last(Last(groups)), p)) -> Append(groups, <<p>>)
          [] OTHER -> [groups EXCEPT ![Len(groups)] = Append(@, p)]
      groups == FoldLeft(step, <<>>, ordered)
  IN {groups[i] : i \in {j \in DOMAIN groups : Len(groups[j]) >= 2}}

----------------------------------------------------------------------------
(* The history grows.                                                      *)

Init == s = [points |-> {}, actions |-> {}, alerts |-> {}, now |-> 0, due |-> NextWeeklyReviewAt(0), sent |-> {},
             left |-> MaxPoints]

Advance(t, d) == [t EXCEPT !.now = @ + d, !.left = @ - 1]

KeepPoint(d, cpu, battery) ==
  /\ s.left > 0
  /\ s' = [Advance(s, d) EXCEPT !.points = @ \cup {[at |-> s.now + d, cpu |-> cpu, battery |-> battery]}]

\* An action that took a while is recorded with its end, and an alert begins or ends.
Act(d, status) ==
  /\ s.left > 0 /\ s.actions = {}
  /\ s' = [Advance(s, d) EXCEPT !.actions = {[started |-> s.now, completed |-> s.now + d, status |-> status]}]

Alert(d) ==
  /\ s.left > 0 /\ Cardinality(s.alerts) < 2
  /\ s' = [Advance(s, d) EXCEPT
             !.alerts = IF \E a \in @ : a.ended = -1
                        THEN {IF a.ended = -1 THEN [a EXCEPT !.ended = s.now + d] ELSE a : a \in @}
                        ELSE @ \cup {[at |-> s.now + d, ended |-> -1]}]

\* The window is opened: the review of the week is announced when it is due.
Remind ==
  /\ s.now >= s.due
  /\ s' = [s EXCEPT !.sent = @ \cup {s.now}, !.due = NextWeeklyReviewAt(s.now)]

Next ==
  \/ \E d \in {1, 4}, cpu \in 0..2, battery \in BOOLEAN : KeepPoint(d, cpu, battery)
  \/ \E d \in {1, 3}, status \in {"succeeded", "failed", "cancelled", "running"} : Act(d, status)
  \/ \E d \in {1, 12} : Alert(d)
  \/ Remind

----------------------------------------------------------------------------
(* Properties.                                                             *)

\* Nothing is called unusual that was not compared with earlier days at the
\* same time and of the same kind, or that is no more than those were; and
\* what is compared is never part of what it is compared with.
UnusualIsEarned ==
  LET usual == Baseline(s.points, s.now)
  IN CompareMetric(s.points, s.now) = "elevated" =>
       /\ Recent(s.points, s.now) \cap usual = {}
       /\ \E p \in usual, q \in usual : DayOf(p.at) # DayOf(q.at)
       /\ \E p \in Recent(s.points, s.now) : Cardinality({q \in usual : q.cpu < p.cpu}) * 2 >= Cardinality(usual)

\* Each anomaly and each action of the week is counted on one day, so that
\* today and yesterday never add up to more than the week; what is counted as
\* an improvement was an action that succeeded; a review of today with an
\* open alert is active on every day until it ends.
PeriodsAddUp ==
  LET week == BuildWeeklyReview(s)
      today == BuildTodayReview(s)
  IN /\ week.today.anomalies + week.yesterday.anomalies <= week.sevenDays.anomalies
     /\ week.today.actions + week.yesterday.actions <= week.sevenDays.actions
     /\ week.sevenDays.improvements <= Cardinality({a \in s.actions : a.status = "succeeded"})
     /\ (\E a \in s.alerts : a.ended = -1) <=> today.status = "active"
     /\ today.status = "calm" => TodayActions(s.actions, s.now) = {} /\ today.events = 0
     /\ today.resolved <= Cardinality({a \in s.alerts : a.ended >= StartOfLocalDay(s.now)})

\* The review is announced once a week: the next one is due on a later day,
\* and within a week and a day.
AnnouncedOnce ==
  /\ \A at \in s.sent, other \in s.sent : at # other => DayOf(at) # DayOf(other)
  /\ \A at \in s.sent : s.due > at
  /\ s.due <= s.now + 32

\* Sessions on the battery never overlap, and no charger and no gap lies within one.
SessionsAreOnBattery ==
  \A g \in BatterySessions(s.points) :
    /\ \A p \in s.points : p.at >= g[1].at /\ p.at <= Last(g).at => p.battery /\ \E i \in DOMAIN g : g[i] = p
    /\ \A h \in BatterySessions(s.points) : h # g => Last(h).at < g[1].at \/ Last(g).at < h[1].at
    /\ \A i \in 2..Len(g) : g[i].at - g[i - 1].at <= SessionGap
=============================================================================
