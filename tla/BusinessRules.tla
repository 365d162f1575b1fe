--------------------------- MODULE BusinessRules ---------------------------
(* The calendar rules: the cancellation window of a contract               *)
(* (lib/compliance.ts), and the local hour at which the daily schedule of  *)
(* the active policy is due (server/ingestion-scheduler.ts and             *)
(* server/automated-lead-runner.ts).  Pure operators.                      *)
EXTENDS Integers, FiniteSets, FiniteSetsExt

-----------------------------------------------------------------------------
(* Days are numbers; day 0 is a Sunday.                                    *)

IsWeekday(day) == day % 7 \notin {0, 6}

IsBusinessDay(day, holidays) == IsWeekday(day) /\ day \notin holidays

\* Of three days that follow each other one is no day of a weekend: the search ends
\* three days after the last holiday.
NextBusinessDay(day, holidays) ==
  CHOOSE next \in day + 1 .. Max({day} \cup holidays) + 3 :
    /\ IsBusinessDay(next, holidays)
    /\ \A between \in day + 1 .. next - 1 : ~IsBusinessDay(between, holidays)

\* Mutant of AddBusinessDays: the day of the contract counts.
AddBusinessDaysFromStart(start, days, holidays) ==
  LET end[n \in 0 .. days] == IF n = 0 THEN start - 1 ELSE NextBusinessDay(end[n - 1], holidays)
  IN  end[days]

\* addBusinessDays: the cursor moves a day at a time, and each business day it comes
\* to is one that remains less.
AddBusinessDays(start, days, holidays) ==
  LET end[n \in 0 .. days] == IF n = 0 THEN start ELSE NextBusinessDay(end[n - 1], holidays)
  IN  end[days]

\* A contract that is not dated.
NoDay == -1

\* evaluateCancellationWindow.  An unverified calendar is not used.
WindowEnd(c) == AddBusinessDays(c.start, 3, IF c.verified THEN c.holidays ELSE {})
WindowIsOpen(c, today) == today <= WindowEnd(c)
WindowIsReady(c, today) ==
  c.start # NoDay /\ c.verified /\ ~WindowIsOpen(c, today) /\ c.attorney

\* evaluateMarketingReadiness: Rhode Island waits for both windows.
MarketingIsReady(d, seller, assignee, today) ==
  /\ d.path /\ d.agreement /\ d.interest /\ d.disclosure /\ d.attorneyReview
  /\ d.state = "RI" => WindowIsReady(seller, today) /\ WindowIsReady(assignee, today)

-----------------------------------------------------------------------------
(* The trigger fires at every full hour of the day there is.               *)

\* Mutant of IsDue: the window closes with the hour of the schedule.
IsDueThisHour(policy, hour) ==
  policy.enabled /\ hour = policy.hour /\ policy.minute = 0

\* The minute of the day is in the hour that begins with the schedule, and
\* the day ends at midnight.
IsDue(policy, hour) ==
  LET target == policy.hour * 60 + policy.minute
  IN  policy.enabled /\ hour * 60 \in target .. target + 59

\* The local hours of a day: 2 is skipped in spring, 1 comes twice in autumn.
HoursOf(kind) ==
  CASE kind = "spring" -> [n \in 1 .. 23 |-> IF n <= 2 THEN n - 1 ELSE n]
    [] kind = "autumn" -> [n \in 1 .. 25 |-> IF n <= 2 THEN n - 1 ELSE n - 2]
    [] OTHER -> [n \in 1 .. 24 |-> n - 1]

\* The key of the scheduled run of a day: the trigger that is due again on
\* the day finds the run it began.
ScheduleKey(policy, date) == <<policy.id, policy.version, date>>
=============================================================================
