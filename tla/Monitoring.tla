----------------------------- MODULE Monitoring -----------------------------
(***************************************************************************)
(* The audit trail and the in-memory monitor behind it                     *)
(* (audit.service.ts, monitoring.service.ts): a sliding window of          *)
(* timestamps for each rule and actor, and a bounded buffer of alerts.     *)
(* log awaits the write of its record and then, in the turn in which that  *)
(* await settles, feeds the monitor; Log is that turn, so that events are  *)
(* here in the order in which their writes settle. The log itself is only  *)
(* appended to and shown, and is not represented. Events that no rule      *)
(* matches only reach the audit log and are left out. Gateway composes the *)
(* monitor with the requests that the events come from.                    *)
(***************************************************************************)
EXTENDS Integers, FiniteSets, Sequences, FiniteSetsExt, SequencesExt

CONSTANTS Rules, Actors,    \* an actor is the ip or the email a rule keys by
          Threshold, Window, \* of each rule
          MaxAlerts,
          Limit,             \* of recentAlerts
          MaxEvents, MaxNow, MaxFaults, MaxRestarts \* bounds of the instance

ASSUME MonitoringAssumption ==
  /\ Threshold \in [Rules -> Nat \ {0}]
  /\ Window \in [Rules -> Nat \ {0}]
  /\ MaxAlerts \in Nat \ {0} /\ Limit \in Nat \ {0}
  /\ MaxEvents \in Nat /\ MaxNow \in Nat /\ MaxFaults \in Nat /\ MaxRestarts \in Nat

VARIABLES now,      \* Date.now()
          hits,     \* timestamps kept for each rule and actor
          alerts,   \* newest first
          faults,   \* audit records that could not be written
          restarts,
          trail,    \* ghost: the events logged since the process started
          raised    \* ghost: the positions in trail that raised an alert

Event == [rule : Rules, actor : Actors]

Init ==
  /\ now = 0
  /\ hits = [e \in Event |-> <<>>]
  /\ alerts = <<>>
  /\ faults = 0
  /\ restarts = 0
  /\ trail = <<>>
  /\ raised = {}

----------------------------------------------------------------------------
\* Variant: a window that includes its own start.
RecentAndStart(times, r) ==
  FoldLeft(LAMBDA kept, t : IF now - t <= Window[r] THEN Append(kept, t) ELSE kept,
           <<>>, times)

\* times.filter: the timestamps that are still in the window of a rule.
Recent(times, r) ==
  FoldLeft(LAMBDA kept, t : IF now - t < Window[r] THEN Append(kept, t) ELSE kept,
           <<>>, times)

\* Variant: dropping the newest.
RaiseLast(alert) ==
  alerts' = SubSeq(Append(alerts, alert), 1, Min({MaxAlerts, Len(alerts) + 1}))

raise(alert) ==
  alerts' = SubSeq(<<alert>> \o alerts, 1, Min({MaxAlerts, Len(alerts) + 1}))

observe(e) ==
  LET recent == Append(Recent(hits[e], e.rule), now)
  IN IF Len(recent) >= Threshold[e.rule]
     THEN /\ hits' = [hits EXCEPT ![e] = <<>>]
          /\ raise([type |-> e.rule, actor |-> e.actor, at |-> now, count |-> Len(recent)])
          /\ raised' = raised \cup {Len(trail) + 1}
     ELSE /\ hits' = [hits EXCEPT ![e] = recent]
          /\ UNCHANGED <<alerts, raised>>

recentAlerts == SubSeq(alerts, 1, Min({Limit, Len(alerts)}))

\* Variant: an event whose record could not be written is not observed.
LogStored(e) ==
  \/ observe(e) /\ UNCHANGED faults
  \/ /\ faults < MaxFaults
     /\ faults' = faults + 1
     /\ UNCHANGED <<hits, alerts, raised>>

\* The record is written or the write throws; the monitor is fed either way.
LogWrite(e) ==
  /\ \/ UNCHANGED faults
     \/ faults < MaxFaults /\ faults' = faults + 1
  /\ observe(e)

Log(e) ==
  /\ Len(trail) < MaxEvents
  /\ LogWrite(e)
  /\ trail' = Append(trail, [event |-> e, at |-> now])
  /\ UNCHANGED <<now, restarts>>

Tick ==
  /\ now < MaxNow
  /\ now' = now + 1
  /\ UNCHANGED <<hits, alerts, faults, restarts, trail, raised>>

\* The process dies and another starts: the log stays, the memory does not.
Restart ==
  /\ restarts < MaxRestarts
  /\ restarts' = restarts + 1
  /\ hits' = [e \in Event |-> <<>>]
  /\ alerts' = <<>>
  /\ trail' = <<>>
  /\ raised' = {}
  /\ UNCHANGED <<now, faults>>

----------------------------------------------------------------------------
(* What the windows and the buffer amount to, said of the whole trail.     *)

\* Positions up to i of the events with the key of event i.
SameKey(i) == {j \in 1..i : trail[j].event = trail[i].event}

\* Those no earlier alert of the key has counted, still in the window at i.
Counted(i) ==
  {j \in SameKey(i) :
     /\ trail[i].at - trail[j].at < Window[trail[i].event.rule]
     /\ \A k \in raised \cap SameKey(i) : k < i => j > k}

\* Keeping timestamps only while they are recent, and forgetting them at an
\* alert, the monitor raises exactly the alerts that the whole trail of events
\* calls for: no burst is missed however it straddles windows, stale events and
\* records that failed to be written, and no event is counted by two alerts.
AlertsExactlyWhenDue ==
  \A i \in DOMAIN trail :
    i \in raised <=> Cardinality(Counted(i)) >= Threshold[trail[i].event.rule]

\* What an admin is shown are the newest alerts, newest first, each with the
\* number of events it was raised for.
ShownAreNewest ==
  /\ Len(recentAlerts) = Min({Limit, MaxAlerts, Cardinality(raised)})
  /\ \A n \in DOMAIN recentAlerts :
       \E i \in raised :
         /\ Cardinality({j \in raised : j >= i}) = n
         /\ recentAlerts[n] = [type |-> trail[i].event.rule, actor |-> trail[i].event.actor,
                               at |-> trail[i].at, count |-> Cardinality(Counted(i))]
=============================================================================
