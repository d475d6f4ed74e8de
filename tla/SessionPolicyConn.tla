-------------------------- MODULE SessionPolicyConn --------------------------
(***************************************************************************)
(* Session deadlines: the connection wrapper of                             *)
(* pkg/gateway/session_policy_conn.go and the durations computed by         *)
(* session_policy.go.                                                       *)
(*                                                                         *)
(* The wrapper starts with the global policy; each authentication that gets *)
(* past target resolution applies the policy of its Access.  Reads and      *)
(* writes store a timestamp without a lock, a timer goroutine looks at it   *)
(* under the lock, and closing happens after the lock is released.  Time is *)
(* discrete and does not advance past a due timer or a pending close:       *)
(* timers and runnable goroutines are prompt at this scale.  A goroutine    *)
(* that has read the clock in touch may be delayed before it stores it.     *)
(***************************************************************************)
EXTENDS Integers, FiniteSets, FiniteSetsExt

CONSTANTS Streams,    \* goroutines that read or write the connection
          Durations,  \* configured durations; zero and negative mean "none"
          MaxTime,    \* bound: last instant
          MaxApplies, \* bound: ApplyPolicy calls after the first
          NoTime

VARIABLES
  now,           \* time since the connection started
  opts,          \* configured limits and defaults
  policy,        \* effective durations
  lastActivity,  \* the atomic timestamp
  touching,      \* clock value each stream goroutine read and has not stored yet
  timer,         \* when the timer fires, if it is armed
  firing,        \* onTimer goroutines that have not taken the lock yet
  expired,       \* goroutines that found the policy expired and have not called Close yet
  closed,
  applies,       \* ApplyPolicy calls made
  activity       \* history: latest activity

vars == <<now, opts, policy, lastActivity, touching, timer, firing, expired, closed, applies,
          activity>>

Options == [limitIdle : Durations, limitMax : Durations, idle : Durations, max : Durations]

TypeOK ==
  /\ now \in 0..MaxTime
  /\ opts \in Options
  /\ policy \in [idle : Nat, max : Nat]
  /\ lastActivity \in 0..MaxTime
  /\ touching \in [Streams -> 0..MaxTime \cup {NoTime}]
  /\ timer \in Nat \cup {NoTime}
  /\ firing \in BOOLEAN /\ expired \subseteq {"owner", "timer"}
  /\ closed \in BOOLEAN /\ applies \in 0..MaxApplies
  /\ activity \in 0..MaxTime

-----------------------------------------------------------------------------
(* session_policy.go                                                        *)

PositiveDuration(d) == IF d > 0 THEN d ELSE 0

\* boundedDuration: a value within a limit, zero standing for "not set" on either side.
BoundedDuration(value, limit) ==
  CASE PositiveDuration(value) = 0 -> PositiveDuration(limit)
    [] PositiveDuration(limit) = 0 -> PositiveDuration(value)
    [] OTHER -> Min({value, limit})

BuildGlobalSessionPolicy(o) ==
  [idle |-> BoundedDuration(o.idle, o.limitIdle), max |-> BoundedDuration(o.max, o.limitMax)]

\* A duration of the Access replaces the global one only if it is positive.
BuildAccessSessionPolicy(o, idle, max) ==
  LET global == BuildGlobalSessionPolicy(o) IN
  [idle |-> IF idle > 0 THEN BoundedDuration(idle, o.limitIdle) ELSE global.idle,
   max |-> IF max > 0 THEN BoundedDuration(max, o.limitMax) ELSE global.max]

-----------------------------------------------------------------------------
(* Deadlines                                                                *)

\* nextDeadlineLocked
Deadlines(p, last) ==
  (IF p.max > 0 THEN {p.max} ELSE {}) \cup (IF p.idle > 0 THEN {last + p.idle} ELSE {})
NextDeadline(p, last) ==
  IF Deadlines(p, last) = {} THEN NoTime ELSE Min(Deadlines(p, last))

\* scheduleLocked: stops the timer, arms it, or reports that the policy has expired.
ScheduleOnce(who, p) ==
  LET deadline == NextDeadline(p, lastActivity) IN
  IF deadline # NoTime /\ deadline <= now
  THEN expired' = expired \cup {who} /\ UNCHANGED timer
  ELSE timer' = (IF timer = NoTime THEN deadline ELSE timer) /\ UNCHANGED expired
Schedule(who, p) ==
  LET deadline == NextDeadline(p, lastActivity) IN
  IF deadline # NoTime /\ deadline <= now
  THEN expired' = expired \cup {who} /\ UNCHANGED timer
  ELSE timer' = deadline /\ UNCHANGED expired

Init ==
  /\ now = 0
  /\ opts \in Options
  /\ policy = BuildGlobalSessionPolicy(opts)
  /\ lastActivity = 0
  /\ touching = [s \in Streams |-> NoTime]
  /\ timer = NextDeadline(policy, 0)
  /\ firing = FALSE /\ expired = {}
  /\ closed = FALSE /\ applies = 0 /\ activity = 0

\* ApplyPolicy with the policy of the Access that was authenticated.
ApplyPolicy(idle, max) ==
  /\ applies < MaxApplies /\ ~closed /\ "owner" \notin expired
  /\ applies' = applies + 1
  /\ policy' = BuildAccessSessionPolicy(opts, idle, max)
  /\ Schedule("owner", policy')
  /\ UNCHANGED <<now, opts, lastActivity, touching, firing, closed, activity>>

\* Read or Write moves bytes; touch reads the clock ...
Transfer(s) ==
  /\ ~closed /\ touching[s] = NoTime
  /\ touching' = [touching EXCEPT ![s] = now]
  /\ activity' = now
  /\ UNCHANGED <<now, opts, policy, lastActivity, timer, firing, expired, closed, applies>>

\* ... and stores it, whatever another goroutine has stored in between.
Touch(s) ==
  /\ touching[s] # NoTime
  /\ lastActivity' = touching[s]
  /\ touching' = [touching EXCEPT ![s] = NoTime]
  /\ UNCHANGED <<now, opts, policy, timer, firing, expired, closed, applies, activity>>

TimerFires ==
  /\ timer # NoTime /\ timer <= now /\ ~firing
  /\ timer' = NoTime
  /\ firing' = TRUE
  /\ UNCHANGED <<now, opts, policy, lastActivity, touching, expired, closed, applies,
                 activity>>

\* onTimer, under the lock.
OnTimer ==
  /\ firing
  /\ firing' = FALSE
  /\ IF closed THEN UNCHANGED <<timer, expired>> ELSE Schedule("timer", policy)
  /\ UNCHANGED <<now, opts, policy, lastActivity, touching, closed, applies, 
                 activity>>

\* Close: idempotent; stops the timer.
CloseConn == closed' = TRUE /\ timer' = NoTime

ExpiredClose(who) ==
  /\ who \in expired
  /\ expired' = expired \ {who}
  /\ CloseConn
  /\ UNCHANGED <<now, opts, policy, lastActivity, touching, firing, applies, activity>>

\* The peer or the owner closes the connection.
Close ==
  /\ ~closed
  /\ CloseConn
  /\ UNCHANGED <<now, opts, policy, lastActivity, touching, firing, expired, applies, activity>>

Due == firing \/ expired # {} \/ (timer # NoTime /\ timer <= now)
Tick ==
  /\ now < MaxTime /\ ~Due
  /\ now' = now + 1
  /\ UNCHANGED <<opts, policy, lastActivity, touching, timer, firing, expired, closed, applies,
                 activity>>

Next ==
  \/ \E idle, max \in Durations : ApplyPolicy(idle, max)
  \/ \E s \in Streams : Transfer(s) \/ Touch(s)
  \/ TimerFires \/ OnTimer \/ (\E who \in expired : ExpiredClose(who)) \/ Close \/ Tick

Spec == Init /\ [][Next]_vars

-----------------------------------------------------------------------------
(* Properties                                                               *)

\* An open connection outlives neither the maximum duration nor the idle timeout in force,
\* nor the configured limits, whatever the Access asks for, however applying it races with
\* the timer, and although traffic itself never touches the timer.
TimeoutsEnforced ==
  ~closed /\ ~Due =>
    /\ policy.max > 0 => now < policy.max
    /\ opts.limitMax > 0 => now < opts.limitMax
    /\ policy.idle > 0 => now < activity + policy.idle
    /\ opts.limitIdle > 0 => now < activity + opts.limitIdle
=============================================================================
