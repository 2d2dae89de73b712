---------------------------- MODULE SessionClock ----------------------------
(***************************************************************************)
(* The clocks of one session: the row CreateSession inserts with an expiry *)
(* computed by the web process, and SessionUser, which moves the expiry by *)
(* the clock of the database at most once an hour and never beyond the     *)
(* maximal age (internal/store/users.go).                                  *)
(***************************************************************************)
EXTENDS Integers

CONSTANTS
    Idle,     \* sessionIdle
    MaxAge,   \* sessionTTL
    Slack,    \* the hour within which an expiry is left alone
    Skews,    \* how far the clock of a web process may be ahead of the database, at most Slack either way
    Horizon,  \* bound: when the observation ends
    None

\* What is assumed of them: sessionIdle and sessionTTL are days, the slack is an hour, and so is what the clocks may
\* differ by at most.
Times ==
    /\ Idle \in Nat /\ MaxAge \in Nat /\ Slack \in Nat
    /\ Idle + Slack <= MaxAge
    /\ Skews \subseteq (0 - Slack) .. Slack
    /\ None \notin [created : Nat, expires : Int]

VARIABLES
    now,      \* now() of the database
    row,      \* created_at and expires_at, or None
    used,     \* history: when the session was last presented and accepted, or opened
    skew      \* history: the skew of the clock that wrote the expiry

vars == <<now, row, used, skew>>

Init == now = 0 /\ row = None /\ used = 0 /\ skew = 0

\* newSession: the process adds sessionIdle to its own clock, the database defaults created_at to its own.
CreateSession ==
    /\ row = None /\ now = 0
    /\ \E ahead \in Skews :
         /\ row' = [created |-> now, expires |-> now + ahead + Idle]
         /\ skew' = ahead
    /\ used' = now
    /\ UNCHANGED now

Live == row # None /\ row.expires > now
TargetUncapped == now + Idle

Target == IF now + Idle < row.created + MaxAge THEN now + Idle ELSE row.created + MaxAge

DueLate(expires) == expires < Target - 2 * Slack

\* expires_at NOT BETWEEN target - 1 hour AND target.
Due(expires) == ~(Target - Slack <= expires /\ expires <= Target)

\* SessionUser of a live session; a dead one changes nothing.
SessionUser ==
    /\ Live
    /\ row' = IF Due(row.expires) THEN [row EXCEPT !.expires = Target] ELSE row
    /\ skew' = IF Due(row.expires) THEN 0 ELSE skew
    /\ used' = now
    /\ UNCHANGED now

\* The janitor.
DeleteExpiredSessions ==
    /\ row # None /\ row.expires <= now
    /\ row' = None
    /\ UNCHANGED <<now, used, skew>>

Tick == now < Horizon /\ now' = now + 1 /\ UNCHANGED <<row, used, skew>>

Next == CreateSession \/ SessionUser \/ DeleteExpiredSessions \/ Tick

Spec == Init /\ [][Next]_vars

\* A stolen cookie dies: no use keeps a session beyond its maximal age, and without use it is gone after the idle time
\* (and the skew of the clock that opened it).
SessionEnds ==
    Live => /\ now < row.created + MaxAge
            /\ now < used + Idle + skew

\* A session that is used is not lost: unless it was idle for nearly the idle time or is about to reach the maximal
\* age, it answers, whatever updates were skipped.
SessionLasts ==
    row # None /\ now < used + Idle - Slack /\ now < row.created + MaxAge - Slack => Live
=============================================================================
