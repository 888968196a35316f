----------------------------- MODULE RouteGuard -----------------------------
(***************************************************************************)
(* The cooldown of one route (RequestIO::ExecuteRoute and TimeGuard in     *)
(* sources/request/io.cpp, listen_routes in include/vermell/routes.hpp).   *)
(* A request tests the cooldown under route_mutex, runs the middlewares    *)
(* without it and, if they called web.guard(), arms the cooldown under the *)
(* mutex again.  Up to Threads requests of the route are served at once.   *)
(***************************************************************************)
EXTENDS Naturals, Sequences, FiniteSets

CONSTANTS
    Requests,
    Threads,    \* workers of the pool; 1 in inline mode
    Keys,       \* seconds the middlewares pass to web.guard(), 0: not called
    MaxTime     \* bound on the clock

ASSUME RouteGuardAssumption ==
    /\ IsFiniteSet(Requests)
    /\ Threads \in Nat \ {0}
    /\ Keys \subseteq Nat /\ Keys # {}
    /\ MaxTime \in Nat \ {0}

VARIABLES
    now,            \* system_clock; 0 is the epoch, never the current time
    time_key,       \* listen_routes::time_key
    time_point,     \* listen_routes::time_point
    status,         \* where each request is
    start,          \* history: when the request passed the test
    armed,          \* history: when it armed the cooldown, 0 if it did not
    key,            \* the key its middlewares returned
    begun           \* history: requests whose middlewares ran, in order

vars == <<now, time_key, time_point, status, start, armed, key, begun>>

Init ==
    /\ now = 1
    /\ time_key = 0
    /\ time_point = 0
    /\ status = [r \in Requests |-> "new"]
    /\ start = [r \in Requests |-> 0]
    /\ armed = [r \in Requests |-> 0]
    /\ key = [r \in Requests |-> 0]
    /\ begun = <<>>

TimeGuard == time_key > 0 /\ time_point # 0 /\ now - time_point < time_key

Busy == Cardinality({r \in Requests : status[r] \in {"running", "arming"}})

\* The cooldown is in force: the request gets the guard's 401.
Refuse(r) ==
    /\ status[r] = "new"
    /\ Busy < Threads
    /\ TimeGuard
    /\ status' = [status EXCEPT ![r] = "refused"]
    /\ UNCHANGED <<now, time_key, time_point, start, armed, key, begun>>

Begin(r) ==
    /\ status[r] = "new"
    /\ Busy < Threads
    /\ ~TimeGuard
    /\ status' = [status EXCEPT ![r] = "running"]
    /\ start' = [start EXCEPT ![r] = now]
    /\ begun' = Append(begun, r)
    /\ UNCHANGED <<now, time_key, time_point, armed, key>>

\* middlewares.execute returns the key of the last web.guard().
Execute(r, k) ==
    /\ status[r] = "running"
    /\ key' = [key EXCEPT ![r] = k]
    /\ status' = [status EXCEPT ![r] = IF k > 0 THEN "arming" ELSE "answered"]
    /\ UNCHANGED <<now, time_key, time_point, start, armed, begun>>

\* X_Y is a plausible mistake in X, used to show that the properties notice.
\* Here a cooldown that was armed before is left alone.
ArmedAt_Once(r) == IF time_point = 0 THEN now ELSE time_point
ArmedAt(r) == now

Arm(r) ==
    /\ status[r] = "arming"
    /\ time_key' = key[r]
    /\ time_point' = ArmedAt(r)
    /\ armed' = [armed EXCEPT ![r] = now]
    /\ status' = [status EXCEPT ![r] = "answered"]
    /\ UNCHANGED <<now, start, key, begun>>

Tick ==
    /\ now < MaxTime
    /\ now' = now + 1
    /\ UNCHANGED <<time_key, time_point, status, start, armed, key, begun>>

Next ==
    \/ \E r \in Requests : Refuse(r) \/ Begin(r) \/ Arm(r) \/ \E k \in Keys : Execute(r, k)
    \/ Tick

Spec == Init /\ [][Next]_vars

-----------------------------------------------------------------------------
(* Properties *)

TypeOK ==
    /\ now \in 1 .. MaxTime
    /\ time_key \in Keys \cup {0}
    /\ time_point \in 0 .. MaxTime
    /\ status \in [Requests -> {"new", "running", "arming", "answered", "refused"}]
    /\ start \in [Requests -> 0 .. MaxTime]
    /\ armed \in [Requests -> 0 .. MaxTime]
    /\ key \in [Requests -> Keys \cup {0}]
    /\ begun \in Seq(Requests)

\* A cooldown that has been announced is kept: once a request has armed it for
\* k seconds no middleware begins within those k seconds, whatever other
\* requests, begun earlier, arm in the meantime.  It holds where the middlewares
\* of a route pass 0 or one number of seconds to guard(): with two, a request
\* that arms later replaces the one time_key, and a longer cooldown with it.
AnnouncedCooldownIsKept ==
    \A i, j \in DOMAIN begun :
        LET a == begun[i]  b == begun[j]
        IN  i # j /\ armed[a] # 0 =>
                start[b] <= armed[a] \/ start[b] >= armed[a] + key[a]
=============================================================================
