---------------------------- MODULE DeviceFlow ----------------------------
(***************************************************************************)
(* The polling half of astral login and astral register: runDeviceFlow     *)
(* (auth/device_flow.cpp) from the 201 of the authorization on, against a  *)
(* server that answers polls and a human who approves, denies or does      *)
(* nothing.  Time is in seconds.  The client has no clock: `elapsed` adds  *)
(* up its own sleeps, while requests take time it does not count.          *)
(***************************************************************************)
EXTENDS Integers, FiniteSetsExt

CONSTANTS
    ExpiresIn,  \* expires_in of the authorization
    Interval,   \* interval of the authorization, which may be 0
    Penalty,    \* kSlowDownPenalty
    Gap,        \* the server answers SLOW_DOWN to polls closer than this
    MaxLatency, \* the timeout of a request
    Latencies,  \* how long a poll may take to reach the server
    Horizon     \* bound: the clock stops here

ASSUME TimesAssumption ==
    /\ ExpiresIn \in Nat /\ Interval \in Nat /\ Penalty \in Nat \ {0}
    /\ Gap \in Nat /\ Gap >= Interval
    /\ MaxLatency \in Nat /\ Latencies \subseteq 0..MaxLatency /\ Latencies # {}
    /\ Horizon \in Nat /\ Horizon >= ExpiresIn

VARIABLES
    now,        \* seconds since the authorization was created
    pc,         \* "sleeping", "sending", or how the flow ended
    left,       \* seconds until the sleep ends or the poll arrives
    elapsed,
    interval,
    grant,      \* the server's side: pending, approved, denied, spent
    decidedAt,  \* when the human decided; Horizon + 1 before
    lastPoll,   \* when the latest poll arrived; 0 - Gap before
    slowDowns,  \* history: SLOW_DOWN answers
    slowBefore  \* history: those before the human decided

flow == <<now, pc, left, elapsed, interval, grant, decidedAt, lastPoll, slowDowns, slowBefore>>

Ended == {"session", "TIMEOUT", "AUTH_REQUIRED", "failed", "INTERNAL"}
Undecided == Horizon + 1

FlowTypeOK ==
    /\ now \in 0..Horizon
    /\ pc \in {"sleeping", "sending"} \cup Ended
    /\ left \in Nat
    /\ elapsed \in Nat
    /\ interval \in {Interval + Penalty * n : n \in 0..slowDowns}
    /\ grant \in {"pending", "approved", "denied", "spent"}
    /\ decidedAt \in 0..Undecided
    /\ lastPoll \in (0 - Gap)..Horizon
    /\ slowDowns \in Nat /\ slowBefore \in 0..slowDowns

FlowInit ==
    /\ now = 0
    /\ pc = "sleeping" /\ left = Interval
    /\ elapsed = 0
    /\ interval = Interval
    /\ grant = "pending" /\ decidedAt = Undecided
    /\ lastPoll = 0 - Gap
    /\ slowDowns = 0 /\ slowBefore = 0

-----------------------------------------------------------------------------
(***************************************************************************)
(* Time and the human                                                      *)
(***************************************************************************)

Tick ==
    /\ pc \in {"sleeping", "sending"}
    /\ left > 0
    /\ left' = left - 1
    /\ now' = Min({now + 1, Horizon})
    /\ UNCHANGED <<pc, elapsed, interval, grant, decidedAt, lastPoll, slowDowns, slowBefore>>

Decide(decision) ==
    /\ grant = "pending"
    /\ now < ExpiresIn
    /\ grant' = decision
    /\ decidedAt' = now /\ slowBefore' = slowDowns
    /\ UNCHANGED <<now, pc, left, elapsed, interval, lastPoll, slowDowns>>

-----------------------------------------------------------------------------
(***************************************************************************)
(* The loop                                                                *)
(***************************************************************************)

\* Mutant: the sleeps are not added up.
CountsNothing == UNCHANGED elapsed

\* Mutant: a pending answer adds the interval once more.
CountsTwice == elapsed' = elapsed + 2 * interval

CountsSleep == elapsed' = elapsed + interval

\* Mutant: gives up when another full wait would not fit.
GivesUpEarly(total) == total + interval + Penalty >= ExpiresIn

DeadlineReached(total) == total >= ExpiresIn

\* sleep(interval) returns.
Wake ==
    /\ pc = "sleeping" /\ left = 0
    /\ CountsSleep
    /\ IF DeadlineReached(elapsed')
       THEN pc' = "TIMEOUT" /\ UNCHANGED left
       ELSE pc' = "sending" /\ left' \in Latencies
    /\ UNCHANGED <<now, interval, grant, decidedAt, lastPoll, slowDowns, slowBefore>>

Arrives ==
    /\ pc = "sending" /\ left = 0
    /\ lastPoll' = now

SleepsAgain(next) ==
    /\ pc' = "sleeping"
    /\ left' = next
    /\ interval' = next
    /\ UNCHANGED <<now, elapsed, decidedAt, slowBefore>>

Ends(outcome) ==
    /\ pc' = outcome
    /\ UNCHANGED <<now, left, elapsed, interval, decidedAt, slowDowns, slowBefore>>

\* Not judged once the clock has stopped.
TooFast == now < Horizon /\ now - lastPoll < Gap

Expired == now >= ExpiresIn

\* 400 AUTHORIZATION_PENDING.  The server may notice an expiry late.
Pending ==
    /\ Arrives
    /\ grant = "pending" /\ ~TooFast
    /\ SleepsAgain(interval)
    /\ UNCHANGED <<grant, slowDowns>>

\* Mutant: the penalty is not added.
NoPenalty == interval

Slower == interval + Penalty

\* 400 SLOW_DOWN.
SlowDown ==
    /\ Arrives
    /\ grant \in {"pending", "approved"} /\ TooFast
    /\ slowDowns' = slowDowns + 1
    /\ SleepsAgain(Slower)
    /\ UNCHANGED grant

\* 200: the server hands the pair out once.
Granted ==
    /\ Arrives
    /\ grant = "approved" /\ ~Expired
    /\ grant' = "spent"
    /\ Ends("session")

\* 401: denied or expired.
Refused ==
    /\ Arrives
    /\ grant = "denied" \/ Expired
    /\ Ends("AUTH_REQUIRED")
    /\ UNCHANGED grant

\* The pair is handed out, the answer is lost or unusable.
GrantLost ==
    /\ Arrives
    /\ grant = "approved" /\ ~Expired
    /\ grant' = "spent"
    /\ Ends("failed")

\* The pair is handed out with an actor_id that is no string: not one of the
\* program's own errors is thrown but the JSON library's.
GrantGarbled ==
    /\ Arrives
    /\ grant = "approved" /\ ~Expired
    /\ grant' = "spent"
    /\ Ends("INTERNAL")

\* Transport error, 429, 5xx: nothing is retried.
PollFails ==
    /\ Arrives
    /\ Ends("failed")
    /\ UNCHANGED grant

Poll == Pending \/ SlowDown \/ Granted \/ Refused \/ GrantLost \/ GrantGarbled \/ PollFails

FlowNext ==
    \/ Tick
    \/ \E decision \in {"approved", "denied"} : Decide(decision)
    \/ Wake
    \/ Poll

-----------------------------------------------------------------------------
(***************************************************************************)
(* Properties                                                              *)
(***************************************************************************)

\* An approval that leaves room for the wait and the request under way, and
\* for one more of each for every SLOW_DOWN that comes after it, is not lost
\* to the deadline or the expiry.
ApprovalInTimeCounts ==
    pc \in {"TIMEOUT", "AUTH_REQUIRED"} /\ grant = "approved" =>
        decidedAt + (slowDowns - slowBefore + 1) * (interval + MaxLatency) >= ExpiresIn

\* TIMEOUT is reported only when the code has really expired.
TimesOutLate == pc = "TIMEOUT" => now >= ExpiresIn

\* SLOW_DOWN works: each one brings the polls closer to the gap the server
\* wants, and once it is reached the server has no reason left to ask.
SlowDownConverges == (slowDowns - 1) * Penalty < Gap - Interval
=============================================================================
