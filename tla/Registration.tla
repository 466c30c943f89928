--------------------------- MODULE Registration ---------------------------
(***************************************************************************)
(* astral register (commands/register_cmd.cpp) and astral login            *)
(* (commands/login_cmd.cpp), one run after the other: register creates an  *)
(* account with a one-time code and then logs in like login, through the   *)
(* device flow (DeviceFlow).  A run can end at every step, and the user    *)
(* goes by what it reported.                                               *)
(***************************************************************************)
EXTENDS DeviceFlow

CONSTANT
    MaxRuns         \* bound: runs of the two commands

ASSUME RunsAssumption == MaxRuns \in Nat

VARIABLES
    run,        \* number of the current, or latest, run
    cmd,        \* its command line
    stage,      \* "idle", "posting", "authorizing", "polling", "saving"
    code,       \* the registration code: "fresh" or "used"
    account,    \* the run that created the account, 0 if there is none
    stored,     \* the run whose session the credentials file holds, or 0
    report      \* how the latest run ended, and where

vars == <<flow, run, cmd, stage, code, account, stored, report>>

Command == {"register", "register_only", "login"}
NoReport == [exit |-> "none", at |-> "idle", hint |-> FALSE, loggedIn |-> FALSE]
Report ==
    [exit : {"none", "ok", "error", "internal", "died"},
     at : {"idle", "posting", "authorizing", "polling", "saving"},
     hint : BOOLEAN, loggedIn : BOOLEAN]

TypeOK ==
    /\ FlowTypeOK
    /\ run \in 0..MaxRuns
    /\ cmd \in Command
    /\ stage \in {"idle", "posting", "authorizing", "polling", "saving"}
    /\ code \in {"fresh", "used"}
    /\ account \in 0..MaxRuns /\ stored \in 0..MaxRuns
    /\ report \in Report

Init ==
    /\ FlowInit
    /\ run = 0 /\ cmd = "login" /\ stage = "idle"
    /\ code = "fresh" /\ account = 0 /\ stored = 0
    /\ report = NoReport

\* The flow of a run is forgotten with it.
Rests ==
    /\ now' = 0 /\ pc' = "sleeping" /\ left' = Interval /\ elapsed' = 0
    /\ interval' = Interval /\ grant' = "pending" /\ decidedAt' = Horizon + 1
    /\ lastPoll' = 0 - Gap /\ slowDowns' = 0 /\ slowBefore' = 0

Exits(exit, hint, loggedIn) ==
    /\ stage' = "idle"
    /\ report' = [exit |-> exit, at |-> stage, hint |-> hint, loggedIn |-> loggedIn]
    /\ Rests
    /\ UNCHANGED <<run, cmd>>

GoesOn(next) == stage' = next /\ UNCHANGED <<flow, run, cmd, report>>

\* An AstralError out of runDeviceFlow leaves register with "account created;
\* run 'astral login'", whichever step threw it.
HintedAt(at) == cmd = "register" /\ at \in {"authorizing", "polling"}

Throws == Exits("error", HintedAt(stage), FALSE)

\* A json::type_error passes the catch for AstralError and ends as INTERNAL.
Escapes == Exits("internal", FALSE, FALSE)

-----------------------------------------------------------------------------
\* Options are complete (or asked for on a terminal), the server is found.
Start(command) ==
    /\ stage = "idle" /\ run < MaxRuns
    /\ run' = run + 1
    /\ cmd' = command
    /\ stage' = IF command = "login" THEN "authorizing" ELSE "posting"
    /\ report' = NoReport
    /\ UNCHANGED <<flow, code, account, stored>>

\* POST /auth/register answered 201; the answer may be lost or garbled, or
\* its e-mail address not be a string to print.
Registers ==
    /\ stage = "posting"
    /\ code = "fresh" /\ account = 0
    /\ account' = run /\ code' = "used"
    /\ UNCHANGED stored
    /\ \/ cmd = "register" /\ GoesOn("authorizing")
       \/ cmd = "register_only" /\ Exits("ok", FALSE, FALSE)
       \/ Throws
       \/ Escapes

\* INVITE_INVALID, EMAIL_TAKEN, another rejection or no answer at all.
PostFails ==
    /\ stage = "posting"
    /\ Throws
    /\ UNCHANGED <<code, account, stored>>

\* Somebody else uses the code up, or it is revoked.
CodeGoes ==
    /\ code = "fresh"
    /\ code' = "used"
    /\ UNCHANGED <<flow, run, cmd, stage, account, stored, report>>

\* POST /auth/device/authorizations: the flow begins, or does not.  interval
\* and expires_in are read unchecked and may not be numbers.
Authorize ==
    /\ stage = "authorizing"
    /\ GoesOn("polling") \/ Throws \/ Escapes
    /\ UNCHANGED <<code, account, stored>>

Polls(A) == stage = "polling" /\ A /\ UNCHANGED <<run, cmd, stage, code, account, stored, report>>

FlowEnds ==
    /\ stage = "polling" /\ pc \in Ended
    /\ \/ pc = "session" /\ GoesOn("saving")
       \/ pc = "INTERNAL" /\ Escapes
       \/ pc \notin {"session", "INTERNAL"} /\ Throws
    /\ UNCHANGED <<code, account, stored>>

Saved ==
    /\ stage = "saving"
    /\ stored' = run
    /\ Exits("ok", FALSE, TRUE)
    /\ UNCHANGED <<code, account>>

\* Mutant: a failed write is not noticed.
FailsSilently ==
    /\ stage = "saving"
    /\ Exits("ok", FALSE, TRUE)
    /\ UNCHANGED <<code, account, stored>>

\* saveSession throws: behind the try block of register.
SaveFails ==
    /\ stage = "saving"
    /\ Throws
    /\ UNCHANGED <<code, account, stored>>

\* Ctrl-C or a kill.
Dies ==
    /\ stage # "idle"
    /\ Exits("died", FALSE, FALSE)
    /\ UNCHANGED <<code, account, stored>>

Next ==
    \/ \E command \in Command : Start(command)
    \/ Registers \/ PostFails \/ CodeGoes
    \/ Authorize \/ Polls(FlowNext) \/ FlowEnds
    \/ Saved \/ SaveFails \/ Dies

\* A started process takes its next step, and time passes under its sleeps;
\* requests end, at the latest by their timeout.
Fairness ==
    /\ WF_vars(Registers \/ PostFails)
    /\ WF_vars(Authorize)
    /\ WF_vars(Polls(Tick)) /\ WF_vars(Polls(Wake)) /\ WF_vars(Polls(Poll))
    /\ WF_vars(FlowEnds)
    /\ WF_vars(Saved \/ SaveFails)

Spec == Init /\ [][Next]_vars /\ Fairness

-----------------------------------------------------------------------------
(***************************************************************************)
(* Properties                                                              *)
(***************************************************************************)

\* A register that creates the account and then fails to log in says that the
\* account is there, so that a user who goes by the report runs login and does
\* not register again (register_cmd.cpp, the catch around runDeviceFlow).  It
\* does not, if a save fails or an answer has a field of the wrong type.
TellsOfAccount ==
    /\ report.exit \in {"error", "internal"} /\ report.at # "posting"
    /\ account = run /\ run > 0
    => report.hint

\* A run that reports a login has left its session in the credentials file,
\* and the hint to run login comes from a run that created the account and has
\* left no session.
ReportsTheTruth ==
    /\ report.loggedIn => stored = run
    /\ report.hint => account = run /\ stored # run

\* Every run comes to an end, however often the server says pending or slow
\* down and whatever the human does, unless the server asks for an interval of
\* 0: then the loop counts no time and polls for ever (device_flow.cpp).
RunEnds == Interval # 0 => (stage # "idle" ~> stage = "idle")
=============================================================================
