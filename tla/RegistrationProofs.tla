------------------------ MODULE RegistrationProofs ------------------------
(***************************************************************************)
(* What TLAPS proves of Registration and DeviceFlow for any expiry,        *)
(* interval, penalty and latencies: the reports of a run are true, a flow  *)
(* gives up only on an expired code and not on an approval in time, and    *)
(* SLOW_DOWN converges.                                                    *)
(***************************************************************************)
EXTENDS Registration, TLAPS

\* The clock is never behind the sleeps the client has added up.
Timely ==
    /\ pc = "sleeping" => left <= interval
    /\ now = Horizon \/ pc # "sleeping" \/ now >= elapsed + interval - left
    /\ now = Horizon \/ pc # "sending" \/ now >= elapsed
    /\ TimesOutLate

\* Two polls are at least one interval apart.
Spaced ==
    /\ interval = Interval + Penalty * slowDowns
    /\ now = Horizon \/ pc # "sleeping" \/ now - lastPoll >= interval - left
    /\ now = Horizon \/ pc # "sending" \/ now - lastPoll >= interval
    /\ SlowDownConverges

\* How much later than an approval the flow can be: a wait for each round that
\* SLOW_DOWN has added, and one for the round under way.
Rounds == slowDowns - slowBefore
Wait == interval + MaxLatency

Prompt ==
    /\ pc = "sending" => left <= MaxLatency
    /\ pc = "AUTH_REQUIRED" => grant = "denied" \/ Expired
    /\ grant = "approved" /\ pc = "sleeping" => now + left <= decidedAt + Rounds * Wait + interval
    /\ grant = "approved" /\ pc = "sending" => now + left <= decidedAt + Rounds * Wait + Wait
    /\ ApprovalInTimeCounts

FlowInv == FlowTypeOK /\ Timely /\ Spaced

\* What a run knows of the account when it gets to a step.
Informed ==
    /\ account <= run /\ stored <= run
    /\ stage # "idle" => run > 0 /\ stored < run /\ report = NoReport
    /\ stage = "posting" => account < run /\ cmd # "login"
    /\ cmd = "login" /\ run > 0 => account < run
    /\ stage \in {"authorizing", "polling", "saving"} =>
          cmd = "login" \/ (cmd = "register" /\ account = run)
    /\ ReportsTheTruth

Inv == TypeOK /\ Timely /\ Spaced /\ Prompt /\ Informed

-----------------------------------------------------------------------------
LEMMA MinOfTwo ==
    ASSUME NEW a \in Int, NEW b \in Int
    PROVE  Min({a, b}) = IF a <= b THEN a ELSE b
BY DEF Min

LEMMA TickInv ==
    ASSUME FlowInv, Tick
    PROVE  FlowInv'
<1> USE TimesAssumption DEF FlowInv, Tick
<1>1. now' = IF now + 1 <= Horizon THEN now + 1 ELSE Horizon
  BY MinOfTwo DEF FlowTypeOK
<1>2. FlowTypeOK'
  BY <1>1 DEF FlowTypeOK, Undecided
<1>3. Timely'
  BY <1>1 DEF FlowTypeOK, Timely, TimesOutLate
<1>4. Spaced'
  BY <1>1 DEF FlowTypeOK, Spaced, SlowDownConverges
<1> QED
  BY <1>2, <1>3, <1>4

LEMMA DecideInv ==
    ASSUME FlowInv, NEW decision \in {"approved", "denied"}, Decide(decision)
    PROVE  FlowInv'
BY TimesAssumption DEF FlowInv, Decide, FlowTypeOK, Undecided, Timely, TimesOutLate, Spaced,
   SlowDownConverges

\* The sleep that ends is one the clock has seen.
LEMMA WakeInv ==
    ASSUME FlowInv, Wake
    PROVE  FlowInv'
<1> USE TimesAssumption DEF FlowInv, Wake, CountsSleep, DeadlineReached
<1>1. interval \in Nat /\ elapsed' = elapsed + interval
  BY DEF FlowTypeOK
<1>2. FlowTypeOK'
  <2>1. elapsed' \in Nat /\ pc' \in {"sending", "TIMEOUT"}
    BY <1>1 DEF FlowTypeOK
  <2>2. left' \in Latencies \/ left' = left
    OBVIOUS
  <2>3. left' \in Nat
    <3>1. left \in Nat /\ \A latency \in Latencies : latency \in Nat
      BY DEF FlowTypeOK
    <3> QED
      BY <2>2, <3>1
  <2>4. UNCHANGED <<now, interval, grant, decidedAt, lastPoll, slowDowns, slowBefore>>
    OBVIOUS
  <2> QED
    BY <2>1, <2>3, <2>4 DEF FlowTypeOK, Ended, Undecided
<1>3. Timely'
  BY <1>1 DEF FlowTypeOK, Timely, TimesOutLate
<1>4. Spaced'
  BY DEF FlowTypeOK, Spaced, SlowDownConverges
<1> QED
  BY <1>2, <1>3, <1>4

\* A poll too soon after the previous one shows that the interval, with all
\* penalties so far, is below the gap.
LEMMA SlowDownInv ==
    ASSUME FlowInv, SlowDown
    PROVE  FlowInv'
<1> USE TimesAssumption DEF FlowInv, SlowDown, Arrives, SleepsAgain
<1>1. /\ slowDowns \in Nat /\ slowDowns' = slowDowns + 1
      /\ Penalty * slowDowns \in Nat /\ interval \in Nat
      /\ Penalty * slowDowns' = Penalty * slowDowns + Penalty
      /\ (slowDowns' - 1) * Penalty = Penalty * slowDowns
  BY DEF FlowTypeOK
<1>2. interval' = Interval + Penalty * slowDowns' /\ interval' = interval + Penalty
  BY <1>1 DEF Slower, Spaced
<1>3. FlowTypeOK'
  <2>1. interval' \in {Interval + Penalty * n : n \in 0..slowDowns'}
    BY <1>1, <1>2
  <2>2. left' \in Nat /\ lastPoll' \in (0 - Gap)..Horizon
    BY <1>1, <1>2 DEF FlowTypeOK
  <2> QED
    BY <1>1, <2>1, <2>2 DEF FlowTypeOK
<1>4. Timely'
  BY <1>1, <1>2 DEF FlowTypeOK, Timely, TimesOutLate
<1>5. interval < Gap
  BY <1>1 DEF FlowTypeOK, Spaced, TooFast
<1>6. SlowDownConverges'
  <2>1. Interval + Penalty * slowDowns < Gap
    BY <1>5 DEF Spaced
  <2> QED
    BY <1>1, <2>1 DEF SlowDownConverges
<1>7. Spaced'
  BY <1>2, <1>6, <1>1 DEF Spaced, FlowTypeOK
<1> QED
  BY <1>3, <1>4, <1>7

LEMMA PollInv ==
    ASSUME FlowInv, Poll
    PROVE  FlowInv'
<1> USE TimesAssumption DEF FlowInv, Arrives
<1>0. interval \in Nat /\ now \in (0 - Gap)..Horizon
  BY DEF FlowTypeOK
<1>1. CASE SlowDown
  BY <1>1, SlowDownInv
<1>2. CASE Pending
  <2>1. FlowTypeOK'
    BY <1>0, <1>2 DEF Pending, SleepsAgain, FlowTypeOK
  <2>2. Timely'
    BY <1>0, <1>2 DEF Pending, SleepsAgain, FlowTypeOK, Timely, TimesOutLate
  <2>3. Spaced'
    BY <1>0, <1>2 DEF Pending, SleepsAgain, FlowTypeOK, Spaced, SlowDownConverges
  <2> QED
    BY <2>1, <2>2, <2>3
<1>3. CASE Granted \/ Refused \/ GrantLost \/ GrantGarbled \/ PollFails
  <2>1. FlowTypeOK'
    BY <1>0, <1>3 DEF Granted, Refused, GrantLost, GrantGarbled, PollFails, Ends, Ended, FlowTypeOK
  <2>2. Timely' /\ Spaced'
    BY <1>3 DEF Granted, Refused, GrantLost, GrantGarbled, PollFails, Ends, Timely, TimesOutLate, Spaced,
                SlowDownConverges
  <2> QED
    BY <2>1, <2>2
<1> QED
  BY <1>1, <1>2, <1>3 DEF Poll

\* Every step of the flow, and a flow forgotten, keep what a flow keeps.
LEMMA FlowNextInv == FlowInv /\ FlowNext => FlowInv'
BY TickInv, DecideInv, WakeInv, PollInv DEF FlowNext

LEMMA FlowInitInv == FlowInit => FlowInv
<1> SUFFICES ASSUME FlowInit PROVE FlowInv
  OBVIOUS
<1> USE TimesAssumption DEF FlowInit
<1>1. interval = Interval + Penalty * slowDowns /\ (slowDowns - 1) * Penalty = 0 - Penalty
  OBVIOUS
<1>2. FlowTypeOK
  BY <1>1 DEF FlowTypeOK, Undecided
<1>3. Timely /\ Spaced
  BY <1>1 DEF Timely, TimesOutLate, Spaced, SlowDownConverges
<1> QED
  BY <1>2, <1>3 DEF FlowInv

LEMMA RestsInv == Rests => FlowInv'
<1> SUFFICES ASSUME Rests PROVE FlowInv'
  OBVIOUS
<1> USE TimesAssumption DEF Rests
<1>1. interval' = Interval + Penalty * slowDowns' /\ (slowDowns' - 1) * Penalty = 0 - Penalty
  OBVIOUS
<1>2. FlowTypeOK'
  BY <1>1 DEF FlowTypeOK, Undecided
<1>3. Timely' /\ Spaced'
  BY <1>1 DEF Timely, TimesOutLate, Spaced, SlowDownConverges
<1> QED
  BY <1>2, <1>3 DEF FlowInv

-----------------------------------------------------------------------------
(***************************************************************************)
(* How long an approval can go unnoticed                                   *)
(***************************************************************************)

\* Rounds and Wait are natural numbers.
LEMMA RoundsType ==
    ASSUME FlowTypeOK
    PROVE  /\ Rounds \in Nat /\ Wait \in Nat /\ interval \in Nat /\ now \in Nat
           /\ left \in Nat /\ decidedAt \in Nat /\ slowDowns \in Nat /\ slowBefore \in Nat
           /\ Rounds * Wait \in Nat
           /\ (Rounds + 1) * Wait = Rounds * Wait + Wait
<1> USE TimesAssumption DEF FlowTypeOK
<1>1. interval \in Nat
  OBVIOUS
<1>2. /\ Rounds \in Nat /\ Wait \in Nat /\ now \in Nat
      /\ left \in Nat /\ decidedAt \in Nat /\ slowDowns \in Nat /\ slowBefore \in Nat
  BY <1>1 DEF Rounds, Wait, Undecided
<1>3. \A a, b \in Nat : a * b \in Nat /\ (a + 1) * b = a * b + b
  OBVIOUS
<1> QED
  BY <1>1, <1>2, <1>3

\* What the property says, in terms of the two.
LEMMA InTimeIs ==
    ASSUME FlowTypeOK
    PROVE  (slowDowns - slowBefore + 1) * (interval + MaxLatency) = Rounds * Wait + Wait
BY RoundsType DEF Rounds, Wait

LEMMA WakePrompt ==
    ASSUME FlowInv, Prompt, FlowInv', Wake
    PROVE  Prompt'
<1> USE TimesAssumption
<1>1. /\ UNCHANGED <<now, interval, grant, decidedAt, slowDowns, slowBefore>>
      /\ pc = "sleeping" /\ left = 0
      /\ (pc' = "TIMEOUT" /\ left' = left) \/ (pc' = "sending" /\ left' \in Latencies)
  BY DEF Wake
<1>2. Rounds' = Rounds /\ Wait' = Wait
  BY <1>1 DEF Rounds, Wait
<1>3. /\ Rounds * Wait \in Nat /\ interval \in Nat /\ decidedAt \in Nat /\ now \in Nat
      /\ Wait = interval + MaxLatency
  BY RoundsType DEF FlowInv, Wait
<1>4. grant = "approved" => now <= decidedAt + Rounds * Wait + interval
  BY <1>1, <1>3 DEF Prompt
<1>5. CASE pc' = "TIMEOUT"
  <2>1. now >= ExpiresIn
    BY <1>1, <1>5 DEF FlowInv, Timely, TimesOutLate
  <2>2. grant' = "approved" => decidedAt' + Rounds' * Wait' + Wait' >= ExpiresIn
    BY <1>1, <1>2, <1>3, <1>4, <2>1
  <2>3. ApprovalInTimeCounts'
    <3>1. (slowDowns' - slowBefore' + 1) * (interval' + MaxLatency) = Rounds * Wait + Wait
      BY <1>1, InTimeIs DEF FlowInv
    <3> QED
      BY <1>1, <1>2, <1>3, <2>2, <3>1 DEF ApprovalInTimeCounts
  <2> QED
    BY <1>5, <2>3 DEF Prompt
<1>6. CASE pc' = "sending" /\ left' \in Latencies
  <2>1. left' \in Nat /\ left' <= MaxLatency
    BY <1>6
  <2>2. grant' = "approved" => now' + left' <= decidedAt' + Rounds' * Wait' + Wait'
    BY <1>1, <1>2, <1>3, <1>4, <2>1
  <2> QED
    BY <1>6, <2>1, <2>2 DEF Prompt, ApprovalInTimeCounts
<1> QED
  BY <1>1, <1>5, <1>6

LEMMA TickPrompt ==
    ASSUME FlowInv, Prompt, FlowInv', Tick
    PROVE  Prompt'
<1> USE TimesAssumption
<1>1. /\ UNCHANGED <<pc, interval, grant, decidedAt, slowDowns, slowBefore>>
      /\ pc \in {"sleeping", "sending"} /\ left' = left - 1
      /\ now' = Min({now + 1, Horizon})
  BY DEF Tick
<1>2. Rounds' = Rounds /\ Wait' = Wait
  BY <1>1 DEF Rounds, Wait
<1>3. /\ Rounds * Wait \in Nat /\ interval \in Nat /\ decidedAt \in Nat /\ now \in Nat
      /\ left \in Nat /\ Wait \in Nat
  BY RoundsType DEF FlowInv
<1>4. now' \in Int /\ now' + left' <= now + left
  <2>1. now' = IF now + 1 <= Horizon THEN now + 1 ELSE Horizon
    BY <1>1, <1>3, MinOfTwo
  <2> QED
    BY <1>1, <1>3, <2>1
<1> QED
  BY <1>1, <1>2, <1>3, <1>4 DEF Prompt, ApprovalInTimeCounts

\* From the decision on the flow has what is left of its round.
LEMMA DecidePrompt ==
    ASSUME FlowInv, Prompt, FlowInv', NEW decision \in {"approved", "denied"}, Decide(decision)
    PROVE  Prompt'
<1> USE TimesAssumption
<1>1. /\ UNCHANGED <<now, pc, left, interval, slowDowns>>
      /\ grant = "pending" /\ now < ExpiresIn
      /\ decidedAt' = now /\ slowBefore' = slowDowns
  BY DEF Decide
<1>2. /\ interval \in Nat /\ now \in Nat /\ left \in Nat /\ slowDowns \in Nat
      /\ Wait \in Nat /\ Wait = interval + MaxLatency
  BY RoundsType DEF FlowInv, Wait
<1>3. Rounds' = 0 /\ Wait' = Wait /\ Rounds' * Wait' = 0
  BY <1>1, <1>2 DEF Rounds, Wait
<1>4. pc \notin {"TIMEOUT", "AUTH_REQUIRED"}
  BY <1>1, <1>2 DEF Prompt, Expired, FlowInv, Timely, TimesOutLate
<1>5. /\ pc = "sleeping" => left <= interval
      /\ pc = "sending" => left <= MaxLatency
  BY DEF Prompt, FlowInv, Timely
<1>6. pc' = "sleeping" => now' + left' <= decidedAt' + Rounds' * Wait' + interval'
  BY <1>1, <1>2, <1>3, <1>5
<1>7. pc' = "sending" => now' + left' <= decidedAt' + Rounds' * Wait' + Wait'
  BY <1>1, <1>2, <1>3, <1>5
<1> QED
  BY <1>1, <1>4, <1>5, <1>6, <1>7 DEF Prompt, ApprovalInTimeCounts

\* SLOW_DOWN makes every wait longer and adds one.
LEMMA SlowDownPrompt ==
    ASSUME FlowInv, Prompt, FlowInv', SlowDown
    PROVE  Prompt'
<1> USE TimesAssumption
<1>1. /\ pc = "sending" /\ left = 0 /\ pc' = "sleeping"
      /\ slowDowns' = slowDowns + 1
      /\ interval' = interval + Penalty /\ left' = interval + Penalty
      /\ UNCHANGED <<now, grant, decidedAt, slowBefore>>
  BY DEF SlowDown, Arrives, SleepsAgain, Slower
<1>2. /\ Rounds \in Nat /\ Wait \in Nat /\ interval \in Nat /\ decidedAt \in Nat /\ now \in Nat
      /\ slowDowns \in Nat /\ slowBefore \in Nat
      /\ Rounds * Wait \in Nat /\ (Rounds + 1) * Wait = Rounds * Wait + Wait
  BY RoundsType DEF FlowInv
<1>3. Rounds' = Rounds + 1 /\ Wait' = Wait + Penalty
  BY <1>1, <1>2 DEF Rounds, Wait
<1>4. \A a, b, c \in Nat : a * (b + c) = a * b + a * c /\ a * b \in Nat /\ a * c \in Nat
  OBVIOUS
<1>5. /\ Rounds' * Wait' = (Rounds + 1) * Wait + (Rounds + 1) * Penalty
      /\ (Rounds + 1) * Penalty \in Nat
  <2>1. Rounds + 1 \in Nat /\ Penalty \in Nat
    BY <1>2
  <2> QED
    BY <1>2, <1>3, <1>4, <2>1
<1>6. Rounds' * Wait' \in Nat /\ Rounds' * Wait' >= Rounds * Wait + Wait
  BY <1>2, <1>5
<1>7. grant = "approved" => now <= decidedAt + Rounds * Wait + Wait
  BY <1>1, <1>2 DEF Prompt
<1>8. grant' = "approved" => now' + left' <= decidedAt' + Rounds' * Wait' + interval'
  BY <1>1, <1>2, <1>6, <1>7
<1> QED
  BY <1>1, <1>8 DEF Prompt, ApprovalInTimeCounts

LEMMA PollPrompt ==
    ASSUME FlowInv, Prompt, FlowInv', Poll
    PROVE  Prompt'
<1> USE TimesAssumption
<1>1. CASE SlowDown
  BY <1>1, SlowDownPrompt
<1>2. CASE Pending
  BY <1>2 DEF Pending, SleepsAgain, Prompt, ApprovalInTimeCounts
<1>3. CASE Granted \/ GrantLost \/ GrantGarbled \/ PollFails
  BY <1>3 DEF Granted, GrantLost, GrantGarbled, PollFails, Ends, Prompt, ApprovalInTimeCounts
<1>4. CASE Refused
  <2>1. /\ pc = "sending" /\ left = 0 /\ pc' = "AUTH_REQUIRED"
        /\ grant = "denied" \/ Expired
        /\ UNCHANGED <<now, interval, grant, decidedAt, slowDowns, slowBefore>>
    BY <1>4 DEF Refused, Arrives, Ends
  <2>2. Rounds' = Rounds /\ Wait' = Wait
    BY <2>1 DEF Rounds, Wait
  <2>3. /\ Rounds * Wait \in Nat /\ Wait \in Nat /\ decidedAt \in Nat /\ now \in Nat
    BY RoundsType DEF FlowInv
  <2>4. grant' = "approved" => decidedAt' + Rounds' * Wait' + Wait' >= ExpiresIn
    BY <2>1, <2>2, <2>3 DEF Prompt, Expired
  <2>5. ApprovalInTimeCounts'
    <3>1. (slowDowns' - slowBefore' + 1) * (interval' + MaxLatency) = Rounds * Wait + Wait
      BY <2>1, InTimeIs DEF FlowInv
    <3> QED
      BY <2>1, <2>2, <2>3, <2>4, <3>1 DEF ApprovalInTimeCounts
  <2> QED
    BY <2>1, <2>5 DEF Prompt, Expired
<1> QED
  BY <1>1, <1>2, <1>3, <1>4 DEF Poll

LEMMA FlowNextPrompt == FlowInv /\ Prompt /\ FlowInv' /\ FlowNext => Prompt'
BY TickPrompt, DecidePrompt, WakePrompt, PollPrompt DEF FlowNext

LEMMA FlowInitPrompt == FlowInit => Prompt
BY DEF FlowInit, Prompt, ApprovalInTimeCounts

LEMMA RestsPrompt == Rests => Prompt'
BY DEF Rests, Prompt, ApprovalInTimeCounts

-----------------------------------------------------------------------------
(***************************************************************************)
(* The commands around the flow                                            *)
(***************************************************************************)

LEMMA InitInv == Init => Inv
<1> SUFFICES ASSUME Init PROVE Inv
  OBVIOUS
<1>1. FlowInv
  BY FlowInitInv DEF Init
<1>2. Prompt
  BY FlowInitPrompt DEF Init
<1>3. TypeOK /\ Informed
  BY <1>1, RunsAssumption
     DEF Init, FlowInv, TypeOK, Command, Report, NoReport, Informed, ReportsTheTruth
<1> QED
  BY <1>1, <1>2, <1>3 DEF FlowInv, Inv

CommandStep ==
    \/ \E command \in Command : Start(command)
    \/ Registers \/ PostFails \/ CodeGoes
    \/ Authorize \/ FlowEnds
    \/ Saved \/ SaveFails \/ Dies

\* A command leaves the flow alone or forgets it.
LEMMA CommandFlow ==
    ASSUME FlowInv, Prompt, CommandStep
    PROVE  FlowInv' /\ Prompt'
<1>1. UNCHANGED flow \/ Rests
  BY DEF CommandStep, Start, Registers, PostFails, CodeGoes, Authorize, FlowEnds, Saved, SaveFails,
         Dies, Throws, Escapes, Exits, GoesOn
<1>2. CASE UNCHANGED flow
  <2>1. FlowInv'
    BY <1>2 DEF flow, FlowInv, FlowTypeOK, Timely, TimesOutLate, Spaced, SlowDownConverges
  <2>2. Prompt'
    BY <1>2 DEF flow, Prompt, Rounds, Wait, Expired, ApprovalInTimeCounts
  <2> QED
    BY <2>1, <2>2
<1> QED
  BY <1>1, <1>2, RestsInv, RestsPrompt

\* What a run that ends leaves: stage and report.
LEMMA ExitsReport ==
    ASSUME TypeOK, NEW exit \in {"ok", "error", "internal", "died"}, NEW hint \in BOOLEAN,
           NEW loggedIn \in BOOLEAN, Exits(exit, hint, loggedIn)
    PROVE  /\ stage' = "idle" /\ report' \in Report
           /\ report'.exit = exit /\ report'.at = stage
           /\ report'.hint = hint /\ report'.loggedIn = loggedIn
           /\ run' = run /\ cmd' = cmd
BY DEF Exits, TypeOK, Report

LEMMA ThrowsReport ==
    ASSUME TypeOK, Throws
    PROVE  /\ stage' = "idle" /\ report' \in Report
           /\ report'.exit = "error" /\ report'.at = stage
           /\ report'.hint <=> (cmd = "register" /\ stage \in {"authorizing", "polling"})
           /\ ~report'.loggedIn
           /\ run' = run /\ cmd' = cmd
<1>1. HintedAt(stage) \in BOOLEAN
  BY DEF HintedAt
<1>2. Exits("error", HintedAt(stage), FALSE)
  BY DEF Throws
<1>3. /\ stage' = "idle" /\ report' \in Report
      /\ report'.exit = "error" /\ report'.at = stage
      /\ report'.hint = HintedAt(stage) /\ report'.loggedIn = FALSE
      /\ run' = run /\ cmd' = cmd
  BY <1>1, <1>2, ExitsReport
<1> QED
  BY <1>3 DEF HintedAt

LEMMA EscapesReport ==
    ASSUME TypeOK, Escapes
    PROVE  /\ stage' = "idle" /\ report' \in Report
           /\ ~report'.hint /\ ~report'.loggedIn
           /\ run' = run /\ cmd' = cmd
<1>1. Exits("internal", FALSE, FALSE)
  BY DEF Escapes
<1> QED
  BY <1>1, ExitsReport

LEMMA CommandType ==
    ASSUME TypeOK, FlowTypeOK', CommandStep
    PROVE  TypeOK'
<1> USE RunsAssumption DEF TypeOK
<1>1. ASSUME NEW command \in Command, Start(command) PROVE TypeOK'
  BY <1>1 DEF Start, Report, NoReport, Command
<1>2. CASE Registers
  BY <1>2, ExitsReport, ThrowsReport, EscapesReport DEF Registers, GoesOn
<1>3. CASE PostFails
  BY <1>3, ThrowsReport DEF PostFails
<1>4. CASE CodeGoes
  BY <1>4 DEF CodeGoes
<1>5. CASE Dies
  BY <1>5, ExitsReport DEF Dies
<1>6. CASE Authorize \/ FlowEnds
  BY <1>6, ThrowsReport, EscapesReport DEF Authorize, FlowEnds, GoesOn
<1>7. CASE Saved
  BY <1>7, ExitsReport DEF Saved
<1>8. CASE SaveFails
  BY <1>8, ThrowsReport DEF SaveFails
<1> QED
  BY <1>1, <1>2, <1>3, <1>4, <1>5, <1>6, <1>7, <1>8 DEF CommandStep

\* Each step knows what the ones before it did.
LEMMA CommandInformed ==
    ASSUME TypeOK, Informed, CommandStep
    PROVE  Informed'
<1> USE RunsAssumption DEF Informed, ReportsTheTruth
<1>0. /\ run \in Nat /\ account \in Nat /\ stored \in Nat
      /\ cmd \in {"register", "register_only", "login"}
      /\ NoReport.exit # "error" /\ ~NoReport.loggedIn /\ ~NoReport.hint
  BY DEF TypeOK, NoReport, Command
<1>1. ASSUME NEW command \in Command, Start(command) PROVE Informed'
  BY <1>0, <1>1 DEF Start, Command
<1>2. CASE Registers
  <2>1. CASE cmd = "register" /\ GoesOn("authorizing")
    BY <1>0, <1>2, <2>1 DEF Registers, GoesOn
  <2>2. CASE Exits("ok", FALSE, FALSE)
    <3>1. /\ stage' = "idle" /\ report'.exit = "ok" /\ report'.hint = FALSE
          /\ report'.loggedIn = FALSE /\ run' = run /\ cmd' = cmd
      BY <2>2, ExitsReport
    <3> QED
      BY <1>0, <1>2, <3>1 DEF Registers
  <2>3. CASE Throws
    BY <1>0, <1>2, <2>3, ThrowsReport DEF Registers
  <2>4. CASE Escapes
    BY <1>0, <1>2, <2>4, EscapesReport DEF Registers
  <2> QED
    BY <1>2, <2>1, <2>2, <2>3, <2>4 DEF Registers
<1>3. CASE PostFails
  BY <1>0, <1>3, ThrowsReport DEF PostFails
<1>4. CASE CodeGoes
  BY <1>0, <1>4 DEF CodeGoes
<1>5. CASE Dies
  BY <1>0, <1>5, ExitsReport DEF Dies
<1>6. CASE Authorize \/ FlowEnds
  <2>1. CASE Throws
    BY <1>0, <1>6, <2>1, ThrowsReport DEF Authorize, FlowEnds
  <2>2. CASE GoesOn("polling") \/ GoesOn("saving")
    BY <1>0, <1>6, <2>2 DEF Authorize, FlowEnds, GoesOn
  <2>3. CASE Escapes
    BY <1>0, <1>6, <2>3, EscapesReport DEF Authorize, FlowEnds
  <2> QED
    BY <1>6, <2>1, <2>2, <2>3 DEF Authorize, FlowEnds
<1>7. CASE Saved
  <2>1. /\ stage' = "idle" /\ report'.exit = "ok" /\ report'.hint = FALSE
        /\ run' = run /\ cmd' = cmd
    BY <1>7, ExitsReport DEF Saved
  <2>2. stored' = run /\ account' = account
    BY <1>7 DEF Saved
  <2>3. run > 0 /\ stage = "saving"
    BY <1>7 DEF Saved
  <2> QED
    BY <1>0, <2>1, <2>2, <2>3
<1>8. CASE SaveFails
  BY <1>0, <1>8, ThrowsReport DEF SaveFails
<1> QED
  BY <1>1, <1>2, <1>3, <1>4, <1>5, <1>6, <1>7, <1>8 DEF CommandStep

LEMMA NextInv == Inv /\ [Next]_vars => Inv'
<1> SUFFICES ASSUME Inv, [Next]_vars
             PROVE  Inv'
  OBVIOUS
<1>0. FlowInv /\ Prompt /\ TypeOK /\ Informed
  BY DEF Inv, TypeOK, FlowInv
<1>1. CASE CommandStep
  <2>1. FlowInv' /\ Prompt'
    BY <1>0, <1>1, CommandFlow
  <2>2. TypeOK' /\ Informed'
    BY <1>0, <1>1, <2>1, CommandType, CommandInformed DEF FlowInv
  <2> QED
    BY <2>1, <2>2 DEF FlowInv, Inv
<1>2. CASE Polls(FlowNext)
  <2>1. FlowInv' /\ Prompt'
    BY <1>0, <1>2, FlowNextInv, FlowNextPrompt DEF Polls
  <2>2. TypeOK' /\ Informed'
    BY <1>0, <1>2, <2>1
       DEF Polls, FlowInv, TypeOK, Informed, ReportsTheTruth
  <2> QED
    BY <2>1, <2>2 DEF FlowInv, Inv
<1>3. CASE UNCHANGED vars
  <2>1. Prompt'
    BY <1>0, <1>3 DEF vars, flow, Prompt, Rounds, Wait, Expired, ApprovalInTimeCounts
  <2>2. (TypeOK /\ Timely /\ Spaced /\ Informed)'
    BY <1>3 DEF vars, flow, Inv, TypeOK, FlowTypeOK, Timely, TimesOutLate, Spaced,
                SlowDownConverges, Informed, ReportsTheTruth
  <2> QED
    BY <2>1, <2>2 DEF Inv
<1> QED
  BY <1>1, <1>2, <1>3 DEF Next, CommandStep

LEMMA Invariant == Spec => []Inv
BY InitInv, NextInv, PTL DEF Spec

-----------------------------------------------------------------------------
\* The variables of the flow and of the commands keep their types.
THEOREM TypeCorrect == Spec => []TypeOK
BY Invariant, PTL DEF Inv

\* For any expiry, interval and latencies: TIMEOUT is reported only when the
\* code has expired (runDeviceFlow counts its sleeps, never more).
THEOREM TimeoutIsLate == Spec => []TimesOutLate
BY Invariant, PTL DEF Inv, Timely

\* For any gap, penalty and latencies up to the timeout: runDeviceFlow does
\* not miss an approval that leaves room for its round and for one more for
\* each SLOW_DOWN that comes in between.
THEOREM ApprovalCounts == Spec => []ApprovalInTimeCounts
BY Invariant, PTL DEF Inv, Prompt

\* For any gap and penalty: SLOW_DOWN answers stop once the interval has
\* reached the gap the server wants.
THEOREM Converges == Spec => []SlowDownConverges
BY Invariant, PTL DEF Inv, Spaced

\* A reported login is in the file, and a hint to log in comes from the run
\* that created the account.
THEOREM TruthIsReported == Spec => []ReportsTheTruth
BY Invariant, PTL DEF Inv, Informed
=============================================================================
