------------------------------ MODULE LlmGate ------------------------------
(***************************************************************************)
(* The language model around the engine: the scheduled regime check          *)
(* (scheduler.py, llm/regime.py), the pre-trade check of a signal             *)
(* (llm/pretrade.py), the client both use (llm/client.py) and the verdict     *)
(* the risk check reads back from the journal (llm/context.py).               *)
(*                                                                           *)
(* Time is counted in units of a few minutes.  An await of at most seconds    *)
(* (news, journal, the pre-trade call) may straddle one change of the unit;   *)
(* the regime call has no time-out and may take for ever.  A verdict is       *)
(* "off" if it blocks entries (risk_off beyond the confidence threshold) and  *)
(* "on" otherwise; prompts, news and token counts are left out.               *)
(***************************************************************************)
EXTENDS Integers, FiniteSets, SequencesExt

CONSTANTS SlotEvery,               \* 15 minutes
          Age,                     \* 30 minutes: max_age_minutes
          ActiveFrom, ActiveUntil, \* REGIME_ACTIVE_FROM, REGIME_ACTIVE_UNTIL
          MaxNow, MaxSignals,      \* bounds
          MaxCalls,                \* bound: from as many calls on no regime job makes one
          MaxFaults                \* bound: failures of the journal and restarts together

\* A slot is longer than the unit of time, hence than an await of seconds.
ASSUME GateAssumption ==
    /\ SlotEvery \in Nat \ {0, 1} /\ Age \in Nat
    /\ ActiveFrom \in Nat /\ ActiveUntil \in Nat
    /\ MaxNow \in Nat /\ MaxSignals \in Nat /\ MaxCalls \in Nat /\ MaxFaults \in Nat

VARIABLES now,
          fired,     \* the last slot the scheduler has dealt with
          jobs,      \* running instances of the regime job
          check,     \* the signal in on_signal
          flight,    \* calls of generate_json under way
          calls,     \* the llm_calls table
          verdicts,  \* the regime_verdicts table
          signals, faults, restarts,
          begun,     \* calls begun (history)
          lost,      \* calls without a row: the journal raised, or the process ended (history)
          trouble    \* a slot brought no verdict (history)

vars == <<now, fired, jobs, check, flight, calls, verdicts, signals, faults, restarts,
          begun, lost, trouble>>

Regimes   == {"on", "off"}
Decisions == {"proceed", "skip"}
Answers(tier) == IF tier = "regime" THEN Regimes ELSE Decisions
Failures  == {"failed", "invalid", "timeout"}

-----------------------------------------------------------------------------
\* GeminiClient.generate_json

Asked(tier) == [no |-> begun + 1, tier |-> tier, answer |-> "none"]

\* The API answers: in the schema, outside it ("invalid"), or not at all: with
\* nothing, with an error.
ApiAnswers ==
    \E c \in flight :
       /\ c.answer = "none"
       /\ \E a \in Answers(c.tier) \cup {"failed", "invalid"} :
             flight' = (flight \ {c}) \cup {[c EXCEPT !.answer = a]}
    /\ UNCHANGED <<now, fired, jobs, check, calls, verdicts, signals, faults, restarts,
                   begun, lost, trouble>>

\* faulty: the pre-trade call waits like the regime call
TimeOutNever == FALSE

\* wait_for, PRETRADE_TIMEOUT_S; the regime call passes no timeout_s.
TimeOut ==
    /\ \E c \in flight :
          /\ c.answer = "none" /\ c.tier = "pretrade"
          /\ flight' = (flight \ {c}) \cup {[c EXCEPT !.answer = "timeout"]}
    /\ UNCHANGED <<now, fired, jobs, check, calls, verdicts, signals, faults, restarts,
                   begun, lost, trouble>>

\* The row of a call: its response, in the schema or not, and why it failed.
CallRow(c) ==
    [no |-> c.no, tier |-> c.tier,
     response |-> CASE c.answer = "invalid" -> "other"
                    [] c.answer \in {"failed", "timeout"} -> "none"
                    [] OTHER -> c.answer,
     error    |-> IF c.answer \in Failures THEN c.answer ELSE "none"]

\* faulty: a call that failed leaves no row
PersistCallIfParsed(c) ==
    /\ calls' = IF c.answer \in Failures THEN calls ELSE Append(calls, CallRow(c))
    /\ flight' = flight \ {c}
    /\ UNCHANGED lost

\* The finally clause: a row for each call, whatever became of it.
PersistCall(c) ==
    /\ calls' = Append(calls, CallRow(c))
    /\ flight' = flight \ {c}
    /\ UNCHANGED lost

\* The journal raises there: the call's own outcome is replaced by that.
PersistCallFault(c) ==
    /\ faults + restarts < MaxFaults
    /\ faults' = faults + 1
    /\ \/ lost' = lost \cup {c.no} /\ UNCHANGED calls
       \/ calls' = Append(calls, CallRow(c)) /\ UNCHANGED lost
    /\ flight' = flight \ {c}

Answered(no) == {c \in flight : c.no = no /\ c.answer # "none"}

-----------------------------------------------------------------------------
\* The scheduler and the regime job

AtSlot == now % SlotEvery = 0 /\ fired < now

\* faulty: two instances of the job may run
MaxInstancesTwo == 2

MaxInstances == 1

\* A slot is passed over while an instance still runs, and outside the window.
Fire ==
    /\ AtSlot
    /\ fired' = now
    /\ IF Cardinality(jobs) >= MaxInstances
       THEN trouble' = TRUE /\ UNCHANGED jobs
       ELSE /\ jobs' = IF now \in ActiveFrom..ActiveUntil
                       THEN jobs \cup {[at |-> now, pc |-> "context", since |-> now,
                                        asked |-> 0, call |-> 0, row |-> 0]}
                       ELSE jobs
            /\ UNCHANGED trouble
    /\ UNCHANGED <<now, check, flight, calls, verdicts, signals, faults, restarts, begun, lost>>

Moved(j, k) == jobs' = (jobs \ {j}) \cup {k}

\* fetch_headlines and build_regime_context; then the call.
BuildRegimeContext(j) ==
    /\ j.pc = "context" /\ begun < MaxCalls
    /\ Moved(j, [j EXCEPT !.pc = "call", !.asked = now, !.call = begun + 1])
    /\ flight' = flight \cup {Asked("regime")}
    /\ begun' = begun + 1
    /\ UNCHANGED <<now, fired, check, calls, verdicts, signals, faults, restarts, lost, trouble>>

\* generate_json returns a verdict, or raises LLMError: no verdict this time.
RegimeAnswered(j) ==
    /\ j.pc = "call"
    /\ \E c \in Answered(j.call) :
          /\ PersistCall(c)
          /\ IF c.answer \in Regimes
             THEN /\ Moved(j, [j EXCEPT !.pc = "verdict", !.since = now, !.row = Len(calls')])
                  /\ UNCHANGED trouble
             ELSE jobs' = jobs \ {j} /\ trouble' = TRUE
    /\ UNCHANGED <<now, fired, check, verdicts, signals, faults, restarts, begun>>

\* Whatever else is raised ends in _guarded_task.
RegimeFault(j) ==
    /\ \/ /\ j.pc \in {"context", "verdict"} /\ faults + restarts < MaxFaults
          /\ faults' = faults + 1
          /\ UNCHANGED <<flight, calls, lost>>
       \/ j.pc = "call" /\ \E c \in Answered(j.call) : PersistCallFault(c)
    /\ jobs' = jobs \ {j}
    /\ trouble' = TRUE
    /\ UNCHANGED <<now, fired, check, verdicts, signals, restarts, begun>>

Verdict(j, row) == [ts |-> now, label |-> calls[row].response, call |-> row, asked |-> j.asked]

\* faulty: linked to the client's last call instead of the job's own
PersistVerdictShared(j) ==
    /\ j.pc = "verdict"
    /\ verdicts' = Append(verdicts, [Verdict(j, j.row) EXCEPT !.call = Len(calls)])
    /\ jobs' = jobs \ {j}
    /\ UNCHANGED <<now, fired, check, flight, calls, signals, faults, restarts, begun, lost, trouble>>

PersistVerdict(j) ==
    /\ j.pc = "verdict"
    /\ verdicts' = Append(verdicts, Verdict(j, j.row))
    /\ jobs' = jobs \ {j}
    /\ UNCHANGED <<now, fired, check, flight, calls, signals, faults, restarts, begun, lost, trouble>>

-----------------------------------------------------------------------------
\* The bar consumer in on_signal

\* faulty: the oldest verdict there is
LatestRegimeFirst(cutoff) ==
    LET fresh == {i \in DOMAIN verdicts : verdicts[i].ts >= cutoff}
    IN IF fresh = {} THEN 0 ELSE Min(fresh)

\* faulty: half the age
LatestRegimeHalf(cutoff) ==
    LET fresh == {i \in DOMAIN verdicts : verdicts[i].ts >= cutoff + Age \div 2}
    IN IF fresh = {} THEN 0 ELSE Max(fresh)

\* latest_regime_dict: the newest verdict not older than the cutoff, or none.
LatestRegime(cutoff) ==
    LET fresh == {i \in DOMAIN verdicts : verdicts[i].ts >= cutoff}
    IN IF fresh = {} THEN 0 ELSE Max(fresh)

NoCheck == [pc |-> "idle", close |-> 0, since |-> 0, gate |-> 0, seen |-> 0, call |-> 0,
            result |-> "none"]

\* The bar may have closed long before its signal is dealt with: after a gap in
\* the ticks it is the next tick that closes it.
Signal ==
    /\ check.pc = "idle" /\ signals < MaxSignals
    /\ \E close \in (ActiveFrom..ActiveUntil) \cap (0..now) :
          check' = [NoCheck EXCEPT !.pc = "gate", !.close = close, !.since = now]
    /\ signals' = signals + 1
    /\ UNCHANGED <<now, fired, jobs, flight, calls, verdicts, faults, restarts, begun, lost, trouble>>

\* The regime is read as of the bar's close; check_all blocks or lets pass.
ReadGate ==
    /\ check.pc = "gate"
    /\ LET i == LatestRegime(check.close - Age)
           blocks == i # 0 /\ verdicts[i].label = "off"
       IN check' = [check EXCEPT !.pc = IF blocks THEN "idle" ELSE "context",
                                 !.result = IF blocks THEN "blocked" ELSE "none",
                                 !.gate = i, !.seen = Len(verdicts), !.since = now]
    /\ UNCHANGED <<now, fired, jobs, flight, calls, verdicts, signals, faults, restarts,
                   begun, lost, trouble>>

\* run_pretrade_check up to the call: regime, news and bars for the prompt.
BuildPretradeContext ==
    /\ check.pc = "context"
    /\ check' = [check EXCEPT !.pc = "call", !.since = now, !.call = begun + 1]
    /\ flight' = flight \cup {Asked("pretrade")}
    /\ begun' = begun + 1
    /\ UNCHANGED <<now, fired, jobs, calls, verdicts, signals, faults, restarts, lost, trouble>>

\* faulty: without an answer the signal is skipped
FallBackSkip == "skip"

\* DEFAULT_PROCEED
FallBack == "proceed"

PretradeAnswered ==
    /\ check.pc = "call"
    /\ \E c \in Answered(check.call) :
          /\ PersistCall(c)
          /\ check' = [check EXCEPT !.pc = "idle",
                                    !.result = IF c.answer \in Decisions THEN c.answer ELSE FallBack]
    /\ UNCHANGED <<now, fired, jobs, verdicts, signals, faults, restarts, begun, trouble>>

\* What the journal raises is no LLMError: the bar consumer ends.
CheckFault ==
    /\ \/ /\ check.pc \in {"gate", "context"} /\ faults + restarts < MaxFaults
          /\ faults' = faults + 1
          /\ UNCHANGED <<flight, calls, lost>>
       \/ check.pc = "call" /\ \E c \in Answered(check.call) : PersistCallFault(c)
    /\ check' = [check EXCEPT !.pc = "dead", !.result = "raised"]
    /\ UNCHANGED <<now, fired, jobs, verdicts, signals, restarts, begun, trouble>>

-----------------------------------------------------------------------------
\* stop() and a new start(): jobs and check are cancelled; a call under way
\* gets a row without response or error if the loop still runs it.
Restart ==
    /\ faults + restarts < MaxFaults
    /\ restarts' = restarts + 1
    /\ \E kept \in SUBSET flight :
          /\ calls' = calls \o SetToSeq({CallRow(c) : c \in kept})
          /\ lost' = lost \cup {c.no : c \in flight \ kept}
    /\ jobs' = {} /\ flight' = {} /\ check' = NoCheck
    /\ trouble' = (trouble \/ jobs # {})
    /\ UNCHANGED <<now, fired, verdicts, signals, faults, begun>>

\* No await of seconds lasts over two changes of the unit.
Brief == /\ \A j \in jobs : j.pc # "call" => j.since = now
         /\ \A j \in jobs : j.pc = "call" => \A c \in Answered(j.call) : FALSE
         /\ check.pc \in {"gate", "context", "call"} => check.since = now

Tick ==
    /\ now < MaxNow /\ ~AtSlot /\ Brief
    /\ now' = now + 1
    /\ UNCHANGED <<fired, jobs, check, flight, calls, verdicts, signals, faults, restarts,
                   begun, lost, trouble>>

Init ==
    /\ now = 0 /\ fired = 0 /\ jobs = {} /\ check = NoCheck /\ flight = {}
    /\ calls = <<>> /\ verdicts = <<>> /\ signals = 0 /\ faults = 0 /\ restarts = 0
    /\ begun = 0 /\ lost = {} /\ trouble = FALSE

RegimeJob == \E j \in jobs : BuildRegimeContext(j) \/ RegimeAnswered(j) \/ PersistVerdict(j)
BarTask   == ReadGate \/ BuildPretradeContext \/ PretradeAnswered

Next ==
    \/ Fire \/ RegimeJob \/ BarTask \/ Signal \/ Tick
    \/ ApiAnswers \/ TimeOut
    \/ (\E j \in jobs : RegimeFault(j)) \/ CheckFault \/ Restart

Spec == Init /\ [][Next]_vars

\* The loop runs what is ready and its timers; nothing makes the API answer.
FairSpec == Spec /\ WF_vars(RegimeJob) /\ WF_vars(BarTask) /\ WF_vars(TimeOut)

-----------------------------------------------------------------------------
\* Properties

TypeOK ==
    /\ now \in 0..MaxNow /\ fired \in 0..now
    /\ jobs \subseteq [at : 0..now, pc : {"context", "call", "verdict"}, since : 0..now,
                       asked : 0..now, call : 0..begun, row : 0..Len(calls)]
    /\ Cardinality(jobs) <= 1
    /\ check \in [pc : {"idle", "gate", "context", "call", "dead"}, close : 0..now,
                  since : 0..now, gate : 0..Len(verdicts), seen : 0..Len(verdicts),
                  call : 0..begun,
                  result : {"none", "blocked", "raised"} \cup Decisions]
    /\ \A c \in flight : /\ c.no \in 1..begun /\ c.tier \in {"regime", "pretrade"}
                         /\ c.answer \in {"none"} \cup Answers(c.tier) \cup Failures
    /\ signals \in 0..MaxSignals
    /\ faults \in Nat /\ restarts \in Nat /\ faults + restarts <= MaxFaults
    /\ lost \subseteq 1..begun /\ trouble \in BOOLEAN

\* Each verdict is linked to the regime call that gave it, though pre-trade
\* calls are logged in between through the same client.
VerdictLinked ==
    \A i \in DOMAIN verdicts :
       LET v == verdicts[i]
       IN /\ v.call \in DOMAIN calls
          /\ calls[v.call].tier = "regime" /\ calls[v.call].response = v.label
          /\ \A k \in DOMAIN verdicts : k # i => verdicts[k].call # v.call

\* ts is the time a verdict is stored, and the newest ts is the one used: a
\* later verdict also judges later data, for only one job runs at a time.
VerdictsInOrder ==
    \A i, k \in DOMAIN verdicts :
       i < k => verdicts[i].asked < verdicts[k].asked /\ verdicts[i].ts <= verdicts[k].ts

\* Every call made has one row: there already, to come, or lost with the
\* journal's failure or a restart.  A row says what became of its call, but
\* for a call that was cancelled.
CallsLogged ==
    LET logged == {calls[i].no : i \in DOMAIN calls}
        coming == {c.no : c \in flight}
    IN /\ 1..begun = logged \cup coming \cup lost
       /\ logged \cap (coming \cup lost) = {} /\ coming \cap lost = {}
       /\ Cardinality(logged) = Len(calls)
       /\ \A i \in DOMAIN calls :
             calls[i].response = "none" /\ calls[i].error = "none" => restarts > 0

\* The model's availability never keeps a trade from being made (pretrade.py):
\* a signal is skipped or blocked only on an answer the model gave and the
\* journal has, and lost only with the journal.
FailOpen ==
    /\ check.result = "skip" =>
          \E i \in DOMAIN calls : calls[i].no = check.call /\ calls[i].response = "skip"
    /\ check.result = "blocked" =>
          \E i \in DOMAIN calls : calls[i].tier = "regime" /\ calls[i].response = "off"
    /\ check.result = "raised" => faults > 0

\* A signal is gated by the latest data the model had judged when the gate
\* was read: no verdict at least as fresh is about later data.
GateIsLatest ==
    \A i \in 1..check.seen :
       verdicts[i].ts >= check.close - Age =>
          check.gate # 0 /\ verdicts[i].asked <= verdicts[check.gate].asked

\* From the first verdict on a signal meets one, as long as every slot brings
\* one before the next: the age allowed outlasts the gap between two.
GateCovered == check.seen > 0 /\ check.gate = 0 => trouble

\* A signal is decided although the model may never answer.
CheckEnds == check.pc = "gate" ~> check.pc \in {"idle", "dead"}
=============================================================================
