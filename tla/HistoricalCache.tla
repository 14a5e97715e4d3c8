--------------------------- MODULE HistoricalCache ---------------------------
(***************************************************************************)
(* app/backtest/historical.py with the two scripts that use it: the        *)
(* backtest (scripts/backtest_orb.py) fetches what its cache lacks, pair by *)
(* pair, and replays all of it; the sweep (scripts/backtest_sweep.py) reads *)
(* the cache alone.  A pair is one symbol's bars of one date.  What a file  *)
(* holds is abstracted to what may differ between two answers for a pair.   *)
(***************************************************************************)
EXTENDS Integers, Sequences

CONSTANTS
    Pairs,        \* the pairs asked for, in the loop's order
    MaxScripts    \* bound: scripts started

ASSUME CacheAssumption == Pairs \in Nat

\* A list of all bars of the date, of those before its close, or of none; or
\* no list.
Answers == {"full", "partial", "empty", "null"}
NoFile == "none"
NoResp == "none"
Cut == "cut"                              \* write_text cut short: not JSON
Attempts == 4                             \* 1 + len(RATE_LIMIT_BACKOFF_S)

VARIABLES
    file,      \* the cache: what each pair's file holds
    script,    \* what runs: "backtest", "sweep", none: "idle", "done", "failed"
    next,      \* the pair the script is at
    tries,     \* getCandleData calls for that pair
    resp,      \* an answer with a status in the pause before it is saved, or NoResp
    out,       \* what the script has in its hands, by pair
    dayOver,   \* the dates' session is over
    served,    \* ghost: the answers with a status the API gave, by pair
    unsaved,   \* ghost: those of them that a kill kept from the file, by pair
    scripts    \* scripts started

cacheVars == <<file, script, next, tries, resp, out, dayOver, served, unsaved, scripts>>

CacheInit ==
    /\ file = [p \in 1..Pairs |-> NoFile] /\ script = "idle" /\ next = 1 /\ tries = 0
    /\ resp = NoResp /\ out = <<>> /\ dayOver = FALSE /\ scripts = 0
    /\ served = [p \in 1..Pairs |-> <<>>] /\ unsaved = [p \in 1..Pairs |-> {}]

Running == script \in {"backtest", "sweep"}

\* faulty: a file without a list is read as a day without bars
LoadCachedNoRows(p) == file[p] \notin {NoFile, Cut}
\* load_cached_raw gives rows: "data": null counts as no file, "data": [] is a
\* list like any other.
LoadCached(p) == file[p] \notin {NoFile, Cut, "null"}

StartScript(which) ==
    /\ ~Running /\ scripts < MaxScripts
    /\ script' = which /\ next' = 1 /\ tries' = 0 /\ out' = <<>>
    /\ scripts' = scripts + 1
    /\ UNCHANGED <<file, resp, dayOver, served, unsaved>>

Got(answer) == out' = Append(out, answer) /\ next' = next + 1 /\ tries' = 0

InLoop == Running /\ resp = NoResp /\ next <= Pairs

FromCache ==
    /\ InLoop /\ LoadCached(next)
    /\ Got(file[next])
    /\ UNCHANGED <<file, script, resp, dayOver, served, unsaved, scripts>>

\* json.loads raises on a file that was cut short, in both scripts.
Unreadable ==
    /\ InLoop /\ file[next] = Cut
    /\ script' = "failed"
    /\ UNCHANGED <<file, next, tries, resp, out, dayOver, served, unsaved, scripts>>

Asking == InLoop /\ script = "backtest" /\ file[next] # Cut /\ ~LoadCached(next)

\* getCandleData answers with a status; RATE_LIMIT_SLEEP_S begins.
Answer(answer) ==
    /\ Asking
    /\ answer = "full" => dayOver
    /\ answer = "partial" => ~dayOver
    /\ resp' = answer
    /\ served' = [served EXCEPT ![next] = Append(@, answer)]
    /\ UNCHANGED <<file, script, next, tries, out, dayOver, unsaved, scripts>>

\* save_cached_raw: the payload is saved, with a list or without.
Save ==
    /\ resp # NoResp
    /\ file' = [file EXCEPT ![next] = resp]
    /\ Got(resp)
    /\ resp' = NoResp
    /\ UNCHANGED <<script, dayOver, served, unsaved, scripts>>

\* An exception or a message about the rate: wait and ask again, or give up.
RateLimited ==
    /\ Asking
    /\ tries' = tries + 1
    /\ script' = IF tries + 1 = Attempts THEN "failed" ELSE script
    /\ UNCHANGED <<file, next, resp, out, dayOver, served, unsaved, scripts>>

Refused ==
    /\ Asking
    /\ script' = "failed"
    /\ UNCHANGED <<file, next, tries, resp, out, dayOver, served, unsaved, scripts>>

\* The process is killed: anywhere, in the pause with an answer in its hands
\* included, or with the file opened and not yet written.
Killed ==
    /\ Running
    /\ script' = "failed"
    /\ resp' = NoResp
    /\ unsaved' = IF resp = NoResp THEN unsaved
                  ELSE [unsaved EXCEPT ![next] = @ \cup {Len(served[next])}]
    /\ UNCHANGED <<file, next, tries, out, dayOver, served, scripts>>
KilledInWrite ==
    /\ resp # NoResp
    /\ file' = [file EXCEPT ![next] = Cut]
    /\ script' = "failed"
    /\ resp' = NoResp
    /\ UNCHANGED <<next, tries, out, dayOver, served, unsaved, scripts>>

\* load_universe_from_cache looks at every pair before it complains.
Missing ==
    /\ InLoop /\ script = "sweep" /\ file[next] # Cut /\ ~LoadCached(next)
    /\ Got("missing")
    /\ UNCHANGED <<file, script, resp, dayOver, served, unsaved, scripts>>

Loaded ==
    /\ Running /\ next > Pairs
    /\ script' = IF \E p \in 1..Pairs : out[p] = "missing" THEN "failed" ELSE "done"
    /\ UNCHANGED <<file, next, tries, resp, out, dayOver, served, unsaved, scripts>>

SessionEnds ==
    /\ ~dayOver /\ dayOver' = TRUE
    /\ UNCHANGED <<file, script, next, tries, resp, out, served, unsaved, scripts>>

CacheNext ==
    \/ \E which \in {"backtest", "sweep"} : StartScript(which)
    \/ FromCache \/ Unreadable
    \/ (\E answer \in Answers : Answer(answer)) \/ Save
    \/ RateLimited \/ Refused \/ Killed \/ KilledInWrite \/ Missing \/ Loaded \/ SessionEnds

-----------------------------------------------------------------------------
LastServed(p) == served[p][Len(served[p])]

\* Over reruns, kills and failures: a script that completes has for each pair
\* what the API answered last; a pair is asked for again only after answers
\* without a list and after kills in the pause before an answer is saved; and a
\* sweep never takes an answer without a list for a day without bars (an empty
\* list it does take for one, like the backtest).
CacheKept ==
    /\ script = "done" => \A p \in 1..Pairs : out[p] = LastServed(p)
    /\ \A p \in 1..Pairs : \A i \in 1..(Len(served[p]) - 1) :
          served[p][i] = "null" \/ i \in unsaved[p]
    /\ script = "sweep" => \A p \in DOMAIN out : out[p] # "null"
=============================================================================
