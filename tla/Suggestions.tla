----------------------------- MODULE Suggestions -----------------------------
(***************************************************************************)
(* backend/internal/suggestions/service.go, fed by the terminal callback   *)
(* of httpapi/router.go: every chunk of terminal output goes to the state  *)
(* service, then to IngestTerminal, which restarts a debounce timer; a     *)
(* timer that fires runs a job that asks the language model and installs   *)
(* its answer if no newer chunk arrived.                                   *)
(*                                                                         *)
(* The gateway has one session id per process, so the maps keyed by        *)
(* session have one entry here; a job is known by its number.  Goroutines: *)
(* the readers that deliver chunks (Feeders), one per fired timer (the     *)
(* job) and the HTTP handlers that cancel (Cancellers).  An action is one  *)
(* critical section of s.mu, one read or write of the stored snapshot, one *)
(* cancel or one step of RequestSuggestion (openrouter.go).                *)
(*                                                                         *)
(* The stored snapshot has two parts, a row and the equipment, which       *)
(* UpsertDelta reads, merges and writes back without a lock.  The model    *)
(* follows one of them, whichever it is (StateStore has both): what is     *)
(* stored is the set of chunks whose parsed delta was merged into it, and  *)
(* a call that overlaps another's may write the other's chunk away.        *)
(***************************************************************************)
EXTENDS Naturals, Sequences, FiniteSets

CONSTANTS
    Feeders,        \* readUpstream goroutines in the terminal callback
    Cancellers,     \* handlers of POST /suggestions/cancel
    RecentMax,      \* s.recentLinesMax, in chunks
    MaxChunks       \* bound of the model: chunks of terminal output

ASSUME SuggestionsAssumption ==
    /\ IsFiniteSet(Feeders)
    /\ RecentMax \in Nat \ {0}
    /\ MaxChunks \in Nat

Chunks == 1..MaxChunks
Jobs == 1..MaxChunks

VARIABLES
    chunks,         \* chunks delivered so far
    carries,        \* the chunk a feeder passed to the state service (0: none)
    feeder,         \* where each feeder's callback is
    copy,           \* the chunks in what a feeder's UpsertDelta has read
    stored,         \* the chunks in the stored snapshot
    notStored,      \* chunks without a delta, or whose Ingest failed
    erased,         \* chunks that another call's write-back took out again
    recent,         \* s.recentBySess: the newest chunks, oldest first
    jobSeq,         \* s.jobSeqBySess
    timer,          \* the job of the pending timer (0: none)
    job,            \* where each job is
    logRead,        \* the recent lines a job's prompt has
    stateRead,      \* the chunks behind the snapshot a job's prompt has
    attempts,       \* calls of requestOnce by each job
    active,         \* s.activeBySess: jobs with a registered cancel
    inFlight,       \* s.inFlight
    cancelling,     \* the cancels a CancelInFlight has still to call
    cancelled,      \* jobs whose context is cancelled
    latest,         \* the job whose answer is s.latest (0: none)
    lastError       \* the job whose error is s.lastError (0: none)

storeVars == <<copy, stored, notStored, erased>>
feedVars == <<chunks, carries, feeder, storeVars>>
logVars == <<recent, jobSeq, timer>>
promptVars == <<logRead, stateRead>>
cancelVars == <<cancelling, cancelled>>
activeVars == <<active, inFlight>>
resultVars == <<latest, lastError>>
vars == <<feedVars, logVars, job, promptVars, attempts, activeVars, cancelVars,
          resultVars>>

Init ==
    /\ chunks = 0
    /\ carries = [f \in Feeders |-> 0]
    /\ feeder = [f \in Feeders |-> "idle"]
    /\ copy = [f \in Feeders |-> {}]
    /\ stored = {}
    /\ notStored = {}
    /\ erased = {}
    /\ recent = <<>>
    /\ jobSeq = 0
    /\ timer = 0
    /\ job = [j \in Jobs |-> "none"]
    /\ logRead = [j \in Jobs |-> <<>>]
    /\ stateRead = [j \in Jobs |-> {}]
    /\ attempts = [j \in Jobs |-> 0]
    /\ active = {}
    /\ inFlight = 0
    /\ cancelling = [h \in Cancellers |-> {}]
    /\ cancelled = {}
    /\ latest = 0
    /\ lastError = 0

Goto(j, label) == job' = [job EXCEPT ![j] = label]

(***************************************************************************)
(* The terminal callback: state first, then the suggestion service.        *)
(***************************************************************************)
\* A new chunk; text without a delta does not reach the store.
Chunk(f) ==
    /\ feeder[f] = "idle"
    /\ chunks < MaxChunks
    /\ chunks' = chunks + 1
    /\ carries' = [carries EXCEPT ![f] = chunks + 1]
    /\ UNCHANGED <<copy, stored, erased, logVars, job, promptVars, attempts,
                   activeVars, cancelVars, resultVars>>

FeederGoto(f, label) == feeder' = [feeder EXCEPT ![f] = label]

\* Mutant of IngestState: the state service is fed in the background.
IngestStateLater(f) ==
    /\ Chunk(f)
    /\ FeederGoto(f, "fed")
    /\ UNCHANGED notStored

IngestState(f) ==
    /\ Chunk(f)
    /\ \/ FeederGoto(f, "upsert") /\ UNCHANGED notStored
       \/ FeederGoto(f, "fed") /\ notStored' = notStored \union {chunks + 1}

\* UpsertDelta reads the stored snapshot.
StateReads(f) ==
    /\ feeder[f] = "upsert"
    /\ copy' = [copy EXCEPT ![f] = stored]
    /\ FeederGoto(f, "merged")
    /\ UNCHANGED <<chunks, carries, stored, notStored, erased, logVars, job,
                   promptVars, attempts, activeVars, cancelVars, resultVars>>

\* It writes back what it read with its chunk merged into it.  What was stored
\* meanwhile is kept (a slot of equipment that it does not write) or
\* overwritten.
StateWrites(f) ==
    /\ feeder[f] = "merged"
    /\ \E kept \in SUBSET (stored \ copy[f]) :
        stored' = copy[f] \union kept \union {carries[f]}
    /\ erased' = erased \union (stored \ stored')
    /\ copy' = [copy EXCEPT ![f] = {}]
    /\ FeederGoto(f, "fed")
    /\ UNCHANGED <<chunks, carries, notStored, logVars, job, promptVars,
                   attempts, activeVars, cancelVars, resultVars>>

\* A statement fails; the error is only logged.
StateFails(f) ==
    /\ feeder[f] \in {"upsert", "merged"}
    /\ notStored' = notStored \union {carries[f]}
    /\ copy' = [copy EXCEPT ![f] = {}]
    /\ FeederGoto(f, "fed")
    /\ UNCHANGED <<chunks, carries, stored, erased, logVars, job, promptVars,
                   attempts, activeVars, cancelVars, resultVars>>

StateSteps(f) == StateReads(f) \/ StateWrites(f) \/ StateFails(f)

\* appendLogLines and trimRecent, on whole chunks.
Trimmed(s) == IF Len(s) <= RecentMax THEN s ELSE SubSeq(s, Len(s) - RecentMax + 1, Len(s))

\* Mutant of IngestTerminal: the job number is not counted up.
IngestTerminalSameSeq(f) ==
    /\ feeder[f] = "fed"
    /\ recent' = Trimmed(Append(recent, carries[f]))
    /\ timer' = jobSeq + 1
    /\ carries' = [carries EXCEPT ![f] = 0]
    /\ FeederGoto(f, "idle")
    /\ UNCHANGED <<chunks, storeVars, jobSeq, job, promptVars,
                   attempts, activeVars, cancelVars, resultVars>>

\* The old timer is stopped if it has not fired, the new one runs job seq.
IngestTerminal(f) ==
    /\ feeder[f] = "fed"
    /\ recent' = Trimmed(Append(recent, carries[f]))
    /\ jobSeq' = jobSeq + 1
    /\ timer' = jobSeq + 1
    /\ carries' = [carries EXCEPT ![f] = 0]
    /\ FeederGoto(f, "idle")
    /\ UNCHANGED <<chunks, storeVars, job, promptVars, attempts,
                   activeVars, cancelVars, resultVars>>

\* Blank text returns at once.
IngestBlank(f) ==
    /\ feeder[f] = "fed"
    /\ carries' = [carries EXCEPT ![f] = 0]
    /\ FeederGoto(f, "idle")
    /\ UNCHANGED <<chunks, storeVars, logVars, job, promptVars,
                   attempts, activeVars, cancelVars, resultVars>>

\* From here on Stop no longer reaches the job.
TimerFires ==
    /\ timer # 0
    /\ Goto(timer, "fired")
    /\ timer' = 0
    /\ UNCHANGED <<feedVars, recent, jobSeq, promptVars, attempts, activeVars,
                   cancelVars, resultVars>>

(***************************************************************************)
(* runJob.  buildPrompt reads the lines, then the snapshot.                *)
(***************************************************************************)
ReadLog(j) ==
    /\ job[j] = "fired"
    /\ logRead' = [logRead EXCEPT ![j] = recent]
    /\ Goto(j, "logRead")
    /\ UNCHANGED <<feedVars, logVars, stateRead, attempts, activeVars,
                   cancelVars, resultVars>>

ReadSnapshot(j) ==
    /\ job[j] = "logRead"
    /\ \/ Goto(j, "prompted") /\ stateRead' = [stateRead EXCEPT ![j] = stored]
       \/ Goto(j, "failed") /\ UNCHANGED stateRead
    /\ UNCHANGED <<feedVars, logVars, logRead, attempts, activeVars, cancelVars,
                   resultVars>>

MarkInFlight(j) ==
    /\ job[j] = "prompted"
    /\ active' = active \union {j}
    /\ inFlight' = inFlight + 1
    /\ Goto(j, "calling")
    /\ UNCHANGED <<feedVars, logVars, promptVars, attempts, cancelVars, resultVars>>

\* requestOnce begins, at first and after the 250 ms sleep; a cancelled
\* context refuses it.
RequestBegins(j) ==
    /\ job[j] = "calling"
    /\ attempts' = [attempts EXCEPT ![j] = @ + 1]
    /\ Goto(j, IF j \in cancelled THEN "failed" ELSE "requesting")
    /\ UNCHANGED <<feedVars, logVars, promptVars, activeVars, cancelVars,
                   resultVars>>

\* The answer, an error or an invalid answer, or a timeout (a retry at first).
RequestReturns(j) ==
    /\ job[j] = "requesting"
    /\ \/ Goto(j, "answered")
       \/ Goto(j, "failed")
       \/ attempts[j] < 2 /\ Goto(j, "calling")
    /\ UNCHANGED <<feedVars, logVars, promptVars, attempts, activeVars,
                   cancelVars, resultVars>>

\* Mutant of Adopt: no comparison with the newest number.
AdoptStale(j) ==
    /\ job[j] = "answered"
    /\ latest' = j
    /\ lastError' = 0
    /\ Goto(j, "completing")
    /\ UNCHANGED <<feedVars, logVars, promptVars, attempts, activeVars, cancelVars>>

\* The last critical section of runJob: a stale answer is dropped.
Adopt(j) ==
    /\ job[j] = "answered"
    /\ IF jobSeq = j
       THEN latest' = j /\ lastError' = 0
       ELSE UNCHANGED resultVars
    /\ Goto(j, "completing")
    /\ UNCHANGED <<feedVars, logVars, promptVars, attempts, activeVars, cancelVars>>

\* Mutant of RecordError: the error is only logged.
RecordNoError(j) ==
    /\ job[j] = "failed"
    /\ Goto(j, IF attempts[j] = 0 THEN "done" ELSE "completing")
    /\ UNCHANGED <<feedVars, logVars, promptVars, attempts, activeVars,
                   cancelVars, resultVars>>

\* setLastError.  A job that failed in buildPrompt was never marked.
RecordError(j) ==
    /\ job[j] = "failed"
    /\ lastError' = j
    /\ Goto(j, IF attempts[j] = 0 THEN "done" ELSE "completing")
    /\ UNCHANGED <<feedVars, logVars, promptVars, attempts, activeVars,
                   cancelVars, latest>>

\* Mutant of MarkCompleted: the cancel stays registered.
MarkCompletedKeeps(j) ==
    /\ job[j] = "completing"
    /\ inFlight' = IF inFlight > 0 THEN inFlight - 1 ELSE 0
    /\ Goto(j, "done")
    /\ UNCHANGED <<feedVars, logVars, promptVars, attempts, active, cancelVars,
                   resultVars>>

MarkCompleted(j) ==
    /\ job[j] = "completing"
    /\ IF j \in active
       THEN /\ active' = active \ {j}
            /\ inFlight' = IF inFlight > 0 THEN inFlight - 1 ELSE 0
       ELSE UNCHANGED activeVars
    /\ Goto(j, "done")
    /\ UNCHANGED <<feedVars, logVars, promptVars, attempts, cancelVars, resultVars>>

JobSteps(j) ==
    \/ ReadLog(j) \/ ReadSnapshot(j) \/ MarkInFlight(j) \/ RequestBegins(j)
    \/ RequestReturns(j) \/ Adopt(j) \/ RecordError(j) \/ MarkCompleted(j)

(***************************************************************************)
(* CancelInFlight: the cancels are collected under the lock and called     *)
(* after it, in any order.                                                 *)
(***************************************************************************)
CollectCancels(h) ==
    /\ cancelling[h] = {}
    /\ active # {}
    /\ cancelling' = [cancelling EXCEPT ![h] = active]
    /\ UNCHANGED <<feedVars, logVars, job, promptVars, attempts, activeVars,
                   cancelled, resultVars>>

CancelJob(h, j) ==
    /\ j \in cancelling[h]
    /\ cancelled' = cancelled \union {j}
    /\ cancelling' = [cancelling EXCEPT ![h] = @ \ {j}]
    /\ UNCHANGED <<feedVars, logVars, job, promptVars, attempts, activeVars,
                   resultVars>>

FeedSteps(f) == StateSteps(f) \/ IngestTerminal(f) \/ IngestBlank(f)

Next ==
    \/ \E f \in Feeders : IngestState(f) \/ FeedSteps(f)
    \/ TimerFires
    \/ \E j \in Jobs : JobSteps(j)
    \/ \E h \in Cancellers : CollectCancels(h) \/ \E j \in Jobs : CancelJob(h, j)

Spec == Init /\ [][Next]_vars

\* A timer fires, goroutines get to run, a request has the client's timeout.
Fairness ==
    /\ \A f \in Feeders : WF_vars(FeedSteps(f))
    /\ WF_vars(TimerFires)
    /\ \A j \in Jobs : WF_vars(JobSteps(j))
    /\ \A h \in Cancellers, j \in Jobs : WF_vars(CancelJob(h, j))

FairSpec == Spec /\ Fairness
-----------------------------------------------------------------------------
Labels == {"none", "fired", "logRead", "prompted", "calling", "requesting",
           "answered", "failed", "completing", "done"}

FeederLabels == {"idle", "upsert", "merged", "fed"}

TypeOK ==
    /\ chunks \in 0..MaxChunks
    /\ carries \in [Feeders -> 0..MaxChunks]
    /\ feeder \in [Feeders -> FeederLabels]
    /\ \A f \in Feeders : carries[f] = 0 <=> feeder[f] = "idle"
    /\ copy \in [Feeders -> SUBSET Chunks]
    /\ stored \in SUBSET Chunks
    /\ notStored \in SUBSET Chunks
    /\ erased \in SUBSET Chunks
    /\ recent \in Seq(Chunks)
    /\ Len(recent) <= RecentMax
    /\ jobSeq \in 0..MaxChunks
    /\ timer \in 0..MaxChunks
    /\ job \in [Jobs -> Labels]
    /\ logRead \in [Jobs -> Seq(Chunks)]
    /\ stateRead \in [Jobs -> SUBSET Chunks]
    /\ attempts \in [Jobs -> 0..2]
    /\ active \in SUBSET Jobs
    /\ inFlight \in Nat
    /\ cancelling \in [Cancellers -> SUBSET Jobs]
    /\ cancelled \in SUBSET Jobs
    /\ latest \in 0..MaxChunks
    /\ lastError \in 0..MaxChunks

\* in_progress tells the truth: inFlight is the number of registered jobs,
\* and a job is registered from the first attempt of its request until it is
\* completed, whatever jobs of older timers and cancels overlap.
InFlightIsActive ==
    /\ inFlight = Cardinality(active)
    /\ \A j \in Jobs :
        /\ job[j] \in {"calling", "requesting", "answered", "completing"} => j \in active
        /\ j \in active => job[j] \in {"calling", "requesting", "answered",
                                       "completing", "failed"}

\* Each burst of output runs at most the jobs whose timer fired, one per
\* number: a job that ran is never armed again and the armed one is the
\* newest.
OneJobPerNumber ==
    /\ timer # 0 => timer = jobSeq /\ job[timer] = "none"
    /\ \A j \in Jobs : job[j] # "none" => j <= jobSeq

\* The job has its prompt and is not over.
Prompted(j) == job[j] = "prompted" \/ j \in active

\* The snapshot in a prompt is at least as new as its terminal lines: it has
\* every chunk that is in the lines (router.go feeds the state first,
\* buildPrompt reads it last).  The exceptions are a chunk with nothing to
\* store, one whose Ingest failed, and one that an overlapping UpsertDelta of
\* another reader has written away again.
PromptStateCoversLog ==
    \A j \in Jobs : Prompted(j) =>
        \A i \in DOMAIN logRead[j] :
            logRead[j][i] \in stateRead[j] \union notStored \union erased

\* README.md:101: an adopted answer was asked for with the terminal lines as
\* they are now, although they are read long before it is adopted.
AdoptsAnswerToNewestLog ==
    [][latest' # latest => logRead[latest'] = recent]_vars

\* The last burst of output gets its own outcome: unless a newer one follows,
\* its job's answer is shown or its job's error is, whichever older jobs,
\* retries and cancels are still around.  (An older job's error may replace
\* that error, or join that answer, afterwards.)
NewestHasOutcome ==
    \A j \in Jobs : timer = j ~> (jobSeq # j \/ latest = j \/ lastError = j)

\* in_progress ends: every registered job is released.
JobsAreReleased == \A j \in Jobs : j \in active ~> j \notin active
=============================================================================
