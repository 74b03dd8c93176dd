-------------------------- MODULE SuggestionsProofs --------------------------
(***************************************************************************)
(* Proofs about the suggestion service, for any number of readers,         *)
(* cancelling handlers and chunks.                                         *)
(***************************************************************************)
EXTENDS Suggestions, FiniteSetTheorems, SequenceTheorems, TLAPS

\* Feeders inside their callback.
Busy == {f \in Feeders : carries[f] # 0}

\* A chunk makes at most one job, and only after it was counted.
JobsHaveChunks == Cardinality(Busy) + jobSeq <= chunks

\* How often requestOnce was called is known from where a job is, and a
\* failed job is registered exactly when it has called it.
AttemptsOfLabel ==
    \A j \in Jobs :
        /\ job[j] \in {"none", "fired", "logRead", "prompted"} => attempts[j] = 0
        /\ job[j] = "calling" => attempts[j] < 2
        /\ job[j] = "requesting" => attempts[j] > 0
        /\ job[j] = "failed" => (j \in active <=> attempts[j] > 0)

\* The lines of a job that is still the newest are the lines as they are now.
NewestHasNewestLog ==
    \A j \in Jobs :
        (job[j] = "logRead" \/ Prompted(j)) /\ jobSeq = j => logRead[j] = recent

\* What has reached the lines has been through the state service.
Fed(c) == c \in stored \union notStored \union erased
FedFirst ==
    /\ \A f \in Feeders : feeder[f] = "fed" => Fed(carries[f])
    /\ \A i \in DOMAIN recent : Fed(recent[i])
    /\ \A j \in Jobs : job[j] = "logRead" =>
        \A i \in DOMAIN logRead[j] : Fed(logRead[j][i])

JobInv ==
    /\ TypeOK
    /\ JobsHaveChunks
    /\ AttemptsOfLabel
    /\ InFlightIsActive
    /\ OneJobPerNumber

LogInv ==
    /\ NewestHasNewestLog
    /\ FedFirst
    /\ PromptStateCoversLog
-----------------------------------------------------------------------------
(***************************************************************************)
(* Sets that are counted.                                                  *)
(***************************************************************************)
LEMMA ActiveIsFinite ==
    ASSUME active \in SUBSET Jobs
    PROVE  IsFiniteSet(active) /\ Cardinality(active) \in Nat
<1>1. IsFiniteSet(Jobs)
  BY FS_Interval, SuggestionsAssumption DEF Jobs
<1>2. QED
  BY <1>1, FS_Subset, FS_CardinalityType

LEMMA BusyIsFinite ==
    IsFiniteSet(Busy) /\ Cardinality(Busy) \in Nat
<1>1. Busy \in SUBSET Feeders
  BY DEF Busy
<1>2. QED
  BY <1>1, FS_Subset, FS_CardinalityType, SuggestionsAssumption

\* A feeder that begins or ends its callback changes Busy by itself.
LEMMA BusyAfter ==
    ASSUME NEW f \in Feeders, NEW c \in Nat, carries \in [Feeders -> Nat],
           carries' = [carries EXCEPT ![f] = c]
    PROVE  /\ c # 0 /\ carries[f] = 0 => Cardinality(Busy)' = Cardinality(Busy) + 1
           /\ c = 0 /\ carries[f] # 0 => Cardinality(Busy)' = Cardinality(Busy) - 1
           /\ carries[f] # 0 => Cardinality(Busy) > 0
<1>1. ASSUME c # 0, carries[f] = 0
      PROVE  Cardinality(Busy)' = Cardinality(Busy) + 1
  <2>1. Busy' = Busy \union {f} /\ f \notin Busy
    BY <1>1 DEF Busy
  <2>2. QED
    BY <2>1, BusyIsFinite, FS_AddElement
<1>2. ASSUME c = 0, carries[f] # 0
      PROVE  Cardinality(Busy)' = Cardinality(Busy) - 1
  <2>1. Busy' = Busy \ {f} /\ f \in Busy
    BY <1>2 DEF Busy
  <2>2. QED
    BY <2>1, BusyIsFinite, FS_RemoveElement
<1>3. ASSUME carries[f] # 0 PROVE Cardinality(Busy) > 0
  <2>1. Busy # {}
    BY <1>3 DEF Busy
  <2>2. QED
    BY <2>1, BusyIsFinite, FS_EmptySet
<1>4. QED
  BY <1>1, <1>2, <1>3

\* trimRecent keeps at most RecentMax lines and invents none.
LEMMA TrimmedKeeps ==
    ASSUME NEW s \in Seq(Chunks)
    PROVE  /\ Trimmed(s) \in Seq(Chunks)
           /\ Len(Trimmed(s)) <= RecentMax
           /\ \A i \in DOMAIN Trimmed(s) : \E k \in DOMAIN s : Trimmed(s)[i] = s[k]
<1>1. CASE Len(s) <= RecentMax
  BY <1>1 DEF Trimmed
<1>2. CASE Len(s) > RecentMax
  <2> DEFINE m == Len(s) - RecentMax + 1
  <2>1. m \in 1..Len(s) /\ m \in Int /\ Len(s) \in Int
    BY <1>2, SuggestionsAssumption
  <2>2. Trimmed(s) = SubSeq(s, m, Len(s))
    BY <1>2, SuggestionsAssumption DEF Trimmed
  <2>3. \A i \in m..Len(s) : s[i] \in Chunks
    BY <2>1
  <2>4. /\ SubSeq(s, m, Len(s)) \in Seq(Chunks)
        /\ Len(SubSeq(s, m, Len(s))) = IF m <= Len(s) THEN Len(s) - m + 1 ELSE 0
        /\ \A i \in 1..(Len(s) - m + 1) :
                SubSeq(s, m, Len(s))[i] = s[m + i - 1]
    BY <2>1, <2>3, SubSeqProperties
  <2>5. Len(s) - m + 1 = RecentMax
    BY <2>1, SuggestionsAssumption
  <2>6. ASSUME NEW i \in DOMAIN Trimmed(s)
        PROVE  \E k \in DOMAIN s : Trimmed(s)[i] = s[k]
    <3>1. i \in 1..RecentMax /\ m + i - 1 \in DOMAIN s
      BY <2>1, <2>2, <2>4, <2>5, <2>6, SuggestionsAssumption
    <3>2. QED
      BY <2>2, <2>4, <2>5, <3>1
  <2>7. QED
    BY <2>1, <2>2, <2>4, <2>5, <2>6, SuggestionsAssumption
<1>3. QED
  BY <1>1, <1>2, SuggestionsAssumption
-----------------------------------------------------------------------------
(***************************************************************************)
(* Jobs.                                                                   *)
(***************************************************************************)
LEMMA JobInvInit == Init => JobInv
<1> SUFFICES ASSUME Init PROVE JobInv
  OBVIOUS
<1>1. Busy = {}
  BY DEF Init, Busy
<1>2. Cardinality({}) = 0
  BY FS_EmptySet
<1>3. JobsHaveChunks
  BY <1>1, <1>2, SuggestionsAssumption DEF JobsHaveChunks, Init
<1>4. TypeOK
  BY SuggestionsAssumption DEF Init, TypeOK, Labels, FeederLabels
<1>5. AttemptsOfLabel /\ InFlightIsActive /\ OneJobPerNumber
  BY <1>2 DEF Init, AttemptsOfLabel, InFlightIsActive, OneJobPerNumber
<1>6. QED
  BY <1>3, <1>4, <1>5 DEF JobInv

LEMMA JobInvStep == JobInv /\ [Next]_vars => JobInv'
<1> SUFFICES ASSUME JobInv, [Next]_vars PROVE JobInv'
  OBVIOUS
<1> USE SuggestionsAssumption DEF JobInv
<1>0. /\ MaxChunks \in Nat
      /\ carries \in [Feeders -> Nat]
  BY DEF TypeOK
<1>1. CASE \E f \in Feeders : IngestState(f)
  <2>1. PICK f \in Feeders : IngestState(f)
    BY <1>1
  <2>2. /\ chunks + 1 \in Chunks /\ chunks + 1 \in Nat /\ chunks + 1 # 0
        /\ carries[f] = 0
    BY <2>1 DEF IngestState, Chunk, TypeOK, Chunks
  <2>3. Cardinality(Busy)' = Cardinality(Busy) + 1
    BY <1>0, <2>1, <2>2, BusyAfter DEF IngestState, Chunk
  <2>7. /\ chunks' \in 0..MaxChunks
        /\ carries' \in [Feeders -> 0..MaxChunks]
    BY <2>1, <2>2 DEF IngestState, Chunk, TypeOK, Chunks
  <2>9. /\ notStored' \in SUBSET Chunks
        /\ feeder' \in [Feeders -> FeederLabels]
        /\ \A g \in Feeders : carries'[g] = 0 <=> feeder'[g] = "idle"
    BY <2>1, <2>2 DEF IngestState, Chunk, FeederGoto, TypeOK, FeederLabels
  <2>8. TypeOK'
    BY <2>1, <2>7, <2>9 DEF IngestState, Chunk, TypeOK, logVars, promptVars,
                            activeVars, cancelVars, resultVars
  <2>4. JobsHaveChunks'
    BY <2>1, <2>3, BusyIsFinite DEF JobsHaveChunks, IngestState, Chunk, TypeOK, logVars
  <2>5. (AttemptsOfLabel /\ InFlightIsActive /\ OneJobPerNumber)'
    BY <2>1 DEF IngestState, Chunk, AttemptsOfLabel, InFlightIsActive, OneJobPerNumber,
                logVars, activeVars
  <2>6. QED
    BY <2>4, <2>5, <2>8
<1>17. CASE \E f \in Feeders : StateSteps(f)
  <2>1. PICK f \in Feeders : StateSteps(f)
    BY <1>17
  <2>2. /\ feeder[f] \notin {"idle", "fed"}
        /\ feeder' \in [Feeders -> FeederLabels]
        /\ \A g \in Feeders : feeder'[g] = "idle" <=> feeder[g] = "idle"
    BY <2>1 DEF StateSteps, StateReads, StateWrites, StateFails, FeederGoto, TypeOK,
                FeederLabels
  <2>3. carries[f] \in Chunks
    BY <2>2 DEF TypeOK, Chunks
  <2>4. /\ copy' \in [Feeders -> SUBSET Chunks]
        /\ stored' \in SUBSET Chunks
        /\ notStored' \in SUBSET Chunks
        /\ erased' \in SUBSET Chunks
    <3>1. CASE StateReads(f)
      BY <3>1 DEF StateReads, TypeOK
    <3>2. CASE StateWrites(f)
      BY <2>3, <3>2 DEF StateWrites, TypeOK
    <3>3. CASE StateFails(f)
      BY <2>3, <3>3 DEF StateFails, TypeOK
    <3>4. QED
      BY <2>1, <3>1, <3>2, <3>3 DEF StateSteps
  <2>5. UNCHANGED <<chunks, carries, logVars, job, promptVars, attempts, activeVars,
                    cancelVars, resultVars>>
    BY <2>1 DEF StateSteps, StateReads, StateWrites, StateFails
  <2>6. TypeOK'
    BY <2>2, <2>4, <2>5 DEF TypeOK, logVars, promptVars, activeVars, cancelVars,
                            resultVars
  <2>7. (JobsHaveChunks /\ AttemptsOfLabel /\ InFlightIsActive /\ OneJobPerNumber)'
    BY <2>5 DEF JobsHaveChunks, Busy, AttemptsOfLabel, InFlightIsActive,
                OneJobPerNumber, logVars, activeVars
  <2>8. QED
    BY <2>6, <2>7
<1>2. CASE \E f \in Feeders : IngestTerminal(f)
  <2>1. PICK f \in Feeders : IngestTerminal(f)
    BY <1>2
  <2>2. /\ Cardinality(Busy)' = Cardinality(Busy) - 1
        /\ Cardinality(Busy) > 0
    BY <1>0, <2>1, BusyAfter DEF IngestTerminal, TypeOK
  <2>3. JobsHaveChunks' /\ jobSeq + 1 <= chunks
    BY <2>1, <2>2, BusyIsFinite DEF JobsHaveChunks, IngestTerminal, TypeOK
  <2>4. /\ jobSeq' = jobSeq + 1 /\ timer' = jobSeq + 1
        /\ jobSeq + 1 \in Jobs /\ jobSeq + 1 \in 0..MaxChunks
    BY <2>1, <2>3 DEF IngestTerminal, TypeOK, Jobs
  <2>5. recent' \in Seq(Chunks) /\ Len(recent') <= RecentMax
    <3>1. carries[f] \in Chunks
      BY <2>1 DEF IngestTerminal, TypeOK, Chunks
    <3>2. Append(recent, carries[f]) \in Seq(Chunks)
      BY <3>1 DEF TypeOK
    <3>3. QED
      BY <2>1, <3>2, TrimmedKeeps DEF IngestTerminal
  <2>6. /\ carries' \in [Feeders -> 0..MaxChunks]
        /\ feeder' \in [Feeders -> FeederLabels]
        /\ \A g \in Feeders : carries'[g] = 0 <=> feeder'[g] = "idle"
    BY <2>1 DEF IngestTerminal, FeederGoto, TypeOK, FeederLabels
  <2>7. TypeOK'
    BY <2>1, <2>4, <2>5, <2>6
    DEF IngestTerminal, TypeOK, storeVars, promptVars, activeVars, cancelVars,
        resultVars
  <2>8. (AttemptsOfLabel /\ InFlightIsActive)'
    BY <2>1 DEF IngestTerminal, AttemptsOfLabel, InFlightIsActive, activeVars
  <2>9. OneJobPerNumber'
    BY <2>1, <2>4 DEF IngestTerminal, OneJobPerNumber, TypeOK, Jobs
  <2>10. QED
    BY <2>3, <2>7, <2>8, <2>9
<1>3. CASE \E f \in Feeders : IngestBlank(f)
  <2>1. PICK f \in Feeders : IngestBlank(f)
    BY <1>3
  <2>2. /\ carries' \in [Feeders -> 0..MaxChunks]
        /\ feeder' \in [Feeders -> FeederLabels]
        /\ \A g \in Feeders : carries'[g] = 0 <=> feeder'[g] = "idle"
    BY <2>1 DEF IngestBlank, FeederGoto, TypeOK, FeederLabels
  <2>3. TypeOK'
    BY <2>1, <2>2 DEF IngestBlank, TypeOK, storeVars, logVars, promptVars,
                      activeVars, cancelVars, resultVars
  <2>4. Cardinality(Busy)' = Cardinality(Busy) - 1
    BY <1>0, <2>1, BusyAfter DEF IngestBlank, TypeOK
  <2>5. JobsHaveChunks'
    BY <2>1, <2>4, BusyIsFinite DEF JobsHaveChunks, IngestBlank, TypeOK, logVars
  <2>6. (AttemptsOfLabel /\ InFlightIsActive /\ OneJobPerNumber)'
    BY <2>1 DEF IngestBlank, AttemptsOfLabel, InFlightIsActive, OneJobPerNumber,
                logVars, activeVars
  <2>7. QED
    BY <2>3, <2>5, <2>6
\* The other actions leave the feeders alone and never raise jobSeq.
<1>4. ASSUME UNCHANGED feedVars, UNCHANGED jobSeq
      PROVE  JobsHaveChunks'
  BY <1>4 DEF JobsHaveChunks, Busy, feedVars
<1>5. CASE TimerFires
  <2>1. timer \in Jobs /\ timer \in Nat
    BY <1>5 DEF TimerFires, TypeOK, Jobs
  <2>2. TypeOK'
    BY <1>5, <2>1 DEF TimerFires, Goto, TypeOK, Labels, feedVars, storeVars, promptVars,
                      activeVars, cancelVars, resultVars
  <2>3. AttemptsOfLabel'
    BY <1>5, <2>1 DEF TimerFires, Goto, TypeOK, AttemptsOfLabel, OneJobPerNumber,
                      activeVars
  <2>4. InFlightIsActive'
    BY <1>5, <2>1 DEF TimerFires, Goto, TypeOK, InFlightIsActive, OneJobPerNumber,
                      activeVars
  <2>5. OneJobPerNumber'
    BY <1>5, <2>1 DEF TimerFires, Goto, TypeOK, OneJobPerNumber
  <2>6. QED
    BY <1>4, <1>5, <2>2, <2>3, <2>4, <2>5 DEF TimerFires
<1>6. CASE \E j \in Jobs : ReadLog(j)
  <2>1. PICK j \in Jobs : ReadLog(j)
    BY <1>6
  <2>2. TypeOK'
    BY <2>1 DEF ReadLog, Goto, TypeOK, Labels, feedVars, storeVars, logVars, activeVars, cancelVars, resultVars
  <2>3. AttemptsOfLabel'
    BY <2>1 DEF ReadLog, Goto, TypeOK, AttemptsOfLabel, InFlightIsActive, feedVars, storeVars, logVars, activeVars, cancelVars, resultVars
  <2>4. InFlightIsActive'
    BY <2>1 DEF ReadLog, Goto, TypeOK, InFlightIsActive, AttemptsOfLabel, feedVars, storeVars, logVars, activeVars, cancelVars, resultVars
  <2>5. OneJobPerNumber'
    BY <2>1 DEF ReadLog, Goto, TypeOK, OneJobPerNumber, feedVars, storeVars, logVars, activeVars, cancelVars, resultVars
  <2>6. QED
    BY <1>4, <2>1, <2>2, <2>3, <2>4, <2>5 DEF ReadLog, logVars
<1>7. CASE \E j \in Jobs : ReadSnapshot(j)
  <2>1. PICK j \in Jobs : ReadSnapshot(j)
    BY <1>7
  <2>2. PICK l \in {"prompted", "failed"} :
            job[j] = "logRead" /\ job' = [job EXCEPT ![j] = l]
    BY <2>1 DEF ReadSnapshot, Goto
  <2>3. /\ stateRead' \in [Jobs -> SUBSET Chunks]
        /\ UNCHANGED <<feedVars, logVars, logRead, attempts, activeVars,
                       cancelVars, resultVars>>
    BY <2>1 DEF ReadSnapshot, TypeOK
  <2>4. TypeOK'
    BY <2>2, <2>3 DEF TypeOK, Labels, feedVars, storeVars, logVars, activeVars, cancelVars,
                      resultVars
  <2>9. j \notin active /\ attempts[j] = 0
    BY <2>2 DEF AttemptsOfLabel, InFlightIsActive
  <2>5. AttemptsOfLabel'
    BY <2>2, <2>3, <2>9 DEF TypeOK, AttemptsOfLabel, activeVars
  <2>6. InFlightIsActive'
    BY <2>2, <2>3 DEF TypeOK, InFlightIsActive, activeVars
  <2>7. OneJobPerNumber'
    BY <2>2, <2>3 DEF TypeOK, OneJobPerNumber, logVars
  <2>8. QED
    BY <1>4, <2>3, <2>4, <2>5, <2>6, <2>7 DEF logVars
<1>8. CASE \E j \in Jobs : MarkInFlight(j)
  <2>1. PICK j \in Jobs : MarkInFlight(j)
    BY <1>8
  <2>2. /\ job[j] = "prompted" /\ job' = [job EXCEPT ![j] = "calling"]
        /\ active' = active \union {j} /\ inFlight' = inFlight + 1
        /\ UNCHANGED <<feedVars, logVars, promptVars, attempts, cancelVars,
                       resultVars>>
    BY <2>1 DEF MarkInFlight, Goto
  <2>3. TypeOK'
    BY <2>2 DEF TypeOK, Labels, feedVars, storeVars, logVars, promptVars, cancelVars, resultVars
  <2>4. AttemptsOfLabel'
    BY <2>2 DEF TypeOK, AttemptsOfLabel
  <2>5. j \notin active
    BY <2>2 DEF InFlightIsActive
  <2>6. inFlight' = Cardinality(active)'
    BY <2>2, <2>5, ActiveIsFinite, FS_AddElement DEF InFlightIsActive, TypeOK
  <2>7. InFlightIsActive'
    BY <2>2, <2>6 DEF TypeOK, InFlightIsActive
  <2>8. OneJobPerNumber'
    BY <2>2 DEF TypeOK, OneJobPerNumber, logVars
  <2>9. QED
    BY <1>4, <2>2, <2>3, <2>4, <2>7, <2>8 DEF logVars
<1>9. CASE \E j \in Jobs : RequestBegins(j)
  <2>1. PICK j \in Jobs : RequestBegins(j)
    BY <1>9
  <2>2. PICK l \in {"failed", "requesting"} :
            /\ job[j] = "calling" /\ job' = [job EXCEPT ![j] = l]
            /\ attempts' = [attempts EXCEPT ![j] = @ + 1]
    BY <2>1 DEF RequestBegins, Goto
  <2>3. UNCHANGED <<feedVars, logVars, promptVars, activeVars, cancelVars, resultVars>>
    BY <2>1 DEF RequestBegins
  <2>4. attempts[j] \in 0..1 /\ j \in active
    BY <2>2 DEF TypeOK, AttemptsOfLabel, InFlightIsActive
  <2>5. TypeOK'
    BY <2>2, <2>3, <2>4 DEF TypeOK, Labels, feedVars, storeVars, logVars, promptVars,
                            activeVars, cancelVars, resultVars
  <2>6. AttemptsOfLabel'
    BY <2>2, <2>3, <2>4 DEF TypeOK, AttemptsOfLabel, activeVars
  <2>7. InFlightIsActive'
    BY <2>2, <2>3, <2>4 DEF TypeOK, InFlightIsActive, activeVars
  <2>8. OneJobPerNumber'
    BY <2>2, <2>3 DEF TypeOK, OneJobPerNumber, logVars
  <2>9. QED
    BY <1>4, <2>3, <2>5, <2>6, <2>7, <2>8 DEF logVars
<1>10. CASE \E j \in Jobs : RequestReturns(j)
  <2>1. PICK j \in Jobs : RequestReturns(j)
    BY <1>10
  <2>2. PICK l \in {"answered", "failed", "calling"} :
            /\ job[j] = "requesting" /\ job' = [job EXCEPT ![j] = l]
            /\ l = "calling" => attempts[j] < 2
    BY <2>1 DEF RequestReturns, Goto
  <2>3. UNCHANGED <<feedVars, logVars, promptVars, attempts, activeVars, cancelVars,
                    resultVars>>
    BY <2>1 DEF RequestReturns
  <2>4. attempts[j] > 0 /\ j \in active
    BY <2>2 DEF AttemptsOfLabel, InFlightIsActive
  <2>5. TypeOK'
    BY <2>2, <2>3 DEF TypeOK, Labels, feedVars, storeVars, logVars, promptVars, activeVars,
                      cancelVars, resultVars
  <2>6. AttemptsOfLabel'
    BY <2>2, <2>3, <2>4 DEF TypeOK, AttemptsOfLabel, activeVars
  <2>7. InFlightIsActive'
    BY <2>2, <2>3, <2>4 DEF TypeOK, InFlightIsActive, activeVars
  <2>8. OneJobPerNumber'
    BY <2>2, <2>3 DEF TypeOK, OneJobPerNumber, logVars
  <2>9. QED
    BY <1>4, <2>3, <2>5, <2>6, <2>7, <2>8 DEF logVars
<1>11. CASE \E j \in Jobs : Adopt(j)
  <2>1. PICK j \in Jobs : Adopt(j)
    BY <1>11
  <2>2. TypeOK'
    BY <2>1 DEF Adopt, Goto, TypeOK, Labels, feedVars, storeVars, logVars, promptVars, activeVars, cancelVars, resultVars, Jobs
  <2>3. AttemptsOfLabel'
    BY <2>1 DEF Adopt, Goto, TypeOK, AttemptsOfLabel, InFlightIsActive, feedVars, storeVars, logVars, promptVars, activeVars, cancelVars, resultVars, Jobs
  <2>4. InFlightIsActive'
    BY <2>1 DEF Adopt, Goto, TypeOK, InFlightIsActive, AttemptsOfLabel, feedVars, storeVars, logVars, promptVars, activeVars, cancelVars, resultVars, Jobs
  <2>5. OneJobPerNumber'
    BY <2>1 DEF Adopt, Goto, TypeOK, OneJobPerNumber, feedVars, storeVars, logVars, promptVars, activeVars, cancelVars, resultVars, Jobs
  <2>6. QED
    BY <1>4, <2>1, <2>2, <2>3, <2>4, <2>5 DEF Adopt, logVars
<1>12. CASE \E j \in Jobs : RecordError(j)
  <2>1. PICK j \in Jobs : RecordError(j)
    BY <1>12
  <2>2. PICK l \in {"done", "completing"} :
            /\ job[j] = "failed" /\ job' = [job EXCEPT ![j] = l]
            /\ l = "done" <=> attempts[j] = 0
    BY <2>1 DEF RecordError, Goto
  <2>3. /\ UNCHANGED <<feedVars, logVars, promptVars, attempts, activeVars,
                       cancelVars, latest>>
        /\ lastError' \in 0..MaxChunks
    BY <2>1 DEF RecordError, Jobs
  <2>10. attempts[j] \in 0..2 /\ (j \in active <=> attempts[j] > 0)
    BY <2>2 DEF AttemptsOfLabel, TypeOK
  <2>4. l = "completing" <=> j \in active
    BY <2>2, <2>10
  <2>5. TypeOK'
    BY <2>2, <2>3 DEF TypeOK, Labels, feedVars, storeVars, logVars, promptVars, activeVars,
                      cancelVars
  <2>6. AttemptsOfLabel'
    BY <2>2, <2>3 DEF TypeOK, AttemptsOfLabel, activeVars
  <2>7. InFlightIsActive'
    BY <2>2, <2>3, <2>4 DEF TypeOK, InFlightIsActive, activeVars
  <2>8. OneJobPerNumber'
    BY <2>2, <2>3 DEF TypeOK, OneJobPerNumber, logVars
  <2>9. QED
    BY <1>4, <2>3, <2>5, <2>6, <2>7, <2>8 DEF logVars
<1>13. CASE \E j \in Jobs : MarkCompleted(j)
  <2>1. PICK j \in Jobs : MarkCompleted(j)
    BY <1>13
  <2>2. job[j] = "completing" /\ j \in active
    BY <2>1 DEF MarkCompleted, InFlightIsActive
  <2>3. Cardinality(active \ {j}) = Cardinality(active) - 1 /\ Cardinality(active) > 0
    <3>1. active \in SUBSET Jobs /\ active # {}
      BY <2>2 DEF TypeOK
    <3>2. IsFiniteSet(active) /\ Cardinality(active) \in Nat /\ Cardinality(active) # 0
      BY <3>1, ActiveIsFinite, FS_EmptySet
    <3>3. Cardinality(active \ {j}) = Cardinality(active) - 1
      BY <2>2, <3>2, FS_RemoveElement
    <3>4. QED
      BY <3>2, <3>3
  <2>4. /\ job' = [job EXCEPT ![j] = "done"]
        /\ active' = active \ {j} /\ inFlight' = inFlight - 1
        /\ inFlight - 1 \in Nat
        /\ UNCHANGED <<feedVars, logVars, promptVars, attempts, cancelVars,
                       resultVars>>
    BY <2>1, <2>2, <2>3 DEF MarkCompleted, Goto, InFlightIsActive, TypeOK
  <2>5. TypeOK'
    BY <2>4 DEF TypeOK, Labels, feedVars, storeVars, logVars, promptVars, cancelVars, resultVars
  <2>6. AttemptsOfLabel'
    BY <2>2, <2>4 DEF TypeOK, AttemptsOfLabel
  <2>7. inFlight' = Cardinality(active)'
    BY <2>3, <2>4 DEF InFlightIsActive
  <2>8. InFlightIsActive'
    BY <2>2, <2>4, <2>7 DEF TypeOK, InFlightIsActive
  <2>9. OneJobPerNumber'
    BY <2>2, <2>4 DEF TypeOK, OneJobPerNumber, logVars
  <2>10. QED
    BY <1>4, <2>4, <2>5, <2>6, <2>8, <2>9 DEF logVars
<1>14. CASE \E h \in Cancellers : CollectCancels(h) \/ \E j \in Jobs : CancelJob(h, j)
  <2>1. PICK h \in Cancellers : CollectCancels(h) \/ \E j \in Jobs : CancelJob(h, j)
    BY <1>14
  <2>2. /\ cancelling' \in [Cancellers -> SUBSET Jobs]
        /\ cancelled' \in SUBSET Jobs
        /\ UNCHANGED <<feedVars, logVars, job, promptVars, attempts, activeVars,
                       resultVars>>
    BY <2>1 DEF CollectCancels, CancelJob, TypeOK
  <2>3. TypeOK'
    BY <2>2 DEF TypeOK, feedVars, storeVars, logVars, promptVars, activeVars, resultVars
  <2>4. (AttemptsOfLabel /\ InFlightIsActive /\ OneJobPerNumber)'
    BY <2>2 DEF AttemptsOfLabel, InFlightIsActive, OneJobPerNumber, logVars, activeVars
  <2>5. QED
    BY <1>4, <2>2, <2>3, <2>4 DEF logVars
<1>15. CASE UNCHANGED vars
  BY <1>15 DEF vars, feedVars, storeVars, logVars, promptVars, activeVars, cancelVars, resultVars,
               TypeOK, JobsHaveChunks, Busy, AttemptsOfLabel, InFlightIsActive,
               OneJobPerNumber
<1>16. QED
  BY <1>1, <1>2, <1>3, <1>5, <1>6, <1>7, <1>8, <1>9, <1>10, <1>11, <1>12, <1>13,
     <1>14, <1>15, <1>17
  DEF Next, FeedSteps, JobSteps

LEMMA JobInvHolds == Spec => []JobInv
<1>1. QED
  BY JobInvInit, JobInvStep, PTL DEF Spec

\* Every variable keeps its type; at most two attempts per job and no more
\* jobs than chunks are part of it.
THEOREM TypeCorrect == Spec => []TypeOK
<1>1. JobInv => TypeOK
  BY DEF JobInv
<1>2. QED
  BY <1>1, JobInvHolds, PTL

\* in_progress (Status) is true exactly while some job is registered.
THEOREM InFlight == Spec => []InFlightIsActive
<1>1. JobInv => InFlightIsActive
  BY DEF JobInv
<1>2. QED
  BY <1>1, JobInvHolds, PTL

\* A fired timer's number is never used again (IngestTerminal, runJob).
THEOREM JobNumbers == Spec => []OneJobPerNumber
<1>1. JobInv => OneJobPerNumber
  BY DEF JobInv
<1>2. QED
  BY <1>1, JobInvHolds, PTL
-----------------------------------------------------------------------------
(***************************************************************************)
(* What a prompt has read.                                                 *)
(***************************************************************************)
LEMMA LogInvInit == Init => LogInv
BY DEF Init, LogInv, NewestHasNewestLog, FedFirst, PromptStateCoversLog, Prompted

\* Steps of no reader, timer or prompt.
LEMMA LogInvKept ==
    ASSUME LogInv, UNCHANGED <<feedVars, recent, jobSeq, promptVars>>,
           \A j \in Jobs : /\ job'[j] = "logRead" => job[j] = "logRead"
                           /\ Prompted(j)' => Prompted(j)
    PROVE  LogInv'
<1>0. /\ feeder' = feeder /\ carries' = carries
      /\ stored' = stored /\ notStored' = notStored /\ erased' = erased
      /\ recent' = recent /\ jobSeq' = jobSeq /\ logRead' = logRead
  BY DEF feedVars, storeVars, promptVars
<1>1. NewestHasNewestLog'
  <2> SUFFICES ASSUME NEW j \in Jobs, job'[j] = "logRead" \/ Prompted(j)', jobSeq = j
               PROVE  logRead[j] = recent
    BY <1>0 DEF NewestHasNewestLog
  <2>1. job[j] = "logRead" \/ Prompted(j)
    OBVIOUS
  <2>2. QED
    BY <2>1 DEF LogInv, NewestHasNewestLog
<1>2. FedFirst'
  <2>1. \A j \in Jobs : job'[j] = "logRead" => job[j] = "logRead"
    OBVIOUS
  <2>2. QED
    BY <1>0, <2>1 DEF LogInv, FedFirst, Fed
<1>3. PromptStateCoversLog'
  BY DEF LogInv, PromptStateCoversLog, feedVars, storeVars, promptVars, Prompted
<1>4. QED
  BY <1>1, <1>2, <1>3 DEF LogInv

LEMMA LogInvStep == JobInv /\ LogInv /\ [Next]_vars => LogInv'
<1> SUFFICES ASSUME JobInv, LogInv, [Next]_vars PROVE LogInv'
  OBVIOUS
<1>0. TypeOK /\ OneJobPerNumber /\ InFlightIsActive /\ NewestHasNewestLog /\ FedFirst
      /\ PromptStateCoversLog
  BY DEF JobInv, LogInv
<1>1. CASE \E f \in Feeders : IngestState(f)
  <2>1. PICK f \in Feeders : IngestState(f)
    BY <1>1
  <2>2. /\ feeder[f] = "idle"
        /\ \E l \in {"upsert", "fed"} :
            /\ feeder' = [feeder EXCEPT ![f] = l]
            /\ l = "fed" => chunks + 1 \in notStored'
        /\ carries' = [carries EXCEPT ![f] = chunks + 1]
        /\ notStored \subseteq notStored'
        /\ UNCHANGED <<stored, erased, recent, jobSeq, job, logRead, stateRead, active>>
    BY <2>1 DEF IngestState, Chunk, FeederGoto, logVars, promptVars, activeVars
  <2>3. \A c : Fed(c) => Fed(c)'
    BY <2>2 DEF Fed
  <2>4. FedFirst'
    BY <1>0, <2>2, <2>3 DEF FedFirst, Fed, TypeOK
  <2>5. NewestHasNewestLog' /\ PromptStateCoversLog'
    BY <1>0, <2>2 DEF NewestHasNewestLog, PromptStateCoversLog, Prompted
  <2>6. QED
    BY <2>4, <2>5 DEF LogInv
\* What a write-back drops is erased: nothing that was fed is forgotten.
<1>11. CASE \E f \in Feeders : StateSteps(f)
  <2>1. PICK f \in Feeders : StateSteps(f)
    BY <1>11
  <2>2. /\ feeder' \in {[feeder EXCEPT ![f] = "merged"], [feeder EXCEPT ![f] = "fed"]}
        /\ feeder'[f] = "fed" => Fed(carries[f])'
        /\ notStored \subseteq notStored'
        /\ erased \subseteq erased'
        /\ stored \subseteq stored' \union erased'
        /\ UNCHANGED <<carries, recent, jobSeq, job, logRead, stateRead, active>>
    <3>1. CASE StateReads(f)
      BY <1>0, <3>1 DEF StateReads, FeederGoto, TypeOK, logVars, promptVars, activeVars
    <3>2. CASE StateWrites(f)
      BY <1>0, <3>2 DEF StateWrites, FeederGoto, Fed, TypeOK, logVars, promptVars,
                        activeVars
    <3>3. CASE StateFails(f)
      BY <1>0, <3>3 DEF StateFails, FeederGoto, Fed, TypeOK, logVars, promptVars,
                        activeVars
    <3>4. QED
      BY <2>1, <3>1, <3>2, <3>3 DEF StateSteps
  <2>3. \A c : Fed(c) => Fed(c)'
    BY <2>2 DEF Fed
  <2>4. FedFirst'
    <3>1. ASSUME NEW g \in Feeders, feeder'[g] = "fed" PROVE Fed(carries[g])'
      <4>1. CASE g = f
        BY <2>2, <3>1, <4>1
      <4>2. CASE g # f
        <5>1. Fed(carries[g])
          BY <1>0, <2>2, <3>1, <4>2 DEF FedFirst, TypeOK
        <5>2. QED
          BY <2>2, <5>1 DEF Fed
      <4>3. QED
        BY <4>1, <4>2
    <3>2. \A i \in DOMAIN recent : Fed(recent[i])'
      BY <1>0, <2>2 DEF FedFirst, Fed
    <3>3. \A j \in Jobs : job[j] = "logRead" =>
            \A i \in DOMAIN logRead[j] : Fed(logRead[j][i])'
      BY <1>0, <2>2 DEF FedFirst, Fed
    <3>4. QED
      BY <2>2, <3>1, <3>2, <3>3 DEF FedFirst
  <2>5. NewestHasNewestLog' /\ PromptStateCoversLog'
    BY <1>0, <2>2 DEF NewestHasNewestLog, PromptStateCoversLog, Prompted
  <2>6. QED
    BY <2>4, <2>5 DEF LogInv
<1>2. CASE \E f \in Feeders : IngestTerminal(f)
  <2>1. PICK f \in Feeders : IngestTerminal(f)
    BY <1>2
  <2>2. /\ recent' = Trimmed(Append(recent, carries[f]))
        /\ jobSeq' = jobSeq + 1
        /\ feeder[f] = "fed" /\ carries[f] # 0
        /\ feeder' = [feeder EXCEPT ![f] = "idle"]
        /\ carries' = [carries EXCEPT ![f] = 0]
        /\ UNCHANGED <<stored, notStored, erased, job, logRead, stateRead, active>>
    BY <1>0, <2>1 DEF IngestTerminal, FeederGoto, storeVars, promptVars, activeVars, TypeOK
  <2>3. \A c : Fed(c)' <=> Fed(c)
    BY <2>2 DEF Fed
  <2>4. /\ carries[f] \in Chunks /\ recent \in Seq(Chunks)
        /\ Append(recent, carries[f]) \in Seq(Chunks)
    BY <1>0, <2>2 DEF TypeOK, Chunks
  <2>5. \A k \in DOMAIN Append(recent, carries[f]) : Fed(Append(recent, carries[f])[k])
    <3>1. \A k \in DOMAIN Append(recent, carries[f]) :
            \/ k \in DOMAIN recent /\ Append(recent, carries[f])[k] = recent[k]
            \/ Append(recent, carries[f])[k] = carries[f]
      BY <2>4
    <3>2. Fed(carries[f]) /\ \A k \in DOMAIN recent : Fed(recent[k])
      BY <1>0, <2>2 DEF FedFirst
    <3>3. QED
      BY <3>1, <3>2
  <2>6. \A i \in DOMAIN recent' : Fed(recent'[i])
    BY <2>2, <2>4, <2>5, TrimmedKeeps
  <2>7. FedFirst'
    BY <1>0, <2>2, <2>3, <2>6 DEF FedFirst, TypeOK
  <2>8. NewestHasNewestLog'
    \* A new number: no job has it yet.
    <3>1. \A j \in Jobs : job[j] # "none" => j # jobSeq + 1
      BY <1>0 DEF OneJobPerNumber, TypeOK, Jobs
    <3>3. \A j \in active : j \in Jobs /\ job[j] # "none"
      BY <1>0 DEF InFlightIsActive, TypeOK
    <3>2. QED
      BY <2>2, <3>1, <3>3 DEF NewestHasNewestLog, Prompted
  <2>9. PromptStateCoversLog'
    BY <1>0, <2>2 DEF PromptStateCoversLog, Prompted
  <2>10. QED
    BY <2>7, <2>8, <2>9 DEF LogInv
<1>3. CASE \E f \in Feeders : IngestBlank(f)
  <2>1. PICK f \in Feeders : IngestBlank(f)
    BY <1>3
  <2>2. /\ carries' = [carries EXCEPT ![f] = 0]
        /\ feeder' = [feeder EXCEPT ![f] = "idle"]
        /\ UNCHANGED <<stored, notStored, erased, recent, jobSeq, job, logRead,
                       stateRead, active>>
    BY <2>1 DEF IngestBlank, FeederGoto, storeVars, logVars, promptVars, activeVars
  <2>3. FedFirst'
    BY <1>0, <2>2 DEF FedFirst, Fed, TypeOK
  <2>4. NewestHasNewestLog' /\ PromptStateCoversLog'
    BY <1>0, <2>2 DEF NewestHasNewestLog, PromptStateCoversLog, Prompted
  <2>5. QED
    BY <2>3, <2>4 DEF LogInv
<1>4. CASE \E j \in Jobs : ReadLog(j)
  <2>1. PICK j \in Jobs : ReadLog(j)
    BY <1>4
  <2>2. /\ logRead' = [logRead EXCEPT ![j] = recent]
        /\ job' = [job EXCEPT ![j] = "logRead"]
        /\ UNCHANGED <<carries, feeder, stored, notStored, erased, recent, jobSeq, stateRead,
                       active>>
        /\ job[j] = "fired" /\ j \notin active
    BY <1>0, <2>1 DEF ReadLog, Goto, feedVars, storeVars, logVars, activeVars, InFlightIsActive
  <2>3. FedFirst'
    BY <1>0, <2>2 DEF FedFirst, Fed, TypeOK
  <2>4. NewestHasNewestLog'
    BY <1>0, <2>2 DEF NewestHasNewestLog, Prompted, TypeOK
  <2>5. PromptStateCoversLog'
    BY <1>0, <2>2 DEF PromptStateCoversLog, Prompted, TypeOK
  <2>6. QED
    BY <2>3, <2>4, <2>5 DEF LogInv
<1>5. CASE \E j \in Jobs : ReadSnapshot(j)
  <2>1. PICK j \in Jobs : ReadSnapshot(j)
    BY <1>5
  <2>2. /\ job[j] = "logRead"
        /\ UNCHANGED <<carries, feeder, stored, notStored, erased, recent, jobSeq, logRead,
                       active>>
        /\ j \notin active
    BY <1>0, <2>1 DEF ReadSnapshot, feedVars, storeVars, logVars, activeVars, InFlightIsActive
  <2>3. PICK l \in {"prompted", "failed"} : job' = [job EXCEPT ![j] = l]
    BY <2>1 DEF ReadSnapshot, Goto
  <2>4. /\ l = "prompted" => stateRead' = [stateRead EXCEPT ![j] = stored]
        /\ l = "failed" => stateRead' = stateRead
    BY <1>0, <2>1, <2>2, <2>3 DEF ReadSnapshot, Goto, TypeOK
  <2>5. FedFirst'
    BY <1>0, <2>2, <2>3 DEF FedFirst, Fed, TypeOK
  <2>6. NewestHasNewestLog'
    BY <1>0, <2>2, <2>3 DEF NewestHasNewestLog, Prompted, TypeOK
  <2>7. PromptStateCoversLog'
    BY <1>0, <2>2, <2>3, <2>4 DEF PromptStateCoversLog, FedFirst, Fed, Prompted, TypeOK
  <2>8. QED
    BY <2>5, <2>6, <2>7 DEF LogInv
<1>6. CASE TimerFires
  <2>1. /\ UNCHANGED <<feedVars, recent, jobSeq, promptVars>>
        /\ job' = [job EXCEPT ![timer] = "fired"] /\ active' = active
    BY <1>6 DEF TimerFires, Goto, activeVars
  <2>2. QED
    BY <1>0, <2>1, LogInvKept DEF TypeOK, Prompted
<1>7. CASE \E j \in Jobs : MarkInFlight(j) \/ RequestBegins(j) \/ RequestReturns(j)
  <2>1. PICK j \in Jobs : MarkInFlight(j) \/ RequestBegins(j) \/ RequestReturns(j)
    BY <1>7
  <2>2. /\ UNCHANGED <<feedVars, recent, jobSeq, promptVars>>
        /\ active' = active \/ (job[j] = "prompted" /\ active' = active \union {j})
    BY <2>1 DEF MarkInFlight, RequestBegins, RequestReturns, logVars, activeVars
  <2>3. PICK l \in {"calling", "requesting", "answered", "failed"} :
            job' = [job EXCEPT ![j] = l]
    BY <2>1 DEF MarkInFlight, RequestBegins, RequestReturns, Goto
  <2>4. QED
    BY <1>0, <2>2, <2>3, LogInvKept DEF TypeOK, Prompted
<1>8. CASE \E j \in Jobs : Adopt(j) \/ RecordError(j) \/ MarkCompleted(j)
  <2>1. PICK j \in Jobs : Adopt(j) \/ RecordError(j) \/ MarkCompleted(j)
    BY <1>8
  <2>2. UNCHANGED <<feedVars, recent, jobSeq, promptVars>> /\ active' \subseteq active
    BY <2>1 DEF Adopt, RecordError, MarkCompleted, logVars, activeVars
  <2>3. PICK l \in {"completing", "done"} : job' = [job EXCEPT ![j] = l]
    BY <2>1 DEF Adopt, RecordError, MarkCompleted, Goto
  <2>4. QED
    BY <1>0, <2>2, <2>3, LogInvKept DEF TypeOK, Prompted
<1>9. CASE \/ \E h \in Cancellers : CollectCancels(h) \/ \E j \in Jobs : CancelJob(h, j)
           \/ UNCHANGED vars
  <2>1. UNCHANGED <<feedVars, recent, jobSeq, promptVars, job, active>>
    BY <1>9 DEF CollectCancels, CancelJob, logVars, activeVars, vars
  <2>2. QED
    BY <2>1, LogInvKept DEF Prompted
<1>10. QED
  BY <1>1, <1>2, <1>3, <1>4, <1>5, <1>6, <1>7, <1>8, <1>9, <1>11
  DEF Next, FeedSteps, JobSteps

LEMMA LogInvHolds == Spec => []LogInv
<1>1. QED
  BY LogInvInit, LogInvStep, JobInvHolds, PTL DEF Spec

\* The snapshot of a prompt is at least as new as its lines, except for what
\* had nothing to store, failed or was written away by an overlapping
\* UpsertDelta (router.go, buildPrompt, store.go), for any number of readers.
THEOREM PromptOrder == Spec => []PromptStateCoversLog
<1>1. LogInv => PromptStateCoversLog
  BY DEF LogInv
<1>2. QED
  BY <1>1, LogInvHolds, PTL

\* One reader at a time writes nothing away (UpsertDelta): every chunk of the
\* prompt's lines is then in its snapshot if it had a delta that was stored.
LoneReader == \A f, g \in Feeders : f = g

LoneInv ==
    /\ LoneReader => erased = {}
    /\ LoneReader => \A f \in Feeders : feeder[f] = "merged" => copy[f] = stored

THEOREM LoneReaderErasesNothing == Spec => [](LoneReader => erased = {})
<1>1. Init => LoneInv
  BY DEF Init, LoneInv
<1>2. JobInv /\ LoneInv /\ [Next]_vars => LoneInv'
  <2> SUFFICES ASSUME JobInv, LoneInv, [Next]_vars, LoneReader
               PROVE  /\ erased' = {}
                      /\ \A f \in Feeders : feeder'[f] = "merged" => copy'[f] = stored'
    BY DEF LoneInv, LoneReader
  <2>0. TypeOK /\ erased = {}
        /\ \A f \in Feeders : feeder[f] = "merged" => copy[f] = stored
    BY DEF JobInv, LoneInv
  <2>1. ASSUME NEW f \in Feeders, IngestState(f) \/ IngestTerminal(f) \/ IngestBlank(f)
        PROVE  /\ copy' = copy /\ stored' = stored /\ erased' = erased
               /\ \A g \in Feeders : feeder'[g] = "merged" => feeder[g] = "merged"
    BY <2>0, <2>1 DEF IngestState, Chunk, IngestTerminal, IngestBlank, FeederGoto,
                      storeVars, TypeOK
  <2>2. ASSUME NEW f \in Feeders, StateReads(f)
        PROVE  /\ erased' = {} /\ stored' = stored
               /\ \A g \in Feeders : copy'[g] = stored
    BY <2>0, <2>2 DEF StateReads, LoneReader, TypeOK
  <2>3. ASSUME NEW f \in Feeders, StateWrites(f) \/ StateFails(f)
        PROVE  /\ erased' = {}
               /\ \A g \in Feeders : feeder'[g] # "merged"
    BY <2>0, <2>3 DEF StateWrites, StateFails, FeederGoto, LoneReader, TypeOK
  <2>4. ASSUME \/ TimerFires
               \/ \E j \in Jobs : JobSteps(j)
               \/ \E h \in Cancellers : CollectCancels(h) \/ \E j \in Jobs : CancelJob(h, j)
               \/ UNCHANGED vars
        PROVE  UNCHANGED <<copy, stored, erased, feeder>>
    BY <2>4 DEF TimerFires, JobSteps, ReadLog, ReadSnapshot, MarkInFlight, RequestBegins,
                RequestReturns, Adopt, RecordError, MarkCompleted, CollectCancels,
                CancelJob, feedVars, storeVars, vars
  <2>5. QED
    BY <2>0, <2>1, <2>2, <2>3, <2>4 DEF Next, FeedSteps, StateSteps
<1>3. LoneInv => (LoneReader => erased = {})
  BY DEF LoneInv
<1>4. QED
  BY <1>1, <1>2, <1>3, JobInvHolds, PTL DEF Spec

\* No stale answer is ever shown: what runJob installs was asked for with the
\* terminal lines of this moment.
THEOREM FreshAnswers == Spec => AdoptsAnswerToNewestLog
<1>1. JobInv /\ LogInv /\ [Next]_vars => [latest' # latest => logRead[latest'] = recent]_vars
  <2> SUFFICES ASSUME JobInv, LogInv, [Next]_vars, latest' # latest
               PROVE  logRead[latest'] = recent
    OBVIOUS
  <2>1. PICK j \in Jobs : Adopt(j)
    BY DEF Next, IngestState, Chunk, FeedSteps, StateSteps, StateReads, StateWrites,
           StateFails, IngestTerminal, IngestBlank, TimerFires,
           JobSteps, ReadLog, ReadSnapshot, MarkInFlight, RequestBegins,
           RequestReturns, RecordError, MarkCompleted, CollectCancels, CancelJob,
           resultVars, vars
  <2>2. jobSeq = j /\ latest' = j /\ job[j] = "answered"
    BY <2>1 DEF Adopt, resultVars
  <2>3. QED
    BY <2>2 DEF JobInv, InFlightIsActive, LogInv, NewestHasNewestLog, Prompted
<1>2. QED
  BY <1>1, JobInvHolds, LogInvHolds, PTL DEF Spec, AdoptsAnswerToNewestLog
=============================================================================
