-------------------------- MODULE CodingJobs_proofs --------------------------
(* Proofs about CodingJobs, for any number of requests and faults.            *)
(*                                                                            *)
(* The inductive invariant says of every job what its record, its lease, its  *)
(* controller and its runner tell of one another; a step of one job leaves    *)
(* the others alone, a crash empties what is in memory.  A second one, over   *)
(* it, says that what a course job's channel is told is true of its record.   *)
EXTENDS CodingJobs, SequenceTheorems, TLAPS

-----------------------------------------------------------------------------
(* The invariant *)

\* A job nobody has started has left no trace.
Untouched(j) ==
    record[j] = "none" =>
        /\ j \notin lease /\ j \notin active
        /\ session[j] = "none" /\ deadline[j] = "off" /\ ~finished[j] /\ ~cancelling[j]

\* While start() is on the stack there is no runner; outside of it, no job of a
\* running process is queued.
Beginning(j) ==
    /\ starting = j => /\ phase = "up" /\ record[j] \in {"queued", "running"}
                       /\ session[j] = "none" /\ deadline[j] = "off" /\ ~finished[j]
    /\ phase = "up" /\ record[j] = "queued" => starting = j

\* LeasesFollowJobs, of one job
Follows(j) ==
    /\ phase = "up" /\ record[j] \in Live =>
        /\ j \in lease
        /\ j \in active <=> record[j] # "queued"
        /\ starting # j => ~finished[j] /\ deadline[j] # "off"
    /\ record[j] \in Terminal => j \notin active /\ (j \in lease => j \in retained)

\* A process that is down has nothing in memory.
Forgotten(j) ==
    phase = "down" =>
        /\ starting = NoJob /\ j \notin active /\ (j \in lease => j \in isolated)
        /\ session[j] = "none" /\ deadline[j] = "off" /\ ~finished[j] /\ ~cancelling[j]

Job(j) ==
    /\ j \notin asked => record[j] = "none"
    /\ Untouched(j) /\ Beginning(j) /\ Follows(j) /\ Forgotten(j)

OneCourseLease == \A j, k \in lease \cap Course : j = k

\* Every chain but a job's first is a retry's, and every retry a fault's.
Retries == \A j \in Jobs : tail[j] + timers[j] <= faults

IInv == TypeOK /\ Retries /\ (\A j \in Jobs : Job(j)) /\ OneCourseLease

-----------------------------------------------------------------------------
(* Types *)

\* The lifecycle state of any job state is one of the four.
LEMMA LifecycleType == ASSUME NEW s \in JobState PROVE LifecycleOf(s) \in CourseState
BY DEF JobState, Live, Terminal, LifecycleOf, CourseState

\* Reporting keeps the chains and the history typed.
LEMMA ReportsType ==
    ASSUME TypeOK, NEW j \in Jobs, NEW s \in JobState, Reports(j, s)
    PROVE /\ chains' \in [Jobs -> [Slots -> Seq(CourseState)]]
          /\ reported' \in [Jobs -> Seq(CourseState)]
<1>1. LifecycleOf(s) \in CourseState BY LifecycleType
<1>2. CASE j \in isolated BY <1>2 DEF TypeOK, Reports
<1>3. CASE j \notin isolated
    <2> DEFINE x == LifecycleOf(s)
    <2>1. chains[j] \in [Slots -> Seq(CourseState)] /\ tail[j] \in Slots BY DEF TypeOK
    <2>2. chains[j][tail[j]] \in Seq(CourseState) BY <2>1
    <2>3. Append(chains[j][tail[j]], x) \in Seq(CourseState) BY <1>1, <2>2
    <2>4. chains' = [chains EXCEPT ![j] = [chains[j] EXCEPT ![tail[j]] = Append(chains[j][tail[j]], x)]]
        BY <1>3 DEF Reports, Enqueued
    <2>5. [chains[j] EXCEPT ![tail[j]] = Append(chains[j][tail[j]], x)] \in [Slots -> Seq(CourseState)]
        BY <2>1, <2>3
    <2>6. chains' \in [Jobs -> [Slots -> Seq(CourseState)]] BY <2>4, <2>5 DEF TypeOK
    <2>7. reported[j] \in Seq(CourseState) BY DEF TypeOK
    <2>8. Append(reported[j], x) \in Seq(CourseState) BY <2>7, <1>1
    <2>9. reported' = [reported EXCEPT ![j] = Append(reported[j], x)] BY <1>3 DEF Reports
    <2>10. reported' \in [Jobs -> Seq(CourseState)] BY <2>8, <2>9 DEF TypeOK
    <2> QED BY <2>6, <2>10
<1> QED BY <1>2, <1>3

\* TypeOK in four parts: what settling a job changes, ...
JobTypes ==
    /\ isolated \subseteq Jobs /\ record \in [Jobs -> JobState]
    /\ lease \subseteq Jobs /\ active \subseteq Jobs /\ retained \subseteq Jobs
    /\ tree \in [head : Nat, dirty : BOOLEAN]
    /\ applied \in [Jobs -> {"no", "written", "verified"}]
    /\ chains \in [Jobs -> [Slots -> Seq(CourseState)]]
    /\ reported \in [Jobs -> Seq(CourseState)]

\* ... the runners, ...
RunnerTypes ==
    /\ session \in [Jobs -> {"none", "open", "over"}]
    /\ deadline \in [Jobs -> {"off", "armed", "confirming"}]
    /\ finished \in [Jobs -> BOOLEAN] /\ cancelling \in [Jobs -> BOOLEAN]

\* ... the course service, ...
StatusTypes ==
    /\ tail \in [Jobs -> Slots] /\ timers \in [Jobs -> Slots]
    /\ pending \in [Jobs -> CourseState \cup {"none"}]
    /\ reconciliation \in [Jobs -> SUBSET CourseState] /\ shown \in [Jobs -> Seq(CourseState)]

\* ... and the rest.
OtherTypes ==
    /\ asked \subseteq Jobs /\ starting \in Jobs \cup {NoJob}
    /\ before \in [Jobs -> Nat] /\ phase \in {"up", "down"} /\ faults \in 0 .. MaxFaults

\* The parts make up TypeOK, in a state and in the next one.
LEMMA TypeParts ==
    /\ TypeOK <=> JobTypes /\ RunnerTypes /\ StatusTypes /\ OtherTypes
    /\ TypeOK' <=> JobTypes' /\ RunnerTypes' /\ StatusTypes' /\ OtherTypes'
BY DEF TypeOK, JobTypes, RunnerTypes, StatusTypes, OtherTypes

\* Settling a job keeps its part typed.
LEMMA SettleType ==
    ASSUME TypeOK, NEW j \in Jobs, NEW ok \in BOOLEAN, NEW keep \in BOOLEAN, Settle(j, ok, keep)
    PROVE JobTypes'
<1>1. CASE record[j] \in Terminal
    <2>1. UNCHANGED <<isolated, record, lease, active, tree, applied, retained, chains, reported>>
        BY <1>1 DEF Settle, job
    <2> QED BY <2>1 DEF TypeOK, JobTypes
<1>2. CASE record[j] \notin Terminal
    <2>1. PICK o \in Outcomes(j, ok) :
            /\ record' = [record EXCEPT ![j] = Ending(record[j], o.ok)] /\ isolated' = isolated
            /\ applied' = [applied EXCEPT ![j] = o.applied]
            /\ tree' = IF o.applied = "no" THEN tree ELSE [tree EXCEPT !.dirty = TRUE]
            /\ Reports(j, record'[j])
            /\ active' = active \ {j}
            /\ lease' = IF keep THEN lease ELSE lease \ {j}
            /\ retained' = IF keep THEN retained \cup {j} ELSE retained
        BY <1>2 DEF Settle
    <2>2. o.applied \in {"no", "written", "verified"}
        BY <2>1 DEF Outcomes, ApplyOutcomes, Verdicts
    <2>3. Ending(record[j], o.ok) \in JobState BY DEF Ending, JobState, Terminal, Live
    <2>4. record' \in [Jobs -> JobState] /\ record'[j] \in JobState BY <2>1, <2>3 DEF TypeOK
    <2>5. applied' \in [Jobs -> {"no", "written", "verified"}] BY <2>1, <2>2 DEF TypeOK
    <2>6. tree' \in [head : Nat, dirty : BOOLEAN] BY <2>1 DEF TypeOK
    <2>7. /\ chains' \in [Jobs -> [Slots -> Seq(CourseState)]]
          /\ reported' \in [Jobs -> Seq(CourseState)]
        BY <2>1, <2>4, ReportsType
    <2>8. isolated' \subseteq Jobs /\ lease' \subseteq Jobs /\ active' \subseteq Jobs /\ retained' \subseteq Jobs
        <3>1. lease' \subseteq lease /\ active' \subseteq active /\ retained' \subseteq retained \cup {j}
            BY <2>1
        <3> QED BY <2>1, <3>1 DEF TypeOK
    <2> QED BY <2>4, <2>5, <2>6, <2>7, <2>8 DEF JobTypes
<1> QED BY <1>1, <1>2

\* And so does a result of the runner.
LEMMA FinishType ==
    ASSUME TypeOK, NEW j \in Jobs, NEW ok \in BOOLEAN, NEW keep \in BOOLEAN, Finish(j, ok, keep)
    PROVE JobTypes' /\ finished' \in [Jobs -> BOOLEAN]
<1>1. finished' \in [Jobs -> BOOLEAN] BY DEF Finish, TypeOK
<1>2. CASE finished[j]
    <2>1. UNCHANGED <<isolated, record, lease, active, tree, applied, retained, chains, reported>>
        BY <1>2 DEF Finish, job
    <2> QED BY <1>1, <2>1 DEF TypeOK, JobTypes
<1>3. CASE ~finished[j] BY <1>1, <1>3, SettleType DEF Finish
<1> QED BY <1>2, <1>3

\* What is put behind a chain keeps the chains typed.
LEMMA EnqueuedType ==
    ASSUME TypeOK, NEW j \in Jobs, NEW s \in CourseState
    PROVE Enqueued(j, s) \in [Jobs -> [Slots -> Seq(CourseState)]]
<1>1. chains[j] \in [Slots -> Seq(CourseState)] /\ tail[j] \in Slots BY DEF TypeOK
<1>2. chains[j][tail[j]] \in Seq(CourseState) BY <1>1
<1>3. Append(chains[j][tail[j]], s) \in Seq(CourseState) BY <1>2
<1>4. Enqueued(j, s) = [chains EXCEPT ![j] = [chains[j] EXCEPT ![tail[j]] = Append(chains[j][tail[j]], s)]]
    BY DEF Enqueued
<1>5. [chains[j] EXCEPT ![tail[j]] = Append(chains[j][tail[j]], s)] \in [Slots -> Seq(CourseState)]
    BY <1>1, <1>3
<1> QED BY <1>4, <1>5 DEF TypeOK

\* Disarming a deadline keeps the deadlines typed.
LEMMA DisarmedType ==
    ASSUME RunnerTypes, NEW j \in Jobs
    PROVE Disarmed(j) \in [Jobs -> {"off", "armed", "confirming"}]
BY DEF RunnerTypes, Disarmed

\* A retry that fires spends its timer for its chain.
LEMMA RetryType ==
    ASSUME TypeOK, Retries, NEW j \in Jobs, RetryFires(j)
    PROVE TypeOK' /\ Retries'
<1> USE BoundAssumption
<1>0. /\ JobTypes /\ RunnerTypes /\ StatusTypes /\ OtherTypes
      /\ TypeOK' <=> JobTypes' /\ RunnerTypes' /\ StatusTypes' /\ OtherTypes'
    BY TypeParts
<1> DEFINE t == tail[j]
           u == timers[j]
<1>1. t \in Nat /\ u \in Nat /\ u > 0 /\ t + u <= faults /\ faults <= MaxFaults /\ faults \in Nat
    BY <1>0 DEF StatusTypes, OtherTypes, Slots, Retries, RetryFires
<1>2. t + 1 \in Slots /\ u - 1 \in Slots /\ (t + 1) + (u - 1) <= faults
    BY <1>1 DEF Slots
<1>3. tail' = [tail EXCEPT ![j] = t + 1] /\ timers' = [timers EXCEPT ![j] = u - 1]
    BY DEF RetryFires
<1>4. tail' \in [Jobs -> Slots] /\ timers' \in [Jobs -> Slots] BY <1>0, <1>2, <1>3 DEF StatusTypes
<1>5. Retries'
    <2>1. faults' = faults BY DEF RetryFires
    <2>2. ASSUME NEW k \in Jobs PROVE tail'[k] + timers'[k] <= faults
        <3>1. CASE k = j
            <4>1. tail'[k] = t + 1 /\ timers'[k] = u - 1 BY <1>0, <1>3, <3>1 DEF StatusTypes
            <4> QED BY <4>1, <1>2
        <3>2. CASE k # j
            <4>1. tail'[k] = tail[k] /\ timers'[k] = timers[k] BY <1>0, <1>3, <3>2 DEF StatusTypes
            <4> QED BY <4>1 DEF Retries
        <3> QED BY <3>1, <3>2
    <2> QED BY <2>1, <2>2 DEF Retries
<1>6. chains' \in [Jobs -> [Slots -> Seq(CourseState)]]
    <2>1. CASE pending[j] = "none" BY <1>0, <2>1 DEF RetryFires, JobTypes
    <2>2. CASE pending[j] # "none"
        <3> DEFINE c == Append(chains[j][t + 1], pending[j])
        <3>1. chains[j] \in [Slots -> Seq(CourseState)] /\ pending[j] \in CourseState
            BY <1>0, <2>2 DEF JobTypes, StatusTypes
        <3>2. chains[j][t + 1] \in Seq(CourseState) BY <3>1, <1>2
        <3>3. c \in Seq(CourseState) BY <3>1, <3>2
        <3>4. [chains[j] EXCEPT ![t + 1] = c] \in [Slots -> Seq(CourseState)] BY <3>1, <3>3, <1>2
        <3>5. chains' = [chains EXCEPT ![j] = [chains[j] EXCEPT ![t + 1] = c]] BY <2>2 DEF RetryFires
        <3> QED BY <1>0, <3>4, <3>5 DEF JobTypes
    <2> QED BY <2>1, <2>2
<1>7. JobTypes' BY <1>0, <1>6 DEF RetryFires, job, JobTypes
<1>8. RunnerTypes' BY <1>0 DEF RetryFires, runner, RunnerTypes
<1>9. StatusTypes' BY <1>0, <1>4 DEF RetryFires, StatusTypes
<1>10. OtherTypes' BY <1>0 DEF RetryFires, OtherTypes
<1> QED BY <1>0, <1>5, <1>7, <1>8, <1>9, <1>10

\* A message that is shown, given up or to be tried again keeps its chain typed,
\* and a retry is paid with a fault.
LEMMA SentType ==
    ASSUME TypeOK, Retries, NEW j \in Jobs, NEW n \in Slots, Sent(j, n)
    PROVE TypeOK' /\ Retries'
<1> USE BoundAssumption
<1>0. /\ JobTypes /\ RunnerTypes /\ StatusTypes /\ OtherTypes
      /\ TypeOK' <=> JobTypes' /\ RunnerTypes' /\ StatusTypes' /\ OtherTypes'
    BY TypeParts
<1> DEFINE q == chains[j][n]
           x == Head(q)
<1>1. chains[j] \in [Slots -> Seq(CourseState)] BY <1>0 DEF JobTypes
<1>2. q \in Seq(CourseState) /\ q # <<>> BY <1>1 DEF Sent
<1>3. x \in CourseState /\ Tail(q) \in Seq(CourseState) BY <1>2
<1>4. [chains[j] EXCEPT ![n] = Tail(q)] \in [Slots -> Seq(CourseState)] BY <1>1, <1>3
<1>5. chains' = [chains EXCEPT ![j] = [chains[j] EXCEPT ![n] = Tail(q)]] BY DEF Sent
<1>6. chains' \in [Jobs -> [Slots -> Seq(CourseState)]] BY <1>0, <1>4, <1>5 DEF JobTypes
<1>7. JobTypes' BY <1>0, <1>6 DEF Sent, job, JobTypes
<1>8. RunnerTypes' BY <1>0 DEF Sent, runner, RunnerTypes
<1>9. UNCHANGED <<asked, starting, before, phase, tail>> BY DEF Sent
<1>10. \A k \in Jobs : /\ tail[k] \in Nat /\ timers[k] \in Nat /\ tail[k] + timers[k] <= faults
                        /\ timers[k] <= MaxFaults
    BY <1>0 DEF StatusTypes, Slots, Retries
<1>11. faults \in Nat /\ faults <= MaxFaults BY <1>0 DEF OtherTypes
<1>12. \/ /\ pending' = [pending EXCEPT ![j] = "none"]
          /\ reconciliation' = [reconciliation EXCEPT ![j] = @ \ {x}]
          /\ shown' = [shown EXCEPT ![j] = IF Contains(@, x) THEN @ ELSE Append(@, x)]
          /\ timers' = timers /\ faults' = faults
       \/ /\ faults < MaxFaults /\ faults' = faults + 1 /\ shown' = shown
          /\ pending' = [pending EXCEPT ![j] = "none"]
          /\ reconciliation' = [reconciliation EXCEPT ![j] = @ \cup {x}]
          /\ timers' = timers
       \/ /\ faults < MaxFaults /\ faults' = faults + 1 /\ shown' = shown
          /\ pending' = [pending EXCEPT ![j] = x]
          /\ timers' = [timers EXCEPT ![j] = timers[j] + 1]
          /\ reconciliation' = reconciliation
    BY DEF Sent
<1>13. CASE /\ pending' = [pending EXCEPT ![j] = "none"]
            /\ reconciliation' = [reconciliation EXCEPT ![j] = @ \ {x}]
            /\ shown' = [shown EXCEPT ![j] = IF Contains(@, x) THEN @ ELSE Append(@, x)]
            /\ timers' = timers /\ faults' = faults
    <2>1. shown[j] \in Seq(CourseState) BY <1>0 DEF StatusTypes
    <2>2. Append(shown[j], x) \in Seq(CourseState) BY <2>1, <1>3
    <2> HIDE DEF x
    <2>3. shown' \in [Jobs -> Seq(CourseState)] BY <1>0, <1>13, <2>1, <2>2 DEF StatusTypes
    <2>4. reconciliation' \in [Jobs -> SUBSET CourseState] BY <1>0, <1>13 DEF StatusTypes
    <2>5. StatusTypes' BY <1>0, <1>9, <1>13, <2>3, <2>4 DEF StatusTypes
    <2>6. OtherTypes' /\ Retries' BY <1>0, <1>9, <1>13 DEF OtherTypes, Retries
    <2> QED BY <1>0, <1>7, <1>8, <2>5, <2>6
<1>14. CASE /\ faults < MaxFaults /\ faults' = faults + 1 /\ shown' = shown
            /\ pending' = [pending EXCEPT ![j] = "none"]
            /\ reconciliation' = [reconciliation EXCEPT ![j] = @ \cup {x}]
            /\ timers' = timers
    <2> HIDE DEF x
    <2>4. reconciliation' \in [Jobs -> SUBSET CourseState] BY <1>0, <1>3, <1>14 DEF StatusTypes
    <2>5. StatusTypes' BY <1>0, <1>9, <1>14, <2>4 DEF StatusTypes
    <2>6. OtherTypes' BY <1>0, <1>9, <1>11, <1>14 DEF OtherTypes
    <2>7. Retries' BY <1>9, <1>10, <1>11, <1>14 DEF Retries
    <2> QED BY <1>0, <1>7, <1>8, <2>5, <2>6, <2>7
<1>15. CASE /\ faults < MaxFaults /\ faults' = faults + 1 /\ shown' = shown
            /\ pending' = [pending EXCEPT ![j] = x]
            /\ timers' = [timers EXCEPT ![j] = timers[j] + 1]
            /\ reconciliation' = reconciliation
    <2> HIDE DEF x
    <2>1. timers[j] + 1 \in Slots BY <1>10, <1>11, <1>15 DEF Slots
    <2>2. timers' \in [Jobs -> Slots] BY <1>0, <1>15, <2>1 DEF StatusTypes
    <2>5. StatusTypes' BY <1>0, <1>3, <1>9, <1>15, <2>2 DEF StatusTypes
    <2>6. OtherTypes' BY <1>0, <1>9, <1>11, <1>15 DEF OtherTypes
    <2>7. ASSUME NEW k \in Jobs PROVE tail'[k] + timers'[k] <= faults'
        <3>1. timers'[k] = timers[k] \/ timers'[k] = timers[k] + 1 BY <1>0, <1>15 DEF StatusTypes
        <3>2. tail'[k] = tail[k] BY <1>9
        <3> QED BY <3>1, <3>2, <1>10, <1>11, <1>15
    <2>8. Retries' BY <2>7 DEF Retries
    <2> QED BY <1>0, <1>7, <1>8, <2>5, <2>6, <2>8
<1> QED BY <1>12, <1>13, <1>14, <1>15

\* Every step keeps the types, and the retries counted.
LEMMA NextType ==
    ASSUME TypeOK, Retries, [Next]_vars
    PROVE TypeOK' /\ Retries'
<1> USE BoundAssumption
<1>0. /\ JobTypes /\ RunnerTypes /\ StatusTypes /\ OtherTypes
      /\ TypeOK' <=> JobTypes' /\ RunnerTypes' /\ StatusTypes' /\ OtherTypes'
    BY TypeParts
<1>1. ASSUME NEW j \in Jobs, Start(j) PROVE TypeOK' /\ Retries'
    <2>1. record' \in [Jobs -> JobState] BY <1>0, <1>1 DEF Start, JobTypes, JobState, Live
    <2>2. "queued" \in JobState BY DEF JobState, Live
    <2>3. chains' \in [Jobs -> [Slots -> Seq(CourseState)]] /\ reported' \in [Jobs -> Seq(CourseState)]
        BY <1>1, <2>2, ReportsType DEF Start
    <2>4. JobTypes' BY <1>0, <1>1, <2>1, <2>3 DEF Start, JobTypes
    <2>5. RunnerTypes' BY <1>0, <1>1 DEF Start, runner, RunnerTypes
    <2>6. StatusTypes' /\ Retries' BY <1>0, <1>1 DEF Start, status, StatusTypes, Retries
    <2>7. tree.head \in Nat BY <1>0 DEF JobTypes
    <2>8. before' \in [Jobs -> Nat] BY <1>0, <1>1, <2>7 DEF Start, OtherTypes
    <2>9. OtherTypes' BY <1>0, <1>1, <2>8 DEF Start, OtherTypes
    <2> QED BY <1>0, <2>4, <2>5, <2>6, <2>9
<1>2. ASSUME NEW j \in Jobs, Refuse(j) PROVE TypeOK' /\ Retries'
    <2>1. chains' = Enqueued(j, "failed") BY <1>2 DEF Refuse
    <2>2. "failed" \in CourseState BY DEF CourseState
    <2>3. chains' \in [Jobs -> [Slots -> Seq(CourseState)]] BY <2>1, <2>2, EnqueuedType
    <2>4. JobTypes' BY <1>0, <1>2, <2>3 DEF Refuse, job, JobTypes
    <2>5. RunnerTypes' BY <1>0, <1>2 DEF Refuse, runner, RunnerTypes
    <2>6. StatusTypes' /\ Retries' BY <1>0, <1>2 DEF Refuse, status, StatusTypes, Retries
    <2>7. OtherTypes' BY <1>0, <1>2 DEF Refuse, OtherTypes
    <2> QED BY <1>0, <2>4, <2>5, <2>6, <2>7
<1>3. ASSUME NEW j \in Jobs, SaveRunning(j) PROVE TypeOK' /\ Retries'
    <2>1. record' \in [Jobs -> JobState] BY <1>0, <1>3 DEF SaveRunning, JobTypes, JobState, Live
    <2>2. "running" \in JobState BY DEF JobState, Live
    <2>3. chains' \in [Jobs -> [Slots -> Seq(CourseState)]] /\ reported' \in [Jobs -> Seq(CourseState)]
        BY <1>3, <2>2, ReportsType DEF SaveRunning
    <2>4. JobTypes' BY <1>0, <1>3, <2>1, <2>3 DEF SaveRunning, JobTypes
    <2>5. RunnerTypes' BY <1>0, <1>3 DEF SaveRunning, runner, RunnerTypes
    <2>6. StatusTypes' /\ Retries' BY <1>0, <1>3 DEF SaveRunning, status, StatusTypes, Retries
    <2>7. OtherTypes' BY <1>0, <1>3 DEF SaveRunning, OtherTypes
    <2> QED BY <1>0, <2>4, <2>5, <2>6, <2>7
<1>4. ASSUME NEW j \in Jobs, RunnerStarts(j) PROVE TypeOK' /\ Retries'
    <2>4. JobTypes' BY <1>0, <1>4 DEF RunnerStarts, job, JobTypes
    <2>5. RunnerTypes' BY <1>0, <1>4 DEF RunnerStarts, RunnerTypes
    <2>6. StatusTypes' /\ Retries' BY <1>0, <1>4 DEF RunnerStarts, status, StatusTypes, Retries
    <2>7. OtherTypes' BY <1>0, <1>4 DEF RunnerStarts, OtherTypes
    <2> QED BY <1>0, <2>4, <2>5, <2>6, <2>7
<1>5. ASSUME NEW j \in Jobs, RunnerThrows(j) PROVE TypeOK' /\ Retries'
    <2>1. record' \in [Jobs -> JobState] BY <1>0, <1>5 DEF RunnerThrows, JobTypes, JobState, Terminal
    <2>2. "failed" \in JobState BY DEF JobState, Terminal
    <2>3. chains' \in [Jobs -> [Slots -> Seq(CourseState)]] /\ reported' \in [Jobs -> Seq(CourseState)]
        BY <1>5, <2>2, ReportsType DEF RunnerThrows
    <2>4. JobTypes' BY <1>0, <1>5, <2>1, <2>3 DEF RunnerThrows, JobTypes
    <2>5. RunnerTypes' BY <1>0, <1>5 DEF RunnerThrows, runner, RunnerTypes
    <2>6. StatusTypes' /\ Retries' BY <1>0, <1>5 DEF RunnerThrows, status, StatusTypes, Retries
    <2>7. OtherTypes' BY <1>0, <1>5 DEF RunnerThrows, OtherTypes
    <2> QED BY <1>0, <2>4, <2>5, <2>6, <2>7
<1>6. ASSUME NEW j \in Jobs, SessionEnds(j) PROVE TypeOK' /\ Retries'
    <2>1. PICK ok \in BOOLEAN : Finish(j, ok, FALSE) BY <1>6 DEF SessionEnds
    <2>2. JobTypes' /\ finished' \in [Jobs -> BOOLEAN] BY <2>1, FinishType
    <2>3. deadline' \in [Jobs -> {"off", "armed", "confirming"}] BY <1>0, <1>6, DisarmedType DEF SessionEnds
    <2>5. RunnerTypes' BY <1>0, <1>6, <2>2, <2>3 DEF SessionEnds, RunnerTypes
    <2>6. StatusTypes' /\ Retries' BY <1>0, <1>6 DEF SessionEnds, status, StatusTypes, Retries
    <2>7. OtherTypes' BY <1>0, <1>6 DEF SessionEnds, OtherTypes
    <2> QED BY <1>0, <2>2, <2>5, <2>6, <2>7
<1>7. ASSUME NEW j \in Jobs, Deadline(j) PROVE TypeOK' /\ Retries'
    <2>4. JobTypes' BY <1>0, <1>7 DEF Deadline, job, JobTypes
    <2>5. RunnerTypes' BY <1>0, <1>7 DEF Deadline, RunnerTypes
    <2>6. StatusTypes' /\ Retries' BY <1>0, <1>7 DEF Deadline, status, StatusTypes, Retries
    <2>7. OtherTypes' BY <1>0, <1>7 DEF Deadline, OtherTypes
    <2> QED BY <1>0, <2>4, <2>5, <2>6, <2>7
<1>8. ASSUME NEW j \in Jobs, DeadlineSettles(j) PROVE TypeOK' /\ Retries'
    <2>1. PICK confirmed \in BOOLEAN : Finish(j, FALSE, ~confirmed) BY <1>8 DEF DeadlineSettles
    <2>2. JobTypes' /\ finished' \in [Jobs -> BOOLEAN] BY <2>1, FinishType
    <2>5. RunnerTypes' BY <1>0, <1>8, <2>2 DEF DeadlineSettles, RunnerTypes
    <2>6. StatusTypes' /\ Retries' BY <1>0, <1>8 DEF DeadlineSettles, status, StatusTypes, Retries
    <2>7. OtherTypes' BY <1>0, <1>8 DEF DeadlineSettles, OtherTypes
    <2> QED BY <1>0, <2>2, <2>5, <2>6, <2>7
<1>9. ASSUME NEW j \in Jobs, Recover(j) PROVE TypeOK' /\ Retries'
    <2>1. record' \in [Jobs -> JobState] BY <1>0, <1>9 DEF Recover, JobTypes, JobState, Terminal
    <2>2. lease' \subseteq Jobs /\ retained' \subseteq Jobs BY <1>0, <1>9 DEF Recover, JobTypes
    <2>4. JobTypes' BY <1>0, <1>9, <2>1, <2>2 DEF Recover, JobTypes
    <2>5. RunnerTypes' BY <1>0, <1>9 DEF Recover, runner, RunnerTypes
    <2>6. StatusTypes' /\ Retries' BY <1>0, <1>9 DEF Recover, status, StatusTypes, Retries
    <2>7. OtherTypes' BY <1>0, <1>9 DEF Recover, OtherTypes
    <2> QED BY <1>0, <2>4, <2>5, <2>6, <2>7
<1>10. ASSUME NEW j \in Jobs, Cancel(j) PROVE TypeOK' /\ Retries'
    <2>1. record' \in [Jobs -> JobState] BY <1>0, <1>10 DEF Cancel, JobTypes, JobState, Live
    <2>4. JobTypes' BY <1>0, <1>10, <2>1 DEF Cancel, JobTypes
    <2>5. RunnerTypes' BY <1>0, <1>10 DEF Cancel, RunnerTypes
    <2>6. StatusTypes' /\ Retries' BY <1>0, <1>10 DEF Cancel, status, StatusTypes, Retries
    <2>7. OtherTypes' BY <1>0, <1>10 DEF Cancel, OtherTypes
    <2> QED BY <1>0, <2>4, <2>5, <2>6, <2>7
<1>11. ASSUME NEW j \in Jobs, CancelConfirmed(j) PROVE TypeOK' /\ Retries'
    <2>1. Settle(j, FALSE, FALSE) BY <1>11 DEF CancelConfirmed
    <2>2. JobTypes' BY <2>1, SettleType
    <2>3. deadline' \in [Jobs -> {"off", "armed", "confirming"}] BY <1>0, <1>11, DisarmedType DEF CancelConfirmed
    <2>5. RunnerTypes' BY <1>0, <1>11, <2>3 DEF CancelConfirmed, RunnerTypes
    <2>6. StatusTypes' /\ Retries' BY <1>0, <1>11 DEF CancelConfirmed, status, StatusTypes, Retries
    <2>7. OtherTypes' BY <1>0, <1>11 DEF CancelConfirmed, OtherTypes
    <2> QED BY <1>0, <2>2, <2>5, <2>6, <2>7
<1>12. ASSUME NEW j \in Jobs, CancelRejected(j) PROVE TypeOK' /\ Retries'
    <2>4. JobTypes' BY <1>0, <1>12 DEF CancelRejected, job, JobTypes
    <2>5. RunnerTypes' BY <1>0, <1>12 DEF CancelRejected, RunnerTypes
    <2>6. StatusTypes' /\ Retries' BY <1>0, <1>12 DEF CancelRejected, status, StatusTypes, Retries
    <2>7. OtherTypes' BY <1>0, <1>12 DEF CancelRejected, OtherTypes
    <2> QED BY <1>0, <2>4, <2>5, <2>6, <2>7
<1>13. ASSUME NEW j \in Jobs, RetryFires(j) PROVE TypeOK' /\ Retries' BY <1>13, RetryType
<1>14. ASSUME NEW j \in Jobs, NEW n \in Slots, Sent(j, n) PROVE TypeOK' /\ Retries' BY <1>14, SentType
<1>15. ASSUME Crash PROVE TypeOK' /\ Retries'
    <2>1. <<>> \in Seq(CourseState) OBVIOUS
    <2>2. [n \in Slots |-> <<>>] \in [Slots -> Seq(CourseState)] BY <2>1
    <2>3. chains' \in [Jobs -> [Slots -> Seq(CourseState)]] BY <1>15, <2>2 DEF Crash
    <2>4. JobTypes' BY <1>0, <1>15, <2>3 DEF Crash, JobTypes
    <2>5. RunnerTypes' BY <1>0, <1>15 DEF Crash, RunnerTypes
    <2>6. StatusTypes' BY <1>0, <1>15 DEF Crash, StatusTypes, Slots
    <2>7. OtherTypes' BY <1>0, <1>15 DEF Crash, OtherTypes
    <2>8. faults' \in Nat BY <1>0, <1>15 DEF Crash, OtherTypes
    <2>9. Retries' BY <1>15, <2>8 DEF Crash, Retries
    <2> QED BY <1>0, <2>4, <2>5, <2>6, <2>7, <2>9
<1>16. ASSUME Boot PROVE TypeOK' /\ Retries'
    <2>1. 0 \in Slots BY DEF Slots
    <2>2. ASSUME NEW j \in Jobs
          PROVE [chains[j] EXCEPT ![0] = <<LifecycleOf(record[j])>>] \in [Slots -> Seq(CourseState)]
        <3>1. LifecycleOf(record[j]) \in CourseState BY <1>0, LifecycleType DEF JobTypes
        <3>2. <<LifecycleOf(record[j])>> \in Seq(CourseState) BY <3>1
        <3>3. chains[j] \in [Slots -> Seq(CourseState)] BY <1>0 DEF JobTypes
        <3> QED BY <2>1, <3>2, <3>3
    <2>3. chains' \in [Jobs -> [Slots -> Seq(CourseState)]] BY <1>0, <1>16, <2>2 DEF Boot, JobTypes
    <2>4. JobTypes' BY <1>0, <1>16, <2>3 DEF Boot, job, JobTypes
    <2>5. RunnerTypes' BY <1>0, <1>16 DEF Boot, runner, RunnerTypes
    <2>6. StatusTypes' /\ Retries' BY <1>0, <1>16 DEF Boot, status, StatusTypes, Retries
    <2>7. OtherTypes' BY <1>0, <1>16 DEF Boot, OtherTypes
    <2> QED BY <1>0, <2>4, <2>5, <2>6, <2>7
<1>17. ASSUME Touch PROVE TypeOK' /\ Retries'
    <2>0. tree.head \in Nat /\ tree.dirty \in BOOLEAN /\ tree \in [head : Nat, dirty : BOOLEAN]
        BY <1>0 DEF JobTypes
    <2>1. tree' \in [head : Nat, dirty : BOOLEAN]
        <3>1. CASE tree' = [tree EXCEPT !.dirty = ~@]
            <4>1. tree' = [head |-> tree.head, dirty |-> ~tree.dirty] BY <2>0, <3>1
            <4> QED BY <2>0, <4>1
        <3>2. CASE tree' = [head |-> tree.head + 1, dirty |-> FALSE] BY <2>0, <3>2
        <3> QED BY <1>17, <3>1, <3>2 DEF Touch
    <2>4. JobTypes' BY <1>0, <1>17, <2>1 DEF Touch, JobTypes
    <2>5. RunnerTypes' BY <1>0, <1>17 DEF Touch, runner, RunnerTypes
    <2>6. StatusTypes' BY <1>0, <1>17 DEF Touch, status, StatusTypes
    <2>7. OtherTypes' BY <1>0, <1>17 DEF Touch, OtherTypes
    <2>8. UNCHANGED <<tail, timers>> /\ faults' = faults + 1 /\ faults \in Nat
        BY <1>0, <1>17 DEF Touch, status, OtherTypes
    <2>9. \A j \in Jobs : tail[j] \in Nat /\ timers[j] \in Nat BY <1>0 DEF StatusTypes, Slots
    <2>10. Retries' BY <2>8, <2>9 DEF Retries
    <2> QED BY <1>0, <2>4, <2>5, <2>6, <2>7, <2>10
<1>18. CASE UNCHANGED vars
    <2>4. JobTypes' BY <1>0, <1>18 DEF vars, JobTypes
    <2>5. RunnerTypes' BY <1>0, <1>18 DEF vars, RunnerTypes
    <2>6. StatusTypes' /\ Retries' BY <1>0, <1>18 DEF vars, StatusTypes, Retries
    <2>7. OtherTypes' BY <1>0, <1>18 DEF vars, OtherTypes
    <2> QED BY <1>0, <2>4, <2>5, <2>6, <2>7
<1> QED
    BY <1>1, <1>2, <1>3, <1>4, <1>5, <1>6, <1>7, <1>8, <1>9, <1>10, <1>11, <1>12, <1>13, <1>14,
       <1>15, <1>16, <1>17, <1>18 DEF Next

-----------------------------------------------------------------------------
(* The jobs *)

\* What the invariant says of a job is as it was.
Same(k) ==
    /\ phase' = phase /\ isolated' = isolated /\ record'[k] = record[k]
    /\ (k \in lease' <=> k \in lease) /\ (k \in active' <=> k \in active)
    /\ session'[k] = session[k] /\ deadline'[k] = deadline[k]
    /\ finished'[k] = finished[k] /\ cancelling'[k] = cancelling[k]
    /\ (starting' = k <=> starting = k) /\ (phase = "down" => starting' = starting)
    /\ (k \in asked => k \in asked') /\ (k \in retained => k \in retained')

\* What is as it was stays so.
LEMMA SameJob == ASSUME NEW k \in Jobs, Job(k), Same(k) PROVE Job(k)'
<1>1. (k \notin asked => record[k] = "none")' BY DEF Same, Job
<1>2. Untouched(k)' BY DEF Same, Job, Untouched
<1>3. Beginning(k)' BY DEF Same, Job, Beginning
<1>4. Follows(k)' BY DEF Same, Job, Follows
<1>5. Forgotten(k)' BY DEF Same, Job, Forgotten
<1> QED BY <1>1, <1>2, <1>3, <1>4, <1>5 DEF Job

\* A step that changes one job and gives no lease to another course job.
LEMMA OneJobMoves ==
    ASSUME NEW j \in Jobs, \A k \in Jobs : Job(k), OneCourseLease,
           \A k \in Jobs \ {j} : Same(k), Job(j)',
           isolated' = isolated, lease' \subseteq lease
    PROVE (\A k \in Jobs : Job(k))' /\ OneCourseLease'
<1>1. ASSUME NEW k \in Jobs PROVE Job(k)'
    <2>1. CASE k = j BY <2>1
    <2>2. CASE k # j BY <2>2, SameJob
    <2> QED BY <2>1, <2>2
<1>2. OneCourseLease' BY DEF OneCourseLease, Course
<1> QED BY <1>1, <1>2

\* A job that has been started and settles has ended, without a controller.
LEMMA Settled ==
    ASSUME TypeOK, NEW j \in Jobs, NEW ok \in BOOLEAN, NEW keep \in BOOLEAN, Settle(j, ok, keep),
           record[j] # "none", Follows(j)
    PROVE /\ record'[j] \in Terminal /\ j \notin active' /\ (j \in lease' => j \in retained')
          /\ record[j] \in Terminal => record'[j] = record[j]
          /\ record[j] = "cancelling" => record'[j] \in {"cancelling", "cancelled", "failed"}
          /\ isolated' = isolated /\ lease' \subseteq lease
          /\ \A k \in Jobs \ {j} :
                /\ record'[k] = record[k] /\ (k \in lease' <=> k \in lease)
                /\ (k \in active' <=> k \in active) /\ (k \in retained => k \in retained')
<1>1. CASE record[j] \in Terminal
    <2>1. UNCHANGED <<isolated, record, lease, active, retained>> BY <1>1 DEF Settle, job
    <2> QED BY <1>1, <2>1 DEF Follows, Terminal
<1>2. CASE record[j] \notin Terminal
    <2>1. PICK o \in Outcomes(j, ok) :
            /\ record' = [record EXCEPT ![j] = Ending(record[j], o.ok)] /\ isolated' = isolated
            /\ active' = active \ {j}
            /\ lease' = IF keep THEN lease ELSE lease \ {j}
            /\ retained' = IF keep THEN retained \cup {j} ELSE retained
        BY <1>2 DEF Settle
    <2>2. record \in [Jobs -> JobState] BY DEF TypeOK
    <2>3. record'[j] = Ending(record[j], o.ok) BY <2>1, <2>2
    <2>4. Ending(record[j], o.ok) \in Terminal BY DEF Ending, Terminal
    <2>5. record[j] = "cancelling" => Ending(record[j], o.ok) = "cancelled" BY DEF Ending
    <2>6. ASSUME NEW k \in Jobs \ {j} PROVE record'[k] = record[k] BY <2>1, <2>2, <2>6
    <2>7. /\ j \notin active' /\ (j \in lease' => j \in retained') /\ lease' \subseteq lease
          /\ \A k \in Jobs \ {j} : /\ (k \in lease' <=> k \in lease) /\ (k \in active' <=> k \in active)
                                   /\ (k \in retained => k \in retained')
        BY <2>1
    <2> QED BY <1>2, <2>1, <2>3, <2>4, <2>5, <2>6, <2>7
<1> QED BY <1>1, <1>2

\* The result of a runner ends its job, unless a result has.
LEMMA FinishedJob ==
    ASSUME TypeOK, NEW j \in Jobs, NEW ok \in BOOLEAN, NEW keep \in BOOLEAN, Finish(j, ok, keep),
           Idle, record[j] # "none", Job(j)
    PROVE /\ record'[j] \in Terminal /\ j \notin active' /\ (j \in lease' => j \in retained')
          /\ record[j] \in Terminal => record'[j] = record[j]
          /\ record[j] = "cancelling" => record'[j] \in {"cancelling", "cancelled", "failed"}
          /\ isolated' = isolated /\ lease' \subseteq lease
          /\ \A k \in Jobs \ {j} :
                /\ record'[k] = record[k] /\ (k \in lease' <=> k \in lease)
                /\ (k \in active' <=> k \in active) /\ (k \in retained => k \in retained')
<1>0. Follows(j) BY DEF Job
<1>1. CASE finished[j]
    <2>1. UNCHANGED <<isolated, record, lease, active, retained>> BY <1>1 DEF Finish, job
    <2>2. starting # j BY JobAssumption DEF Idle
    <2>3. record[j] \notin Live BY <1>0, <1>1, <2>2 DEF Follows, Idle
    <2>4. record[j] \in JobState BY DEF TypeOK
    <2>5. record[j] \in Terminal BY <2>3, <2>4 DEF JobState
    <2> QED BY <1>0, <2>1, <2>5 DEF Follows, Terminal
<1>2. CASE ~finished[j]
    <2>1. Settle(j, ok, keep) BY <1>2 DEF Finish
    <2> QED BY <1>0, <2>1, Settled
<1> QED BY <1>1, <1>2

\* A job that has ended satisfies the invariant, whatever its runner still does.
LEMMA EndedJob ==
    ASSUME NEW j \in Jobs, (j \in asked)', (record[j] \in Terminal)', (j \notin active)',
           (j \in lease => j \in retained)', (starting # j)',
           Forgotten(j)'
    PROVE Job(j)'
<1>1. record'[j] \notin Live /\ record'[j] # "none" /\ record'[j] # "queued" BY DEF Terminal, Live
<1>2. Untouched(j)' BY <1>1 DEF Untouched
<1>3. Beginning(j)' BY <1>1 DEF Beginning
<1>4. Follows(j)' BY <1>1 DEF Follows
<1> QED BY <1>1, <1>2, <1>3, <1>4 DEF Job

\* A step that touches nothing the invariant is about.
LEMMA QuietKeepsJobs ==
    ASSUME \A k \in Jobs : Job(k), OneCourseLease,
           UNCHANGED <<isolated, record, asked, starting, lease, active, session, deadline,
                       finished, cancelling, phase, retained>>
    PROVE (\A k \in Jobs : Job(k))' /\ OneCourseLease'
<1>1. ASSUME NEW k \in Jobs PROVE Job(k)'
    <2>1. Same(k) BY DEF Same
    <2> QED BY <2>1, SameJob
<1>2. OneCourseLease' BY DEF OneCourseLease, Course
<1> QED BY <1>1, <1>2

\* A result of the runner ends its job and leaves the others.
LEMMA ResultKeeps ==
    ASSUME TypeOK, \A k \in Jobs : Job(k), OneCourseLease,
           NEW j \in Jobs, NEW ok \in BOOLEAN, NEW keep \in BOOLEAN, Finish(j, ok, keep),
           Idle, record[j] # "none", UNCHANGED <<asked, starting, cancelling, phase>>,
           \A k \in Jobs \ {j} : session'[k] = session[k] /\ deadline'[k] = deadline[k]
    PROVE (\A k \in Jobs : Job(k))' /\ OneCourseLease'
<1>0. Job(j) /\ j \in asked BY DEF Job
<1>1. /\ record'[j] \in Terminal /\ j \notin active' /\ (j \in lease' => j \in retained')
      /\ isolated' = isolated /\ lease' \subseteq lease
      /\ \A k \in Jobs \ {j} :
            /\ record'[k] = record[k] /\ (k \in lease' <=> k \in lease)
            /\ (k \in active' <=> k \in active) /\ (k \in retained => k \in retained')
    BY <1>0, FinishedJob
<1>2. starting # j /\ starting' = starting /\ Forgotten(j)' BY JobAssumption DEF Idle, Forgotten
<1>3. Job(j)' BY <1>0, <1>1, <1>2, EndedJob
<1>4. ASSUME NEW k \in Jobs \ {j} PROVE Same(k)
    <2>1. finished'[k] = finished[k] BY DEF Finish, TypeOK
    <2> QED BY <1>1, <2>1 DEF Same
<1> QED BY <1>1, <1>3, <1>4, OneJobMoves


\* Every step keeps what is known of each job, and the course lease to one.
LEMMA NextJobs ==
    ASSUME IInv, TypeOK', [Next]_vars
    PROVE (\A k \in Jobs : Job(k))' /\ OneCourseLease'
<1> DEFINE Goal == (\A k \in Jobs : Job(k))' /\ OneCourseLease'
<1> USE JobAssumption
<1>0. /\ TypeOK /\ (\A k \in Jobs : Job(k)) /\ OneCourseLease
      /\ record \in [Jobs -> JobState] /\ session \in [Jobs -> {"none", "open", "over"}]
      /\ deadline \in [Jobs -> {"off", "armed", "confirming"}]
      /\ finished \in [Jobs -> BOOLEAN] /\ cancelling \in [Jobs -> BOOLEAN]
    BY DEF IInv, TypeOK
<1>1. ASSUME NEW j \in Jobs, Start(j) PROVE Goal
    <2>1. record[j] = "none" BY <1>0, <1>1 DEF Start, Job
    <2>2. /\ j \notin lease /\ j \notin active /\ session[j] = "none" /\ deadline[j] = "off"
          /\ ~finished[j] /\ ~cancelling[j]
        BY <1>0, <2>1 DEF Job, Untouched
    <2>3. /\ phase = "up" /\ starting = NoJob /\ starting' = j /\ record'[j] = "queued"
          /\ lease' = lease \cup {j} /\ asked' = asked \cup {j}
          /\ UNCHANGED <<isolated, active, session, deadline, finished, cancelling, phase, retained>>
        BY <1>0, <1>1 DEF Start, Idle, runner
    <2>4. Job(j)' BY <2>2, <2>3 DEF Job, Untouched, Beginning, Follows, Forgotten, Live, Terminal
    <2>5. ASSUME NEW k \in Jobs \ {j} PROVE Job(k)'
        <3>1. record'[k] = record[k] BY <1>0, <1>1 DEF Start
        <3>2. Same(k) BY <2>3, <3>1 DEF Same
        <3> QED BY <1>0, <3>2, SameJob
    <2>6. OneCourseLease'
        <3>1. Course' = Course BY <2>3 DEF Course
        <3>2. CASE j \in Course
            <4>1. lease \cap Course = {} BY <1>1, <3>2 DEF Start, CanPrepare
            <4> QED BY <2>3, <3>1, <4>1 DEF OneCourseLease
        <3>3. CASE j \notin Course BY <1>0, <2>3, <3>1, <3>3 DEF OneCourseLease
        <3> QED BY <3>2, <3>3
    <2> QED BY <2>4, <2>5, <2>6
<1>2. ASSUME NEW j \in Jobs, Refuse(j) PROVE Goal
    <2>1. ASSUME NEW k \in Jobs PROVE Same(k) BY <1>2 DEF Refuse, job, runner, Same
    <2>2. record[j] = "none" BY <1>0, <1>2 DEF Refuse, Job
    <2>3. Job(j)' BY <1>0, <2>1, SameJob
    <2> QED BY <1>0, <1>2, <2>1, <2>3, OneJobMoves DEF Refuse, job
<1>3. ASSUME NEW j \in Jobs, SaveRunning(j) PROVE Goal
    <2>1. /\ phase = "up" /\ starting = j /\ record[j] = "queued" /\ record'[j] = "running"
          /\ active' = active \cup {j}
          /\ UNCHANGED <<isolated, asked, starting, lease, session, deadline, finished, cancelling, phase, retained>>
        BY <1>0, <1>3 DEF SaveRunning, runner
    <2>2. j \in lease /\ j \in asked /\ session[j] = "none" /\ deadline[j] = "off" /\ ~finished[j]
        BY <1>0, <2>1 DEF Job, Follows, Beginning, Live
    <2>3. Job(j)' BY <2>1, <2>2 DEF Job, Untouched, Beginning, Follows, Forgotten, Live, Terminal
    <2>4. ASSUME NEW k \in Jobs \ {j} PROVE Same(k)
        <3>1. record'[k] = record[k] BY <1>0, <1>3 DEF SaveRunning
        <3> QED BY <2>1, <3>1 DEF Same
    <2> QED BY <1>0, <2>1, <2>3, <2>4, OneJobMoves
<1>4. ASSUME NEW j \in Jobs, RunnerStarts(j) PROVE Goal
    <2>1. /\ phase = "up" /\ starting = j /\ record[j] = "running" /\ starting' = NoJob
          /\ session'[j] = "open" /\ deadline'[j] = "armed"
          /\ UNCHANGED <<isolated, record, asked, lease, active, finished, cancelling, phase, retained>>
        BY <1>0, <1>4 DEF RunnerStarts, job
    <2>2. j \in lease /\ j \in active /\ j \in asked /\ ~finished[j]
        BY <1>0, <2>1 DEF Job, Follows, Beginning, Live
    <2>3. Job(j)' BY <2>1, <2>2 DEF Job, Untouched, Beginning, Follows, Forgotten, Live, Terminal
    <2>4. ASSUME NEW k \in Jobs \ {j} PROVE Same(k)
        <3>1. session'[k] = session[k] /\ deadline'[k] = deadline[k] BY <1>0, <1>4 DEF RunnerStarts
        <3> QED BY <2>1, <3>1 DEF Same
    <2> QED BY <1>0, <2>1, <2>3, <2>4, OneJobMoves
<1>5. ASSUME NEW j \in Jobs, RunnerThrows(j) PROVE Goal
    <2>1. /\ phase = "up" /\ starting = j /\ record[j] = "running" /\ starting' = NoJob
          /\ record'[j] = "failed" /\ active' = active \ {j} /\ lease' = lease \ {j}
          /\ UNCHANGED <<isolated, asked, session, deadline, finished, cancelling, phase, retained>>
        BY <1>0, <1>5 DEF RunnerThrows, runner
    <2>2. j \in asked BY <1>0, <2>1 DEF Job
    <2>3. Forgotten(j)' BY <2>1 DEF Forgotten
    <2>4. Job(j)' BY <2>1, <2>2, <2>3, EndedJob DEF Terminal
    <2>5. ASSUME NEW k \in Jobs \ {j} PROVE Same(k)
        <3>1. record'[k] = record[k] BY <1>0, <1>5 DEF RunnerThrows
        <3> QED BY <2>1, <3>1 DEF Same
    <2> QED BY <1>0, <2>1, <2>4, <2>5, OneJobMoves
<1>6. ASSUME NEW j \in Jobs, SessionEnds(j) PROVE Goal
    <2>1. PICK ok \in BOOLEAN : Finish(j, ok, FALSE) BY <1>6 DEF SessionEnds
    <2>2. /\ Idle /\ session' = [session EXCEPT ![j] = "over"] /\ deadline' = Disarmed(j)
          /\ session[j] = "open" /\ UNCHANGED <<asked, starting, cancelling, phase>>
        BY <1>6 DEF SessionEnds
    <2>3. record[j] # "none" BY <1>0, <2>2 DEF Job, Untouched
    <2>4. finished' = [finished EXCEPT ![j] = TRUE] BY <2>1 DEF Finish
    <2> QED BY <1>0, <2>1, <2>2, <2>3, <2>4, ResultKeeps DEF Disarmed
<1>7. ASSUME NEW j \in Jobs, Deadline(j) PROVE Goal
    <2>1. /\ Idle /\ deadline[j] = "armed" /\ deadline'[j] = "confirming"
          /\ UNCHANGED <<isolated, record, asked, starting, lease, active, session, finished, cancelling, phase, retained>>
        BY <1>0, <1>7 DEF Deadline, job
    <2>2. Job(j) /\ record[j] # "none" BY <1>0, <2>1 DEF Job, Untouched
    <2>3. Job(j)' BY <2>1, <2>2 DEF Job, Untouched, Beginning, Follows, Forgotten, Idle
    <2>4. ASSUME NEW k \in Jobs \ {j} PROVE Same(k)
        <3>1. deadline'[k] = deadline[k] BY <1>0, <1>7 DEF Deadline
        <3> QED BY <2>1, <3>1 DEF Same
    <2> QED BY <1>0, <2>1, <2>3, <2>4, OneJobMoves
<1>8. ASSUME NEW j \in Jobs, DeadlineSettles(j) PROVE Goal
    <2>1. PICK confirmed \in BOOLEAN : Finish(j, FALSE, ~confirmed) BY <1>8 DEF DeadlineSettles
    <2>2. /\ Idle /\ deadline' = [deadline EXCEPT ![j] = "off"]
          /\ deadline[j] = "confirming" /\ UNCHANGED <<asked, starting, session, cancelling, phase>>
        BY <1>8 DEF DeadlineSettles
    <2>3. record[j] # "none" BY <1>0, <2>2 DEF Job, Untouched
    <2>4. finished' = [finished EXCEPT ![j] = TRUE] BY <2>1 DEF Finish
    <2> QED BY <1>0, <2>1, <2>2, <2>3, <2>4, ResultKeeps
<1>9. ASSUME NEW j \in Jobs, Recover(j) PROVE Goal
    <2>1. /\ phase = "down" /\ record[j] \in Live /\ record'[j] = "failed"
          /\ UNCHANGED <<isolated, asked, starting, active, session, deadline, finished, cancelling, phase>>
          /\ lease' \subseteq lease /\ (j \in lease' => j \in retained')
          /\ \A k \in Jobs \ {j} : (k \in lease' <=> k \in lease) /\ (k \in retained => k \in retained')
        BY <1>0, <1>9 DEF Recover, runner
    <2>2. j \in asked /\ Forgotten(j) BY <1>0, <2>1 DEF Job, Live
    <2>3. Forgotten(j)' /\ j \notin active /\ starting # j BY <2>1, <2>2 DEF Forgotten
    <2>4. Job(j)' BY <2>1, <2>2, <2>3, EndedJob DEF Terminal
    <2>5. ASSUME NEW k \in Jobs \ {j} PROVE Same(k)
        <3>1. record'[k] = record[k] BY <1>0, <1>9 DEF Recover
        <3> QED BY <2>1, <3>1 DEF Same
    <2> QED BY <1>0, <2>1, <2>4, <2>5, OneJobMoves
<1>10. ASSUME NEW j \in Jobs, Cancel(j) PROVE Goal
    <2>1. /\ Idle /\ record[j] \in Live /\ record'[j] = "cancelling" /\ cancelling'[j]
          /\ UNCHANGED <<isolated, asked, starting, lease, active, session, deadline, finished, phase, retained>>
        BY <1>0, <1>10 DEF Cancel
    <2>2. record[j] # "queued" /\ starting # j BY <1>0, <2>1 DEF Job, Beginning, Idle
    <2>3. Job(j) BY <1>0
    <2>4. Job(j)' BY <2>1, <2>2, <2>3 DEF Job, Untouched, Beginning, Follows, Forgotten, Idle, Live, Terminal
    <2>5. ASSUME NEW k \in Jobs \ {j} PROVE Same(k)
        <3>1. record'[k] = record[k] /\ cancelling'[k] = cancelling[k] BY <1>0, <1>10 DEF Cancel
        <3> QED BY <2>1, <3>1 DEF Same
    <2> QED BY <1>0, <2>1, <2>4, <2>5, OneJobMoves
<1>11. ASSUME NEW j \in Jobs, CancelConfirmed(j) PROVE Goal
    <2>1. /\ Idle /\ deadline' = Disarmed(j) /\ cancelling[j] /\ Settle(j, FALSE, FALSE)
          /\ finished' = [finished EXCEPT ![j] = TRUE]
          /\ cancelling' = [cancelling EXCEPT ![j] = FALSE] /\ UNCHANGED <<asked, starting, session, phase>>
        BY <1>11 DEF CancelConfirmed
    <2>2. record[j] # "none" /\ Follows(j) /\ j \in asked BY <1>0, <2>1 DEF Job, Untouched
    <2>3. /\ record'[j] \in Terminal /\ j \notin active' /\ (j \in lease' => j \in retained')
          /\ isolated' = isolated /\ lease' \subseteq lease
          /\ \A k \in Jobs \ {j} :
                /\ record'[k] = record[k] /\ (k \in lease' <=> k \in lease)
                /\ (k \in active' <=> k \in active) /\ (k \in retained => k \in retained')
        BY <1>0, <2>1, <2>2, Settled
    <2>4. starting # j /\ starting' = starting /\ Forgotten(j)' BY <2>1 DEF Idle, Forgotten
    <2>5. Job(j)' BY <2>1, <2>2, <2>3, <2>4, EndedJob
    <2>6. ASSUME NEW k \in Jobs \ {j} PROVE Same(k)
        <3>1. deadline'[k] = deadline[k] /\ finished'[k] = finished[k] /\ cancelling'[k] = cancelling[k]
            BY <1>0, <2>1 DEF Disarmed
        <3> QED BY <2>1, <2>3, <3>1 DEF Same
    <2> QED BY <1>0, <2>3, <2>5, <2>6, OneJobMoves
<1>12. ASSUME NEW j \in Jobs, CancelRejected(j) PROVE Goal
    <2>1. /\ Idle /\ cancelling' = [cancelling EXCEPT ![j] = FALSE]
          /\ UNCHANGED <<isolated, record, asked, starting, lease, active, session, deadline, finished, phase, retained>>
        BY <1>12 DEF CancelRejected, job
    <2>2. Job(j) BY <1>0
    <2>3. ~cancelling'[j] BY <1>0, <2>1
    <2>4. Job(j)' BY <2>1, <2>2, <2>3 DEF Job, Untouched, Beginning, Follows, Forgotten
    <2>5. ASSUME NEW k \in Jobs \ {j} PROVE Same(k)
        <3>1. cancelling'[k] = cancelling[k] BY <1>0, <2>1
        <3> QED BY <2>1, <3>1 DEF Same
    <2> QED BY <1>0, <2>1, <2>4, <2>5, OneJobMoves
<1>13. ASSUME NEW j \in Jobs, RetryFires(j) PROVE Goal
    BY <1>0, <1>13, QuietKeepsJobs DEF RetryFires, job, runner
<1>14. ASSUME NEW j \in Jobs, NEW n \in Slots, Sent(j, n) PROVE Goal
    BY <1>0, <1>14, QuietKeepsJobs DEF Sent, job, runner
<1>15. ASSUME Crash PROVE Goal
    <2>1. /\ phase' = "down" /\ starting' = NoJob /\ active' = {} /\ lease' = lease \cap isolated
          /\ UNCHANGED <<isolated, record, asked, retained>>
          /\ \A k \in Jobs : session'[k] = "none" /\ deadline'[k] = "off" /\ ~finished'[k] /\ ~cancelling'[k]
        BY <1>15 DEF Crash
    <2>2. ASSUME NEW k \in Jobs PROVE Job(k)'
        <3>1. Job(k) BY <1>0
        <3> QED BY <2>1, <3>1 DEF Job, Untouched, Beginning, Follows, Forgotten
    <2>3. OneCourseLease' BY <1>0, <2>1 DEF OneCourseLease, Course
    <2> QED BY <2>2, <2>3
<1>16. ASSUME Boot PROVE Goal
    <2>1. /\ phase = "down" /\ phase' = "up" /\ \A k \in Jobs : record[k] \notin Live
          /\ UNCHANGED <<isolated, record, asked, starting, lease, active, session, deadline, finished, cancelling, retained>>
        BY <1>16 DEF Boot, job, runner
    <2>2. ASSUME NEW k \in Jobs PROVE Job(k)'
        <3>1. Job(k) /\ starting # k BY <1>0, <2>1 DEF Job, Forgotten
        <3> QED BY <2>1, <3>1 DEF Job, Untouched, Beginning, Follows, Forgotten, Live
    <2>3. OneCourseLease' BY <1>0, <2>1 DEF OneCourseLease, Course
    <2> QED BY <2>2, <2>3
<1>17. ASSUME Touch PROVE Goal
    BY <1>0, <1>17, QuietKeepsJobs DEF Touch, runner
<1>18. CASE UNCHANGED vars
    BY <1>0, <1>18, QuietKeepsJobs DEF vars
<1> QED
    BY <1>1, <1>2, <1>3, <1>4, <1>5, <1>6, <1>7, <1>8, <1>9, <1>10, <1>11, <1>12, <1>13, <1>14,
       <1>15, <1>16, <1>17, <1>18 DEF Next

-----------------------------------------------------------------------------
(* Theorems *)

\* The invariant holds at the start, ...
LEMMA InitIInv == Init => IInv
<1> SUFFICES ASSUME Init PROVE IInv OBVIOUS
<1> USE JobAssumption, BoundAssumption
<1>1. <<>> \in Seq(CourseState) OBVIOUS
<1>2. 0 \in Slots BY DEF Slots
<1>3. [n \in Slots |-> <<>>] \in [Slots -> Seq(CourseState)] BY <1>1
<1>4. chains \in [Jobs -> [Slots -> Seq(CourseState)]] BY <1>3 DEF Init
<1>5. JobTypes BY <1>1, <1>4 DEF Init, JobTypes, JobState
<1>6. RunnerTypes BY DEF Init, RunnerTypes
<1>7. StatusTypes BY <1>1, <1>2 DEF Init, StatusTypes
<1>8. OtherTypes BY DEF Init, OtherTypes
<1>9. TypeOK BY <1>5, <1>6, <1>7, <1>8, TypeParts
<1>10. Retries BY DEF Init, Retries
<1>11. ASSUME NEW k \in Jobs PROVE Job(k)
    BY DEF Init, Job, Untouched, Beginning, Follows, Forgotten, Live, Terminal
<1>12. OneCourseLease BY DEF Init, OneCourseLease
<1> QED BY <1>9, <1>10, <1>11, <1>12 DEF IInv

\* ... every step keeps it, ...
LEMMA NextIInv == IInv /\ [Next]_vars => IInv'
<1> SUFFICES ASSUME IInv, [Next]_vars PROVE IInv' OBVIOUS
<1>1. TypeOK' /\ Retries' BY NextType DEF IInv
<1>2. (\A k \in Jobs : Job(k))' /\ OneCourseLease' BY <1>1, NextJobs
<1> QED BY <1>1, <1>2 DEF IInv

\* ... and it says that leases follow jobs.
LEMMA IInvFollows == IInv => LeasesFollowJobs
<1> SUFFICES ASSUME IInv PROVE LeasesFollowJobs OBVIOUS
<1>1. TypeOK /\ (\A j \in Jobs : Follows(j)) /\ OneCourseLease BY DEF IInv, Job
<1> QED BY <1>1 DEF LeasesFollowJobs, Follows, OneCourseLease

\* While the process is up every live job has its lease, its controller and its
\* clock; an ended one has no controller, and a lease only if its session may
\* still run; the selected workspace has one lease.  However many jobs there are.
THEOREM LeasesAlwaysFollowJobs == Spec => []LeasesFollowJobs
BY InitIInv, NextIInv, IInvFollows, PTL DEF Spec

\* What a step may make of a record that has ended, or is being cancelled.
Stands(k) ==
    /\ record[k] \in Terminal => record'[k] = record[k]
    /\ record[k] = "cancelling" => record'[k] \in {"cancelling", "cancelled", "failed"}
    /\ record[k] = "none" /\ k \in asked => record'[k] = "none"

\* What has ended stands, and a cancellation is not overtaken.
LEMMA StepStands == ASSUME IInv, [Next]_vars PROVE \A k \in Jobs : Stands(k)
<1> DEFINE Goal == \A k \in Jobs : Stands(k)
<1>0. TypeOK /\ (\A k \in Jobs : Job(k)) /\ record \in [Jobs -> JobState] BY DEF IInv, TypeOK
<1>1. ASSUME UNCHANGED record PROVE Goal BY <1>1 DEF Stands
<1>2. ASSUME NEW j \in Jobs, NEW s \in {"queued", "running", "failed", "cancelling"},
             record' = [record EXCEPT ![j] = s], record[j] \notin Terminal,
             record[j] = "cancelling" => s \in {"failed", "cancelling"},
             record[j] = "none" => j \notin asked
      PROVE Goal
    <2>1. ASSUME NEW k \in Jobs PROVE Stands(k)
        <3>1. CASE k = j
            <4>1. record'[k] = s BY <1>0, <1>2, <3>1
            <4> QED BY <1>2, <3>1, <4>1 DEF Stands
        <3>2. CASE k # j
            <4>1. record'[k] = record[k] BY <1>0, <1>2, <3>2
            <4> QED BY <4>1 DEF Stands
        <3> QED BY <3>1, <3>2
    <2> QED BY <2>1
<1>3. ASSUME NEW j \in Jobs, Start(j) PROVE Goal
    <2>1. record[j] = "none" /\ j \notin asked /\ record' = [record EXCEPT ![j] = "queued"]
        BY <1>0, <1>3 DEF Start, Job
    <2> QED BY <1>2, <2>1 DEF Terminal
<1>4. ASSUME NEW j \in Jobs, SaveRunning(j) PROVE Goal
    <2>1. record[j] = "queued" /\ record' = [record EXCEPT ![j] = "running"] BY <1>4 DEF SaveRunning
    <2> QED BY <1>2, <2>1 DEF Terminal
<1>5. ASSUME NEW j \in Jobs, RunnerThrows(j) PROVE Goal
    <2>1. record[j] = "running" /\ record' = [record EXCEPT ![j] = "failed"] BY <1>5 DEF RunnerThrows
    <2> QED BY <1>2, <2>1 DEF Terminal
<1>6. ASSUME NEW j \in Jobs, NEW ok \in BOOLEAN, NEW keep \in BOOLEAN, Finish(j, ok, keep), Idle,
             record[j] # "none"
      PROVE Goal
    <2>1. /\ Stands(j) /\ \A k \in Jobs \ {j} : record'[k] = record[k]
        BY <1>0, <1>6, FinishedJob DEF Stands
    <2> QED BY <2>1 DEF Stands
<1>7. ASSUME NEW j \in Jobs, SessionEnds(j) PROVE Goal
    <2>1. record[j] # "none" /\ Idle BY <1>0, <1>7 DEF SessionEnds, Job, Untouched
    <2>2. PICK ok \in BOOLEAN : Finish(j, ok, FALSE) BY <1>7 DEF SessionEnds
    <2> QED BY <1>6, <2>1, <2>2
<1>8. ASSUME NEW j \in Jobs, DeadlineSettles(j) PROVE Goal
    <2>1. record[j] # "none" /\ Idle BY <1>0, <1>8 DEF DeadlineSettles, Job, Untouched
    <2>2. PICK confirmed \in BOOLEAN : Finish(j, FALSE, ~confirmed) BY <1>8 DEF DeadlineSettles
    <2> QED BY <1>6, <2>1, <2>2
<1>9. ASSUME NEW j \in Jobs, Recover(j) PROVE Goal
    <2>1. record[j] \in Live /\ record' = [record EXCEPT ![j] = "failed"] BY <1>9 DEF Recover
    <2> QED BY <1>2, <2>1 DEF Terminal, Live
<1>10. ASSUME NEW j \in Jobs, Cancel(j) PROVE Goal
    <2>1. record[j] \in Live /\ record' = [record EXCEPT ![j] = "cancelling"] BY <1>10 DEF Cancel
    <2> QED BY <1>2, <2>1 DEF Terminal, Live
<1>11. ASSUME NEW j \in Jobs, CancelConfirmed(j) PROVE Goal
    <2>1. record[j] # "none" /\ Follows(j) BY <1>0, <1>11 DEF CancelConfirmed, Job, Untouched
    <2>2. Settle(j, FALSE, FALSE) BY <1>11 DEF CancelConfirmed
    <2>3. Stands(j) /\ \A k \in Jobs \ {j} : record'[k] = record[k]
        BY <1>0, <2>1, <2>2, Settled DEF Stands
    <2> QED BY <2>3 DEF Stands
<1>12. ASSUME NEW j \in Jobs,
              \/ Refuse(j) \/ RunnerStarts(j) \/ Deadline(j) \/ CancelRejected(j) \/ RetryFires(j)
              \/ \E n \in Slots : Sent(j, n)
       PROVE Goal
    BY <1>1, <1>12 DEF Refuse, RunnerStarts, Deadline, CancelRejected, RetryFires, Sent, job
<1>13. ASSUME Crash \/ Boot \/ Touch \/ UNCHANGED vars PROVE Goal
    BY <1>1, <1>13 DEF Crash, Boot, Touch, vars, job
<1> QED
    BY <1>3, <1>4, <1>5, <1>7, <1>8, <1>9, <1>10, <1>11, <1>12, <1>13 DEF Next

\* A job ends once, and a cancelled one never completed, whatever races with the
\* cancellation, for any number of jobs, crashes and failures.
THEOREM JobsEndOnce == Spec => JobEndsOnce
<1>1. IInv /\ [Next]_vars =>
        [\A j \in Jobs :
            /\ record[j] \in Terminal => record'[j] = record[j]
            /\ record[j] = "cancelling" => record'[j] \in {"cancelling", "cancelled", "failed"}]_vars
    BY StepStands DEF Stands
<1> QED BY <1>1, InitIInv, NextIInv, PTL DEF Spec, JobEndsOnce

-----------------------------------------------------------------------------
(* What the channel is told *)

\* A message about a course job is true of its record.
Holds(j, v) ==
    /\ v = "completed" => record[j] = "completed"
    /\ v = "failed" => record[j] \in {"failed", "cancelled"} \/ (record[j] = "none" /\ j \in asked)

\* What the service has reported of a job, by the state of its record
Account(j) ==
    CASE record[j] = "none" -> reported[j] = <<>>
      [] record[j] = "queued" -> reported[j] = <<"received">>
      [] record[j] \in {"running", "cancelling"} -> reported[j] = <<"received", "running">>
      [] OTHER -> reported[j] \in {<<"received">>, <<"received", "running">>,
                                  <<"received", "running", LifecycleOf(record[j])>>}

Honest(j) ==
    /\ \A v \in Told(j) : Holds(j, v)
    /\ record[j] = "completed" => applied[j] = "verified"
    /\ Account(j)

HInv == \A j \in Course : Honest(j)

Chained(j) == UNION {Range(chains[j][n]) : n \in Slots}

\* The parts of what is told of a job, in a state and in the next one.
LEMMA ToldParts ==
    ASSUME NEW j
    PROVE /\ Told(j) = Chained(j) \cup Range(shown[j]) \cup reconciliation[j] \cup {pending[j]}
          /\ Told(j)' = Chained(j)' \cup Range(shown'[j]) \cup reconciliation'[j] \cup {pending'[j]}
BY DEF Told, Chained

\* Lists of states, written out.
LEMMA AppendOne ==
    ASSUME NEW a, NEW b PROVE Append(<<a>>, b) = <<a, b>>
<1> DEFINE S == {a, b}
<1>1. <<a>> \in Seq(S) /\ Len(<<a>>) = 1 /\ <<a>>[1] = a OBVIOUS
<1>2. <<a, b>> \in Seq(S) /\ Len(<<a, b>>) = 2 /\ <<a, b>>[1] = a /\ <<a, b>>[2] = b OBVIOUS
<1> DEFINE u == <<a>>
           w == <<a, b>>
           v == Append(u, b)
<1> HIDE DEF u, w
<1>3. v \in Seq(S) /\ Len(v) = 2 /\ v[1] = a /\ v[2] = b BY <1>1, AppendProperties DEF u
<1> HIDE DEF v
<1>4. \A i \in 1 .. Len(v) : v[i] = w[i] BY <1>2, <1>3 DEF w
<1>5. v = w BY <1>2, <1>3, <1>4, SeqEqual DEF w
<1> QED BY <1>5 DEF u, v, w

\* The same for a list of three.
LEMMA AppendTwo ==
    ASSUME NEW a, NEW b, NEW c PROVE Append(<<a, b>>, c) = <<a, b, c>>
<1> DEFINE S == {a, b, c}
<1>1. <<a, b>> \in Seq(S) /\ Len(<<a, b>>) = 2 /\ <<a, b>>[1] = a /\ <<a, b>>[2] = b OBVIOUS
<1>2. /\ <<a, b, c>> \in Seq(S) /\ Len(<<a, b, c>>) = 3
      /\ <<a, b, c>>[1] = a /\ <<a, b, c>>[2] = b /\ <<a, b, c>>[3] = c
    OBVIOUS
<1> DEFINE u == <<a, b>>
           w == <<a, b, c>>
           v == Append(u, c)
<1> HIDE DEF u, w
<1>3. v \in Seq(S) /\ Len(v) = 3 /\ v[1] = a /\ v[2] = b /\ v[3] = c BY <1>1, AppendProperties DEF u
<1> HIDE DEF v
<1>4. \A i \in 1 .. Len(v) : v[i] = w[i] BY <1>2, <1>3 DEF w
<1>5. v = w BY <1>2, <1>3, <1>4, SeqEqual DEF w
<1> QED BY <1>5 DEF u, v, w

\* Appending adds one element.
LEMMA RangeAppend ==
    ASSUME NEW S, NEW q \in Seq(S), NEW x \in S PROVE Range(Append(q, x)) \subseteq Range(q) \cup {x}
BY DEF Range

\* The head and the tail of a queue are of the queue.
LEMMA RangeTail ==
    ASSUME NEW S, NEW q \in Seq(S), q # <<>>
    PROVE Range(Tail(q)) \subseteq Range(q) /\ Head(q) \in Range(q)
<1>1. Len(q) \in Nat /\ Len(q) > 0 OBVIOUS
<1>2. Head(q) = q[1] /\ 1 \in DOMAIN q BY <1>1
<1>3. ASSUME NEW i \in DOMAIN Tail(q) PROVE Tail(q)[i] = q[i + 1] /\ i + 1 \in DOMAIN q BY <1>1
<1> QED BY <1>2, <1>3 DEF Range

\* One chain of one job changes.
LEMMA ChainTold ==
    ASSUME TypeOK, NEW j \in Jobs, NEW n \in Slots, NEW q, NEW x,
           chains' = [chains EXCEPT ![j] = [chains[j] EXCEPT ![n] = q]],
           Range(q) \subseteq Range(chains[j][n]) \cup {x}
    PROVE /\ Chained(j)' \subseteq Chained(j) \cup {x}
          /\ \A k \in Jobs \ {j} : chains'[k] = chains[k]
<1>1. chains \in [Jobs -> [Slots -> Seq(CourseState)]] /\ chains[j] \in [Slots -> Seq(CourseState)]
    BY DEF TypeOK
<1>2. chains'[j] = [chains[j] EXCEPT ![n] = q] BY <1>1
<1>3. ASSUME NEW m \in Slots PROVE Range(chains'[j][m]) \subseteq Range(chains[j][m]) \cup {x}
    <2>1. CASE m = n
        <3>1. chains'[j][m] = q BY <1>1, <1>2, <2>1
        <3> QED BY <2>1, <3>1
    <2>2. CASE m # n
        <3>1. chains'[j][m] = chains[j][m] BY <1>1, <1>2, <2>2
        <3> QED BY <3>1
    <2> QED BY <2>1, <2>2
<1>4. ASSUME NEW v \in Chained(j)' PROVE v \in Chained(j) \cup {x}
    <2>1. PICK m \in Slots : v \in Range(chains'[j][m]) BY DEF Chained, Slots
    <2>2. v \in Range(chains[j][m]) \cup {x} BY <1>3, <2>1
    <2> QED BY <2>2 DEF Chained
<1>5. \A k \in Jobs \ {j} : chains'[k] = chains[k] BY <1>1
<1> QED BY <1>4, <1>5

\* What is enqueued is all that is new.
LEMMA EnqueuedTold ==
    ASSUME TypeOK, NEW j \in Jobs, NEW s \in CourseState, chains' = Enqueued(j, s)
    PROVE /\ Chained(j)' \subseteq Chained(j) \cup {s}
          /\ \A k \in Jobs \ {j} : chains'[k] = chains[k]
<1> DEFINE n == tail[j]
           q == Append(chains[j][n], s)
<1>1. n \in Slots /\ chains[j][n] \in Seq(CourseState) BY DEF TypeOK
<1>2. Range(q) \subseteq Range(chains[j][n]) \cup {s} BY <1>1, RangeAppend
<1>3. chains' = [chains EXCEPT ![j] = [chains[j] EXCEPT ![n] = q]] BY DEF Enqueued
<1> HIDE DEF n, q
<1> QED BY <1>1, <1>2, <1>3, ChainTold

\* A report is about one job, and tells its state.
LEMMA ReportsTold ==
    ASSUME TypeOK, NEW j \in Jobs, NEW s \in JobState, Reports(j, s)
    PROVE /\ \A k \in Jobs \ {j} : chains'[k] = chains[k] /\ reported'[k] = reported[k]
          /\ j \notin isolated => /\ Chained(j)' \subseteq Chained(j) \cup {LifecycleOf(s)}
                                /\ reported'[j] = Append(reported[j], LifecycleOf(s))
<1>1. CASE j \in isolated BY <1>1 DEF Reports
<1>2. CASE j \notin isolated
    <2>1. chains' = Enqueued(j, LifecycleOf(s)) /\ LifecycleOf(s) \in CourseState
        BY <1>2, LifecycleType DEF Reports
    <2>2. reported' = [reported EXCEPT ![j] = Append(reported[j], LifecycleOf(s))]
        BY <1>2 DEF Reports
    <2>3. \A k \in Jobs : reported'[k] = IF k = j THEN Append(reported[j], LifecycleOf(s)) ELSE reported[k]
        BY <2>2 DEF TypeOK
    <2> HIDE DEF Reports
    <2>4. /\ Chained(j)' \subseteq Chained(j) \cup {LifecycleOf(s)}
          /\ \A k \in Jobs \ {j} : chains'[k] = chains[k]
        BY <2>1, EnqueuedTold
    <2> QED BY <2>3, <2>4
<1> QED BY <1>1, <1>2

\* What the invariant says of a course job's messages is as it was.
Unheard(k) ==
    /\ record'[k] = record[k] /\ applied'[k] = applied[k] /\ reported'[k] = reported[k]
    /\ chains'[k] = chains[k] /\ shown'[k] = shown[k] /\ pending'[k] = pending[k]
    /\ reconciliation'[k] = reconciliation[k] /\ asked \subseteq asked'

\* A job nothing is told of stays honest.
LEMMA UnheardHonest == ASSUME NEW k \in Jobs, Honest(k), Unheard(k) PROVE Honest(k)'
<1>1. Told(k)' = Told(k) BY DEF Told, Unheard
<1>2. \A v \in Told(k) : Holds(k, v)' BY DEF Holds, Honest, Unheard
<1>3. Account(k)' BY DEF Account, Honest, Unheard
<1> QED BY <1>1, <1>2, <1>3 DEF Honest, Unheard

\* A job that hears one more thing, which is true, stays honest.
LEMMA HeardHonest ==
    ASSUME NEW j \in Jobs, Honest(j), Stands(j), asked \subseteq asked',
           NEW x, Told(j)' \subseteq Told(j) \cup {x}, Holds(j, x)',
           record'[j] = "completed" => applied'[j] = "verified", Account(j)'
    PROVE Honest(j)'
<1>1. ASSUME NEW v \in Told(j) PROVE Holds(j, v)'
    <2>1. Holds(j, v) BY DEF Honest
    <2> QED BY <2>1 DEF Holds, Stands, Terminal
<1>2. ASSUME NEW v \in Told(j)' PROVE Holds(j, v)'
    <2>1. v \in Told(j) \/ v = x BY <1>2
    <2> QED BY <1>1, <2>1
<1> QED BY <1>2 DEF Honest

\* What a report makes of honesty: the other jobs are not told of, and its own job
\* is told the truth.
LEMMA ReportHonest ==
    ASSUME TypeOK, NEW j \in Jobs, NEW s \in {"queued", "running"} \cup Terminal, Reports(j, s),
           \A k \in Jobs : Stands(k), HInv, asked \subseteq asked', isolated' = isolated,
           UNCHANGED <<pending, reconciliation, shown>>,
           record'[j] = s, \A k \in Jobs \ {j} : record'[k] = record[k] /\ applied'[k] = applied[k],
           j \in Course => /\ s = "completed" => applied'[j] = "verified"
                          /\ \/ s = "queued" /\ reported[j] = <<>>
                             \/ s = "running" /\ reported[j] = <<"received">>
                             \/ s \in Terminal /\ reported[j] = <<"received", "running">>
    PROVE HInv'
<1>0. s \in JobState /\ Course' = Course BY DEF JobState, Live, Course
<1>1. /\ \A k \in Jobs \ {j} : chains'[k] = chains[k] /\ reported'[k] = reported[k]
      /\ j \notin isolated => /\ Chained(j)' \subseteq Chained(j) \cup {LifecycleOf(s)}
                            /\ reported'[j] = Append(reported[j], LifecycleOf(s))
    BY <1>0, ReportsTold
<1>2. ASSUME NEW k \in Course, k # j PROVE Honest(k)'
    <2>1. k \in Jobs \ {j} BY <1>2 DEF Course
    <2>2. Unheard(k) BY <1>1, <2>1 DEF Unheard
    <2> QED BY <2>1, <2>2, UnheardHonest DEF HInv
<1>3. ASSUME j \in Course PROVE Honest(j)'
    <2> DEFINE x == LifecycleOf(s)
    <2>1. j \notin isolated BY <1>3 DEF Course
    <2>2. Told(j)' \subseteq Told(j) \cup {x} BY <1>1, <2>1, ToldParts
    <2>3. Holds(j, x)' BY DEF Holds, LifecycleOf, Terminal
    <2>4. reported'[j] = Append(reported[j], x) BY <1>1, <2>1
    <2>5. Account(j)'
        <3>1. CASE s = "queued"
            <4>1. x = "received" /\ reported[j] = <<>> BY <1>3, <3>1 DEF LifecycleOf, Terminal
            <4>2. reported'[j] = <<"received">> BY <2>4, <4>1
            <4> QED BY <3>1, <4>2 DEF Account
        <3>2. CASE s = "running"
            <4>1. x = "running" /\ reported[j] = <<"received">> BY <1>3, <3>2 DEF LifecycleOf, Terminal
            <4>2. reported'[j] = Append(<<"received">>, "running") BY <2>4, <4>1
            <4>3. reported'[j] = <<"received", "running">> BY <4>2, AppendOne
            <4> QED BY <3>2, <4>3 DEF Account
        <3>3. CASE s \in Terminal
            <4>1. reported[j] = <<"received", "running">> BY <1>3, <3>3 DEF Terminal
            <4> HIDE DEF x
            <4>5. reported'[j] = Append(<<"received", "running">>, x) BY <2>4, <4>1
            <4>2. reported'[j] = <<"received", "running", x>> BY <4>5, AppendTwo
            <4> USE DEF x
            <4>3. reported'[j] = <<"received", "running", LifecycleOf(record'[j])>> BY <4>2
            <4>4. record'[j] \notin {"none", "queued", "running", "cancelling"} BY <3>3 DEF Terminal
            <4> HIDE DEF x
            <4> QED BY <4>3, <4>4 DEF Account
        <3> QED BY <3>1, <3>2, <3>3
    <2>6. record'[j] = "completed" => applied'[j] = "verified" BY <1>3
    <2>7. Honest(j) /\ Stands(j) BY <1>3 DEF HInv
    <2> HIDE DEF x
    <2> QED BY <2>2, <2>3, <2>5, <2>6, <2>7, HeardHonest
<1> QED BY <1>0, <1>2, <1>3 DEF HInv

\* Settling a job that runs tells how it ended, and completes a course job only
\* with a verified proposal.
LEMMA SettleHonest ==
    ASSUME IInv, NEW j \in Jobs, NEW ok \in BOOLEAN, NEW keep \in BOOLEAN, Settle(j, ok, keep),
           Idle, record[j] # "none", HInv, \A k \in Jobs : Stands(k), asked' = asked,
           UNCHANGED <<pending, reconciliation, shown>>
    PROVE HInv'
<1>0. TypeOK /\ Job(j) /\ record \in [Jobs -> JobState] /\ applied \in [Jobs -> {"no", "written", "verified"}]
    BY DEF IInv, TypeOK
<1>1. CASE record[j] \in Terminal
    <2>1. UNCHANGED <<isolated, record, applied, chains, reported>> BY <1>1 DEF Settle, job
    <2>2. ASSUME NEW k \in Course PROVE Honest(k)'
        <3>1. k \in Jobs BY DEF Course
        <3>2. Unheard(k) BY <2>1 DEF Unheard
        <3> QED BY <3>1, <3>2, UnheardHonest DEF HInv
    <2>3. Course' = Course BY <2>1 DEF Course
    <2> QED BY <2>2, <2>3 DEF HInv
<1>2. CASE record[j] \notin Terminal
    <2>1. PICK o \in Outcomes(j, ok) :
            /\ record' = [record EXCEPT ![j] = Ending(record[j], o.ok)] /\ isolated' = isolated
            /\ applied' = [applied EXCEPT ![j] = o.applied]
            /\ Reports(j, record'[j])
        BY <1>2 DEF Settle
    <2>2. record[j] \in {"running", "cancelling"}
        <3>1. starting # j BY JobAssumption DEF Idle
        <3>2. record[j] # "queued" BY <1>0, <3>1 DEF Job, Beginning, Idle
        <3>3. record[j] \in JobState BY <1>0
        <3> QED BY <1>2, <3>2, <3>3 DEF JobState, Live
    <2>3. record'[j] = Ending(record[j], o.ok) /\ applied'[j] = o.applied BY <1>0, <2>1
    <2>4. record'[j] \in Terminal BY <2>3 DEF Ending, Terminal
    <2>5. \A k \in Jobs \ {j} : record'[k] = record[k] /\ applied'[k] = applied[k] BY <1>0, <2>1
    <2>6. ASSUME j \in Course, record'[j] = "completed" PROVE applied'[j] = "verified"
        <3>1. o.ok BY <2>3, <2>6 DEF Ending
        <3>2. CASE ~ok
            <4>1. o = [ok |-> ok, applied |-> "no"] BY <2>1, <3>2 DEF Outcomes
            <4> QED BY <3>1, <3>2, <4>1
        <3>3. CASE ok
          <4>1. o \in ApplyOutcomes(j) BY <2>1, <2>6, <3>3 DEF Outcomes
          <4>2. o \in Verdicts BY <3>1, <4>1 DEF ApplyOutcomes
          <4>3. o.applied = "verified" BY <3>1, <4>2 DEF Verdicts
          <4> QED BY <2>3, <4>3
        <3> QED BY <3>2, <3>3
    <2>7. j \in Course => reported[j] = <<"received", "running">>
        <3>1. ASSUME j \in Course PROVE Account(j) BY <3>1 DEF HInv, Honest
        <3> QED BY <2>2, <3>1 DEF Account
    <2> QED BY <1>0, <2>1, <2>4, <2>5, <2>6, <2>7, ReportHonest
<1> QED BY <1>1, <1>2

\* Nothing new is told of a job; its record stays, is cancelled or is recovered.
Hush(k) == Told(k)' \subseteq Told(k) \cup {"none"}
Drift(k) ==
    \/ record'[k] = record[k]
    \/ record[k] = "running" /\ record'[k] = "cancelling"
    \/ record[k] \in Live /\ record'[k] = "failed"

\* A step that changes nothing of what is told tells nothing.
LEMMA UntoldHush ==
    ASSUME NEW k, UNCHANGED <<chains, pending, reconciliation, shown>>
    PROVE Hush(k)
<1>1. Chained(k)' = Chained(k) BY DEF Chained, Slots
<1> QED BY <1>1, ToldParts DEF Hush

\* A step that tells nothing and completes nothing.
LEMMA SilentHonest ==
    ASSUME TypeOK, HInv, \A k \in Jobs : Stands(k), asked \subseteq asked',
           UNCHANGED <<isolated, applied, reported>>,
           \A k \in Course : Hush(k), \A k \in Course : Drift(k)
    PROVE HInv'
<1>1. ASSUME NEW k \in Course PROVE Honest(k)'
    <2>0. k \in Jobs BY DEF Course
    <2>1. Honest(k) /\ Account(k) BY DEF HInv, Honest
    <2>2. Account(k)'
        <3>0. Drift(k) /\ Hush(k) OBVIOUS
        <3>1. CASE record'[k] = record[k] BY <2>1, <3>1 DEF Account
        <3>2. CASE record[k] = "running" /\ record'[k] = "cancelling" BY <2>1, <3>2 DEF Account
        <3>3. CASE record[k] \in Live /\ record'[k] = "failed"
            <4>1. reported[k] \in {<<"received">>, <<"received", "running">>}
                BY <2>1, <3>3 DEF Account, Live
            <4> QED BY <3>3, <4>1 DEF Account
        <3> QED BY <3>0, <3>1, <3>2, <3>3 DEF Drift
    <2>3. Holds(k, "none")' BY DEF Holds
    <2>4. record'[k] = "completed" => applied'[k] = "verified" BY <2>1 DEF Honest, Drift
    <2>5. Told(k)' \subseteq Told(k) \cup {"none"} BY DEF Hush
    <2>6. Stands(k) BY <2>0
    <2> QED BY <2>0, <2>1, <2>2, <2>3, <2>4, <2>5, <2>6, HeardHonest
<1>2. Course' = Course BY DEF Course
<1> QED BY <1>1, <1>2 DEF HInv

\* A step after which one course job has heard one more thing, and nothing else
\* that honesty is about has changed.
LEMMA HearsHonest ==
    ASSUME TypeOK, HInv, NEW j \in Jobs, \A k \in Jobs : Stands(k), asked \subseteq asked',
           UNCHANGED <<isolated, record, applied, reported>>,
           \A k \in Jobs \ {j} : /\ chains'[k] = chains[k] /\ shown'[k] = shown[k]
                                /\ pending'[k] = pending[k] /\ reconciliation'[k] = reconciliation[k],
           NEW x, Told(j)' \subseteq Told(j) \cup {x}, Holds(j, x)'
    PROVE HInv'
<1>1. ASSUME NEW k \in Course PROVE Honest(k)'
    <2>0. k \in Jobs /\ Honest(k) BY DEF Course, HInv
    <2>1. CASE k # j
        <3>1. Unheard(k) BY <2>0, <2>1 DEF Unheard
        <3> QED BY <2>0, <3>1, UnheardHonest
    <2>2. CASE k = j
        <3>1. Account(j)' BY <2>0, <2>2 DEF Honest, Account
        <3>2. record'[j] = "completed" => applied'[j] = "verified" BY <2>0, <2>2 DEF Honest
        <3> QED BY <2>0, <2>2, <3>1, <3>2, HeardHonest
    <2> QED BY <2>1, <2>2
<1>2. Course' = Course BY DEF Course
<1> QED BY <1>1, <1>2 DEF HInv

\* A message that is sent moves from its chain to the channel, to the retry or to
\* what is left to reconcile.
LEMMA SentTold ==
    ASSUME TypeOK, NEW j \in Jobs, NEW n \in Slots, Sent(j, n)
    PROVE /\ Told(j)' \subseteq Told(j) \cup {"none"}
          /\ \A k \in Jobs \ {j} : /\ chains'[k] = chains[k] /\ shown'[k] = shown[k]
                                 /\ pending'[k] = pending[k] /\ reconciliation'[k] = reconciliation[k]
<1> DEFINE q == chains[j][n]
           x == Head(q)
<1>1. q \in Seq(CourseState) /\ q # <<>> BY DEF TypeOK, Sent
<1>2. Range(Tail(q)) \subseteq Range(q) /\ x \in Range(q) /\ x \in CourseState BY <1>1, RangeTail
<1>3. chains' = [chains EXCEPT ![j] = [chains[j] EXCEPT ![n] = Tail(q)]] BY DEF Sent
<1>4. x \in Chained(j) BY <1>2 DEF Chained
<1>5. /\ Chained(j)' \subseteq Chained(j) \cup {x}
      /\ \A k \in Jobs \ {j} : chains'[k] = chains[k]
    <2> DEFINE r == Tail(q)
    <2>1. Range(r) \subseteq Range(chains[j][n]) \cup {x} BY <1>2
    <2>2. chains' = [chains EXCEPT ![j] = [chains[j] EXCEPT ![n] = r]] BY <1>3
    <2> HIDE DEF r, x
    <2> QED BY <2>1, <2>2, ChainTold
<1>6. Chained(j)' \subseteq Chained(j) BY <1>4, <1>5
<1>7. /\ pending \in [Jobs -> CourseState \cup {"none"}] /\ shown \in [Jobs -> Seq(CourseState)]
      /\ reconciliation \in [Jobs -> SUBSET CourseState]
    BY DEF TypeOK
<1>8. \/ /\ pending' = [pending EXCEPT ![j] = "none"]
         /\ reconciliation' = [reconciliation EXCEPT ![j] = @ \ {x}]
         /\ shown' = [shown EXCEPT ![j] = IF Contains(@, x) THEN @ ELSE Append(@, x)]
      \/ /\ shown' = shown /\ pending' = [pending EXCEPT ![j] = "none"]
         /\ reconciliation' = [reconciliation EXCEPT ![j] = @ \cup {x}]
      \/ shown' = shown /\ pending' = [pending EXCEPT ![j] = x] /\ reconciliation' = reconciliation
    BY DEF Sent
<1> HIDE DEF q, x
<1>9. pending'[j] \in {"none", x} BY <1>7, <1>8
<1>10. reconciliation'[j] \subseteq reconciliation[j] \cup {x} BY <1>7, <1>8
<1>11. Range(shown'[j]) \subseteq Range(shown[j]) \cup {x}
    <2>1. shown'[j] = shown[j] \/ shown'[j] = Append(shown[j], x) BY <1>7, <1>8
    <2>2. shown[j] \in Seq(CourseState) BY <1>7
    <2>3. Range(Append(shown[j], x)) \subseteq Range(shown[j]) \cup {x} BY <1>2, <2>2, RangeAppend
    <2> QED BY <2>1, <2>3
<1>12. Told(j)' \subseteq Told(j) \cup {"none"}
    BY <1>4, <1>6, <1>9, <1>10, <1>11, ToldParts
<1>13. \A k \in Jobs \ {j} : /\ shown'[k] = shown[k] /\ pending'[k] = pending[k]
                             /\ reconciliation'[k] = reconciliation[k]
    BY <1>7, <1>8
<1> QED BY <1>5, <1>12, <1>13

\* restore() sends the state of each record again.
LEMMA BootHonest ==
    ASSUME TypeOK, HInv, \A k \in Jobs : Stands(k), Boot PROVE HInv'
<1>1. /\ UNCHANGED <<isolated, record, applied, reported, asked, pending, reconciliation, shown>>
      /\ \A k \in Jobs : record[k] \notin Live
    BY DEF Boot, job, status
<1>2. Course' = Course /\ 0 \in Slots BY <1>1, BoundAssumption DEF Course, Slots
<1>3. ASSUME NEW k \in Course PROVE Honest(k)'
    <2>0. k \in Jobs /\ k \notin isolated /\ Honest(k) /\ Account(k) BY DEF Course, HInv, Honest
    <2>1. chains \in [Jobs -> [Slots -> Seq(CourseState)]] /\ record[k] \in JobState BY <2>0 DEF TypeOK
    <2>2. CASE record[k] = "none"
        <3>1. chains'[k] = chains[k] BY <2>0, <2>2 DEF Boot
        <3>2. Unheard(k) BY <1>1, <3>1 DEF Unheard
        <3> QED BY <2>0, <3>2, UnheardHonest
    <2>3. ASSUME record[k] # "none", NEW x \in CourseState, x = LifecycleOf(record[k]) PROVE Honest(k)'
        <3>1. chains'[k] = [chains[k] EXCEPT ![0] = <<x>>] BY <2>0, <2>3 DEF Boot
        <3>2. Range(<<x>>) = {x} BY DEF Range
        <3>3. ASSUME NEW v \in Chained(k)' PROVE v \in Chained(k) \cup {x}
            <4>1. PICK m \in Slots : v \in Range(chains'[k][m]) BY DEF Chained, Slots
            <4>2. chains[k] \in [Slots -> Seq(CourseState)] BY <2>0, <2>1
            <4>3. CASE m = 0
                <5>1. chains'[k][m] = <<x>> BY <1>2, <3>1, <4>2, <4>3
                <5> QED BY <3>2, <4>1, <5>1
            <4>4. CASE m # 0
                <5>1. chains'[k][m] = chains[k][m] BY <3>1, <4>1, <4>2, <4>4
                <5> QED BY <4>1, <5>1 DEF Chained
            <4> QED BY <4>3, <4>4
        <3>4. Told(k)' \subseteq Told(k) \cup {x} BY <1>1, <3>3, ToldParts
        <3>5. record[k] \in Terminal BY <1>1, <2>0, <2>1, <2>3 DEF JobState
        <3>6. Holds(k, x)' BY <1>1, <2>3, <3>5 DEF Holds, LifecycleOf, Terminal
        <3>7. Account(k)' BY <1>1, <2>0 DEF Account
        <3>8. record'[k] = "completed" => applied'[k] = "verified" BY <1>1, <2>0 DEF Honest
        <3>9. asked \subseteq asked' /\ Stands(k) BY <1>1, <2>0
        <3> QED BY <2>0, <3>4, <3>6, <3>7, <3>8, <3>9, HeardHonest
    <2>4. LifecycleOf(record[k]) \in CourseState BY <2>1, LifecycleType
    <2> QED BY <2>2, <2>3, <2>4
<1> QED BY <1>2, <1>3 DEF HInv

\* Every step keeps the channel honest.
LEMMA NextHonest == ASSUME IInv, HInv, [Next]_vars PROVE HInv'
<1> USE JobAssumption
<1>0. /\ TypeOK /\ (\A k \in Jobs : Job(k)) /\ \A k \in Jobs : Stands(k)
      /\ record \in [Jobs -> JobState] /\ \A k \in Course : Account(k)
    BY StepStands DEF IInv, TypeOK, HInv, Honest
<1>1. ASSUME NEW j \in Jobs, Start(j) PROVE HInv'
    <2>1. record[j] = "none" BY <1>0, <1>1 DEF Start, Job
    <2>2. j \in Course => reported[j] = <<>> BY <1>0, <2>1 DEF Account
    <2>3. /\ Reports(j, "queued") /\ record'[j] = "queued" /\ asked \subseteq asked' /\ isolated' = isolated
          /\ UNCHANGED <<pending, reconciliation, shown, applied>>
          /\ \A k \in Jobs \ {j} : record'[k] = record[k]
        BY <1>0, <1>1 DEF Start, status
    <2> QED BY <1>0, <2>2, <2>3, ReportHonest
<1>2. ASSUME NEW j \in Jobs, Refuse(j) PROVE HInv'
    <2>1. /\ chains' = Enqueued(j, "failed") /\ asked' = asked \cup {j}
          /\ UNCHANGED <<isolated, record, applied, reported, pending, reconciliation, shown>>
        BY <1>2 DEF Refuse, job, status
    <2>2. record[j] = "none" BY <1>0, <1>2 DEF Refuse, Job
    <2>3. "failed" \in CourseState BY DEF CourseState
    <2>4. /\ Chained(j)' \subseteq Chained(j) \cup {"failed"}
          /\ \A k \in Jobs \ {j} : chains'[k] = chains[k]
        BY <1>0, <2>1, <2>3, EnqueuedTold
    <2>5. Told(j)' \subseteq Told(j) \cup {"failed"} BY <2>1, <2>4, ToldParts
    <2>6. Holds(j, "failed")' BY <2>1, <2>2 DEF Holds
    <2> QED BY <1>0, <2>1, <2>4, <2>5, <2>6, HearsHonest
<1>3. ASSUME NEW j \in Jobs, SaveRunning(j) PROVE HInv'
    <2>1. record[j] = "queued" BY <1>3 DEF SaveRunning
    <2>2. j \in Course => reported[j] = <<"received">> BY <1>0, <2>1 DEF Account
    <2>3. /\ Reports(j, "running") /\ record'[j] = "running" /\ asked' = asked /\ isolated' = isolated
          /\ UNCHANGED <<pending, reconciliation, shown, applied>>
          /\ \A k \in Jobs \ {j} : record'[k] = record[k]
        BY <1>0, <1>3 DEF SaveRunning, status
    <2> QED BY <1>0, <2>2, <2>3, ReportHonest
<1>4. ASSUME NEW j \in Jobs, RunnerThrows(j) PROVE HInv'
    <2>1. record[j] = "running" BY <1>4 DEF RunnerThrows
    <2>2. j \in Course => reported[j] = <<"received", "running">> BY <1>0, <2>1 DEF Account
    <2>3. /\ Reports(j, "failed") /\ record'[j] = "failed" /\ asked' = asked /\ isolated' = isolated
          /\ UNCHANGED <<pending, reconciliation, shown, applied>>
          /\ \A k \in Jobs \ {j} : record'[k] = record[k]
        BY <1>0, <1>4 DEF RunnerThrows, status
    <2>4. "failed" \in Terminal BY DEF Terminal
    <2> QED BY <1>0, <2>2, <2>3, <2>4, ReportHonest
<1>5. ASSUME NEW j \in Jobs, NEW ok \in BOOLEAN, NEW keep \in BOOLEAN, Finish(j, ok, keep),
             Idle, record[j] # "none", asked' = asked, UNCHANGED <<pending, reconciliation, shown>>
      PROVE HInv'
    <2>1. CASE finished[j]
        <3>1. UNCHANGED <<isolated, record, applied, chains, reported>> BY <1>5, <2>1 DEF Finish, job
        <3>2. \A k \in Course : Hush(k) BY <1>5, <3>1, UntoldHush
        <3>3. \A k \in Course : Drift(k) BY <3>1 DEF Drift
        <3> QED BY <1>0, <1>5, <3>1, <3>2, <3>3, SilentHonest
    <2>2. CASE ~finished[j]
        <3>1. Settle(j, ok, keep) BY <1>5, <2>2 DEF Finish
        <3> QED BY <1>0, <1>5, <3>1, SettleHonest
    <2> QED BY <2>1, <2>2
<1>6. ASSUME NEW j \in Jobs, SessionEnds(j) PROVE HInv'
    <2>1. record[j] # "none" /\ Idle BY <1>0, <1>6 DEF SessionEnds, Job, Untouched
    <2>2. PICK ok \in BOOLEAN : Finish(j, ok, FALSE) BY <1>6 DEF SessionEnds
    <2>3. asked' = asked /\ UNCHANGED <<pending, reconciliation, shown>> BY <1>6 DEF SessionEnds, status
    <2> QED BY <1>5, <2>1, <2>2, <2>3
<1>7. ASSUME NEW j \in Jobs, DeadlineSettles(j) PROVE HInv'
    <2>1. record[j] # "none" /\ Idle BY <1>0, <1>7 DEF DeadlineSettles, Job, Untouched
    <2>2. PICK confirmed \in BOOLEAN : Finish(j, FALSE, ~confirmed) BY <1>7 DEF DeadlineSettles
    <2>3. asked' = asked /\ UNCHANGED <<pending, reconciliation, shown>> BY <1>7 DEF DeadlineSettles, status
    <2> QED BY <1>5, <2>1, <2>2, <2>3
<1>8. ASSUME NEW j \in Jobs, CancelConfirmed(j) PROVE HInv'
    <2>1. record[j] # "none" /\ Idle BY <1>0, <1>8 DEF CancelConfirmed, Job, Untouched
    <2>2. /\ Settle(j, FALSE, FALSE) /\ asked' = asked /\ UNCHANGED <<pending, reconciliation, shown>>
        BY <1>8 DEF CancelConfirmed, status
    <2> QED BY <1>0, <2>1, <2>2, SettleHonest
<1>9. ASSUME NEW j \in Jobs, Cancel(j) PROVE HInv'
    <2>1. /\ Idle /\ record[j] \in Live /\ record' = [record EXCEPT ![j] = "cancelling"]
          /\ UNCHANGED <<isolated, asked, applied, reported, chains, pending, reconciliation, shown>>
        BY <1>9 DEF Cancel, status
    <2>2. record[j] \in {"running", "cancelling"} BY <1>0, <2>1 DEF Job, Beginning, Idle, Live
    <2>3. \A k \in Course : Drift(k) BY <1>0, <2>1, <2>2 DEF Course, Drift
    <2>4. \A k \in Course : Hush(k) BY <2>1, UntoldHush
    <2> QED BY <1>0, <2>1, <2>3, <2>4, SilentHonest
<1>10. ASSUME NEW j \in Jobs, Recover(j) PROVE HInv'
    <2>1. /\ record[j] \in Live /\ record' = [record EXCEPT ![j] = "failed"]
          /\ UNCHANGED <<isolated, asked, applied, reported, chains, pending, reconciliation, shown>>
        BY <1>10 DEF Recover, status
    <2>2. \A k \in Course : Drift(k) BY <1>0, <2>1 DEF Course, Drift
    <2>3. \A k \in Course : Hush(k) BY <2>1, UntoldHush
    <2> QED BY <1>0, <2>1, <2>2, <2>3, SilentHonest
<1>11. ASSUME NEW j \in Jobs, RetryFires(j) PROVE HInv'
    <2> DEFINE n == tail[j] + 1
               x == pending[j]
    <2>1. /\ chains' = IF x = "none" THEN chains
                       ELSE [chains EXCEPT ![j] = [chains[j] EXCEPT ![n] = Append(chains[j][n], x)]]
          /\ UNCHANGED <<isolated, record, applied, reported, asked, pending, reconciliation, shown>>
        BY <1>11 DEF RetryFires, job
    <2>2. n \in Slots
        <3>1. tail[j] \in Nat /\ timers[j] \in Nat /\ timers[j] > 0 /\ tail[j] + timers[j] <= faults
              /\ faults \in Nat /\ faults <= MaxFaults
            BY <1>0, <1>11, BoundAssumption DEF TypeOK, Slots, IInv, Retries, RetryFires
        <3> QED BY <3>1, BoundAssumption DEF Slots
    <2>3. x \in Told(j) BY ToldParts
    <2>4. /\ Chained(j)' \subseteq Chained(j) \cup {x}
          /\ \A k \in Jobs \ {j} : chains'[k] = chains[k]
        <3>1. CASE x = "none" BY <2>1, <3>1 DEF Chained
        <3>2. CASE x # "none"
            <4> DEFINE q == Append(chains[j][n], x)
            <4>1. chains[j][n] \in Seq(CourseState) /\ x \in CourseState BY <1>0, <2>2, <3>2 DEF TypeOK
            <4>2. Range(q) \subseteq Range(chains[j][n]) \cup {x} BY <4>1, RangeAppend
            <4>3. chains' = [chains EXCEPT ![j] = [chains[j] EXCEPT ![n] = q]] BY <2>1, <3>2
            <4> HIDE DEF q, n, x
            <4> QED BY <1>0, <2>2, <4>2, <4>3, ChainTold
        <3> QED BY <3>1, <3>2
    <2>5. Told(j)' \subseteq Told(j) \cup {"none"} BY <2>1, <2>3, <2>4, ToldParts
    <2>6. Holds(j, "none")' BY DEF Holds
    <2> QED BY <1>0, <2>1, <2>4, <2>5, <2>6, HearsHonest
<1>12. ASSUME NEW j \in Jobs, NEW n \in Slots, Sent(j, n) PROVE HInv'
    <2>1. UNCHANGED <<isolated, record, applied, reported, asked>> BY <1>12 DEF Sent, job
    <2>2. /\ Told(j)' \subseteq Told(j) \cup {"none"}
          /\ \A k \in Jobs \ {j} : /\ chains'[k] = chains[k] /\ shown'[k] = shown[k]
                                 /\ pending'[k] = pending[k] /\ reconciliation'[k] = reconciliation[k]
        BY <1>0, <1>12, SentTold
    <2>3. Holds(j, "none")' BY DEF Holds
    <2> QED BY <1>0, <2>1, <2>2, <2>3, HearsHonest
<1>13. ASSUME Crash PROVE HInv'
    <2>1. UNCHANGED <<isolated, record, applied, reported, asked, shown>> BY <1>13 DEF Crash
    <2>2. ASSUME NEW k \in Course PROVE Hush(k)
        <3>1. k \in Jobs BY DEF Course
        <3>2. \A n \in Slots : chains'[k][n] = <<>> BY <1>13, <3>1 DEF Crash
        <3>3. Chained(k)' = {} BY <3>2 DEF Chained, Range, Slots
        <3>4. pending'[k] = "none" /\ reconciliation'[k] = {} BY <1>13, <3>1 DEF Crash
        <3> QED BY <2>1, <3>3, <3>4, ToldParts DEF Hush
    <2>3. \A k \in Course : Drift(k) BY <2>1 DEF Drift
    <2> QED BY <1>0, <2>1, <2>2, <2>3, SilentHonest
<1>14. ASSUME Boot PROVE HInv' BY <1>0, <1>14, BootHonest DEF IInv
<1>15. ASSUME NEW j \in Jobs, RunnerStarts(j) \/ Deadline(j) \/ CancelRejected(j) PROVE HInv'
    <2>1. UNCHANGED <<isolated, record, applied, reported, asked, chains, pending, reconciliation, shown>>
        BY <1>15 DEF RunnerStarts, Deadline, CancelRejected, job, status
    <2>2. \A k \in Course : Hush(k) BY <2>1, UntoldHush
    <2>3. \A k \in Course : Drift(k) BY <2>1 DEF Drift
    <2> QED BY <1>0, <2>1, <2>2, <2>3, SilentHonest
<1>16. ASSUME Touch \/ UNCHANGED vars PROVE HInv'
    <2>1. UNCHANGED <<isolated, record, applied, reported, asked, chains, pending, reconciliation, shown>>
        BY <1>16 DEF Touch, vars, status
    <2>2. \A k \in Course : Hush(k) BY <2>1, UntoldHush
    <2>3. \A k \in Course : Drift(k) BY <2>1 DEF Drift
    <2> QED BY <1>0, <2>1, <2>2, <2>3, SilentHonest
<1> QED
    BY <1>1, <1>2, <1>3, <1>4, <1>6, <1>7, <1>8, <1>9, <1>10, <1>11, <1>12, <1>13, <1>14, <1>15,
       <1>16 DEF Next

\* The invariant makes the channel honest, ...
LEMMA HonestInv == IInv /\ HInv => ChannelIsHonest
<1> SUFFICES ASSUME IInv, HInv, NEW j \in Course PROVE
        /\ "completed" \in Told(j) => record[j] = "completed"
        /\ record[j] = "completed" => applied[j] = "verified"
        /\ "failed" \in Told(j) => record[j] \in {"failed", "cancelled"} \/ (record[j] = "none" /\ j \in asked)
        /\ IsPrefix(reported[j], <<"received", "running", LifecycleOf(record[j])>>)
    BY DEF ChannelIsHonest
<1>1. Honest(j) BY DEF HInv
<1>2. /\ "completed" \in Told(j) => record[j] = "completed"
      /\ record[j] = "completed" => applied[j] = "verified"
      /\ "failed" \in Told(j) => record[j] \in {"failed", "cancelled"} \/ (record[j] = "none" /\ j \in asked)
    BY <1>1 DEF Honest, Holds
<1> DEFINE x == LifecycleOf(record[j])
<1>3. reported[j] \in {<<>>, <<"received">>, <<"received", "running">>, <<"received", "running", x>>}
    BY <1>1 DEF Honest, Account
<1>4. IsPrefix(reported[j], <<"received", "running", x>>)
    <2> HIDE DEF x
    <2>1. CASE reported[j] = <<>> BY <2>1 DEF IsPrefix
    <2>2. CASE reported[j] = <<"received">> BY <2>2 DEF IsPrefix
    <2>3. CASE reported[j] = <<"received", "running">> BY <2>3 DEF IsPrefix
    <2>4. CASE reported[j] = <<"received", "running", x>> BY <2>4 DEF IsPrefix
    <2> QED BY <1>3, <2>1, <2>2, <2>3, <2>4
<1> QED BY <1>2, <1>4

\* ... and nothing is told at the start.
LEMMA InitHonest == Init => HInv
<1> SUFFICES ASSUME Init, NEW j \in Course PROVE Honest(j) BY DEF HInv
<1>1. j \in Jobs BY DEF Course
<1>2. /\ record[j] = "none" /\ reported[j] = <<>> /\ shown[j] = <<>> /\ pending[j] = "none"
      /\ reconciliation[j] = {} /\ \A n \in Slots : chains[j][n] = <<>>
    BY <1>1 DEF Init
<1>3. Told(j) \subseteq {"none"}
    <2>1. Chained(j) = {} BY <1>2 DEF Chained, Range
    <2>2. Range(shown[j]) = {} BY <1>2 DEF Range
    <2> QED BY <1>2, <2>1, <2>2, ToldParts
<1>4. Account(j) BY <1>2 DEF Account
<1> QED BY <1>2, <1>3, <1>4 DEF Honest, Holds

\* Nothing untrue of a course job is told, waiting to be told, or given up to be
\* told, and what the service reports follows its record, for any number of jobs,
\* crashes and messages that are not delivered.
THEOREM ChannelStaysHonest == Spec => []ChannelIsHonest
<1>1. IInv /\ HInv /\ [Next]_vars => HInv' BY NextHonest
<1> QED BY <1>1, InitIInv, NextIInv, InitHonest, HonestInv, PTL DEF Spec

=============================================================================
