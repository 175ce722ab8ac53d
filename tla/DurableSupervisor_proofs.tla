---------------------- MODULE DurableSupervisor_proofs ----------------------
(***************************************************************************)
(* For every set of runs and pumps, every lease, backoff and report        *)
(* interval, and without the bounds on time: the rows keep their types, a  *)
(* running run has one open attempt, and a command is acknowledged exactly *)
(* when its attempt has left the queue.                                    *)
(***************************************************************************)
EXTENDS DurableSupervisor, SequenceTheorems, TLAPS

\* What a pump holds is in the outbox.
HeldInOutbox == \A p \in Pumps : held[p] \subseteq DOMAIN outbox

\* The three facts about the stored rows that the inductive invariant joins.
IInv == TypeOK /\ HeldInOutbox /\ OneOpenAttempt /\ OutboxMatchesAttempts

-----------------------------------------------------------------------------
\* A backoff delay is a positive number of ticks, whatever the attempt number.
LEMMA RetryDelayPositive == \A n \in Nat : RetryDelay(n) \in Nat \ {0}
<1> SUFFICES ASSUME NEW n \in Nat PROVE RetryDelay(n) \in Nat \ {0}
  OBVIOUS
<1>1. Doubling[IF n < 1 THEN 1 ELSE IF n > 7 THEN 7 ELSE n] \in {1, 2, 4, 8, 16, 32, 64}
  BY DEF Doubling
<1>2. BaseRetryMs \in Nat \ {0}
  BY TimingAssumption
<1> QED  BY <1>1, <1>2 DEF RetryDelay

\* timeoutAttempt appends one queued attempt and marks only the expired ones.
LEMMA TimedOutRows ==
  ASSUME NEW seq \in Seq(AttemptRow), NEW ns, now \in Nat
  PROVE  /\ TimedOut(seq, ns) \in Seq(AttemptRow)
         /\ Len(TimedOut(seq, ns)) = Len(seq) + 1
         /\ TimedOut(seq, ns)[Len(seq) + 1].state = "queued"
         /\ TimedOut(seq, ns)[Len(seq) + 1].token
         /\ TimedOut(seq, ns)[Len(seq) + 1].lease = 0
         /\ \A n \in 1..Len(seq) :
               TimedOut(seq, ns)[n] =
                 IF n \in ns THEN [state |-> "timed_out", token |-> FALSE, lease |-> 0,
                                   retry |-> now + RetryDelay(Len(seq))]
                             ELSE seq[n]
<1> DEFINE retryAt == now + RetryDelay(Len(seq))
           row(n) == IF n \in ns THEN [state |-> "timed_out", token |-> FALSE, lease |-> 0,
                                       retry |-> retryAt]
                                 ELSE seq[n]
           marked == [n \in 1..Len(seq) |-> row(n)]
           q == QueuedAttempt(retryAt)
<1>1. Len(seq) \in Nat /\ retryAt \in Nat
  <2>1. Len(seq) \in Nat
    OBVIOUS
  <2>2. RetryDelay(Len(seq)) \in Nat
    BY <2>1, RetryDelayPositive
  <2> QED  BY <2>1, <2>2
<1>2. q \in AttemptRow /\ q.state = "queued" /\ q.token /\ q.lease = 0
  BY <1>1 DEF QueuedAttempt, AttemptRow
<1>3. \A n \in 1..Len(seq) : row(n) \in AttemptRow
  <2> TAKE n \in 1..Len(seq)
  <2>1. seq[n] \in AttemptRow
    OBVIOUS
  <2> HIDE DEF retryAt
  <2>2. [state |-> "timed_out", token |-> FALSE, lease |-> 0, retry |-> retryAt] \in AttemptRow
    BY <1>1 DEF AttemptRow
  <2> QED  BY <2>1, <2>2
<1>4. marked \in Seq(AttemptRow) /\ Len(marked) = Len(seq)
  <2> HIDE DEF row
  <2> QED  BY <1>1, <1>3, IsASeq
<1>5. TimedOut(seq, ns) = Append(marked, q)
  BY DEF TimedOut
<1> HIDE DEF marked, q, retryAt
<1>6. Append(marked, q) \in Seq(AttemptRow) /\ Len(Append(marked, q)) = Len(seq) + 1
      /\ Append(marked, q)[Len(seq) + 1] = q
      /\ \A n \in 1..Len(seq) : Append(marked, q)[n] = marked[n]
  BY <1>1, <1>2, <1>4
<1>7. \A n \in 1..Len(seq) : marked[n] = row(n)
  BY DEF marked
<1> QED  BY <1>2, <1>5, <1>6, <1>7 DEF retryAt

\* Replacing the newest attempt leaves exactly one open one.
LEMMA TimeoutSettles ==
  ASSUME NEW seq \in Seq(AttemptRow), NEW state, NEW ns, now \in Nat,
         SettledByNewest(state, seq), state \in {"running", "completed", "failed"},
         ns # {}, ns \subseteq {n \in 1..Len(seq) : seq[n].state = "running"}
  PROVE  /\ ns = {Len(seq)} /\ state = "running"
         /\ SettledByNewest(state, TimedOut(seq, ns))
<1> DEFINE new == TimedOut(seq, ns)
<1>1. Len(seq) \in Nat \ {0}
  BY DEF SettledByNewest
<1>2. ns = {Len(seq)} /\ seq[Len(seq)].state = "running"
  <2>1. \A n \in 1..Len(seq) : seq[n].state = "running" => n = Len(seq)
    BY <1>1 DEF SettledByNewest
  <2> QED  BY <2>1
<1>3. /\ new \in Seq(AttemptRow) /\ Len(new) = Len(seq) + 1
      /\ new[Len(seq) + 1].state = "queued" /\ new[Len(seq) + 1].token
      /\ new[Len(seq) + 1].lease = 0
      /\ \A n \in 1..Len(seq) :
            new[n] = IF n \in ns THEN [state |-> "timed_out", token |-> FALSE, lease |-> 0,
                                       retry |-> now + RetryDelay(Len(seq))]
                                 ELSE seq[n]
  BY TimedOutRows
<1> HIDE DEF new
<1>4. state = "running"
  BY <1>2, SMT DEF SettledByNewest
<1>6. \A n \in 1..Len(seq) : new[n].state = "timed_out"
  BY <1>1, <1>2, <1>3 DEF SettledByNewest
<1>7. \A n \in 1..Len(seq) : /\ new[n].token <=> Open(new[n])
                             /\ new[n].lease # 0 <=> new[n].state = "running"
  BY <1>1, <1>2, <1>3 DEF SettledByNewest, Open
<1>8. new # <<>> /\ Open(new[Len(new)])
  BY <1>1, <1>3 DEF Open
<1>9. SettledByNewest("running", new)
  BY <1>1, <1>3, <1>6, <1>7, <1>8 DEF SettledByNewest, Open
<1> QED  BY <1>2, <1>4, <1>9 DEF new

-----------------------------------------------------------------------------
\* The part of the inductive invariant that speaks of the stored rows.
RowsOK ==
    /\ attempts \in [Runs -> Seq(AttemptRow)]
    /\ nextReport \in [Runs -> Nat]
    /\ DOMAIN outbox \subseteq Command
    /\ outbox \in [DOMAIN outbox -> CommandRow]
    /\ OneOpenAttempt
    /\ OutboxMatchesAttempts

\* The next report boundary is a time.
LEMMA BoundaryIsNat ==
  ASSUME TypeOK, NEW r \in ReportRuns
  PROVE  NextBoundary(r) \in Nat
<1>1. nextReport[r] \in Nat /\ now \in Nat /\ nextReport[r] <= now
  BY DEF ReportRuns, ReportDue, TypeOK
<1>2. ReportIntervalMs \in Nat \ {0}
  BY TimingAssumption
<1> DEFINE k == (now - nextReport[r]) \div ReportIntervalMs
<1>3. k \in Nat
  BY <1>1, <1>2
<1> HIDE DEF k
<1>4. ReportIntervalMs * (k + 1) \in Nat
  BY <1>2, <1>3
<1> QED  BY <1>1, <1>4 DEF NextBoundary, k

\* advanceTime() keeps the rows consistent, whatever the caller requeued.
LEMMA AdvanceKeepsRows ==
  ASSUME IInv, NEW STATE ob, DOMAIN ob = DOMAIN outbox, ob \in [DOMAIN ob -> CommandRow],
         \A c \in DOMAIN outbox : ob[c].state = "acked" <=> outbox[c].state = "acked",
         AdvanceTime(ob)
  PROVE  RowsOK' /\ DOMAIN outbox \subseteq DOMAIN outbox'
<1> USE DEF IInv
<1>0. now \in Nat
  BY DEF TypeOK
<1>1. \A r \in LapsedRuns :
         /\ attempts'[r] = TimedOut(attempts[r], Lapsed(r))
         /\ attempts'[r] \in Seq(AttemptRow)
         /\ Len(attempts'[r]) = Len(attempts[r]) + 1
         /\ Len(attempts[r]) \in Nat
         /\ attempts'[r][Len(attempts[r]) + 1].state = "queued"
         /\ \A n \in 1..Len(attempts[r]) :
              (attempts'[r][n].state = "queued") <=> (attempts[r][n].state = "queued")
         /\ SettledByNewest(runState'[r], attempts'[r])
  <2> SUFFICES ASSUME NEW r \in LapsedRuns
               PROVE  /\ attempts'[r] = TimedOut(attempts[r], Lapsed(r))
                      /\ attempts'[r] \in Seq(AttemptRow)
                      /\ Len(attempts'[r]) = Len(attempts[r]) + 1
                      /\ Len(attempts[r]) \in Nat
                      /\ attempts'[r][Len(attempts[r]) + 1].state = "queued"
                      /\ \A n \in 1..Len(attempts[r]) :
                          (attempts'[r][n].state = "queued") <=> (attempts[r][n].state = "queued")
                      /\ SettledByNewest(runState'[r], attempts'[r])
    OBVIOUS
  <2>1. r \in Runs /\ attempts[r] \in Seq(AttemptRow) /\ runState[r] = "running"
        /\ runState'[r] = runState[r] /\ Lapsed(r) # {}
    BY DEF LapsedRuns, TypeOK, AdvanceTime
  <2>2. Lapsed(r) \subseteq {n \in 1..Len(attempts[r]) : attempts[r][n].state = "running"}
    BY <2>1 DEF Lapsed
  <2>3. SettledByNewest(runState[r], attempts[r])
    BY <2>1 DEF OneOpenAttempt
  <2>4. attempts'[r] = TimedOut(attempts[r], Lapsed(r))
    BY <2>1 DEF AdvanceTime
  <2>5. SettledByNewest(runState[r], TimedOut(attempts[r], Lapsed(r)))
    BY <1>0, <2>1, <2>2, <2>3, TimeoutSettles
  <2>6. /\ TimedOut(attempts[r], Lapsed(r)) \in Seq(AttemptRow)
        /\ Len(TimedOut(attempts[r], Lapsed(r))) = Len(attempts[r]) + 1
        /\ TimedOut(attempts[r], Lapsed(r))[Len(attempts[r]) + 1].state = "queued"
        /\ \A n \in 1..Len(attempts[r]) :
             TimedOut(attempts[r], Lapsed(r))[n].state = "queued" <=> attempts[r][n].state = "queued"
    <3>1. \A n \in Lapsed(r) : attempts[r][n].state = "running"
      BY <2>2
    <3>2. \A n \in 1..Len(attempts[r]) :
            TimedOut(attempts[r], Lapsed(r))[n] =
              IF n \in Lapsed(r) THEN [state |-> "timed_out", token |-> FALSE, lease |-> 0,
                                       retry |-> now + RetryDelay(Len(attempts[r]))]
                                 ELSE attempts[r][n]
      BY <1>0, <2>1, TimedOutRows
    <3>3. \A n \in 1..Len(attempts[r]) :
            TimedOut(attempts[r], Lapsed(r))[n].state = "queued" <=> attempts[r][n].state = "queued"
      BY <3>1, <3>2
    <3> QED  BY <1>0, <2>1, <3>3, TimedOutRows
  <2> QED  BY <2>1, <2>4, <2>5, <2>6
<1>2. \A r \in Runs \ LapsedRuns : attempts'[r] = attempts[r]
  BY DEF AdvanceTime
<1>3. attempts' \in [Runs -> Seq(AttemptRow)]
  <2>1. attempts' = [r \in Runs |-> attempts'[r]]
    BY DEF AdvanceTime
  <2>2. \A r \in Runs : attempts'[r] \in Seq(AttemptRow)
    BY <1>1, <1>2 DEF TypeOK
  <2> QED  BY <2>1, <2>2
<1>4. nextReport' \in [Runs -> Nat]
  BY BoundaryIsNat DEF AdvanceTime, TypeOK
<1>5. \A c \in Raised : c \in Command /\ AvailableAt(c) \in Nat
  <2>1. \A r \in LapsedRuns : RetryCommand(r) \in Command /\ RetryAt(r) \in Nat
                              /\ RetryCommand(r).kind = "execute" /\ RetryCommand(r).run = r
    <3> TAKE r \in LapsedRuns
    <3>1. r \in Runs /\ Len(attempts[r]) \in Nat
      BY <1>1 DEF LapsedRuns
    <3>2. RetryDelay(Len(attempts[r])) \in Nat
      BY <3>1, RetryDelayPositive
    <3> QED  BY <1>0, <3>1, <3>2 DEF RetryCommand, RetryAt, Execute, Command
  <2>2. \A r \in ReportRuns : \A t \in DueTimes(r) :
           Report(r, t) \in Command /\ t \in Nat
           /\ Report(r, t).kind = "progress_report" /\ Report(r, t).no = t
    BY <1>0 DEF ReportRuns, DueTimes, Report, Command, TypeOK
  <2> QED  BY <2>1, <2>2 DEF Raised, AvailableAt
<1>6. /\ DOMAIN outbox' = DOMAIN outbox \cup Raised
      /\ \A c \in DOMAIN outbox : outbox'[c] = ob[c]
      /\ \A c \in Raised \ DOMAIN outbox : outbox'[c] = PendingAt(AvailableAt(c))
  BY DEF AdvanceTime, Inserted
<1>7. DOMAIN outbox' \subseteq Command /\ outbox' \in [DOMAIN outbox' -> CommandRow]
  <2>1. \A c \in Raised : PendingAt(AvailableAt(c)) \in CommandRow
    BY <1>5 DEF PendingAt, CommandRow
  <2>2. \A c \in DOMAIN outbox' : outbox'[c] \in CommandRow
    BY <1>6, <2>1
  <2>3. outbox' = [c \in DOMAIN outbox' |-> outbox'[c]]
    BY DEF AdvanceTime, Inserted
  <2> QED  BY <1>5, <1>6, <2>2, <2>3 DEF TypeOK
<1>8. OneOpenAttempt'
  BY <1>1, <1>2 DEF OneOpenAttempt, AdvanceTime
<1>9. OutboxMatchesAttempts'
  <2>1. ASSUME NEW r \in Runs, NEW n \in 1..Len(attempts'[r])
        PROVE  /\ Execute(r, n) \in DOMAIN outbox'
               /\ attempts'[r][n].state = "queued" <=> outbox'[Execute(r, n)].state # "acked"
    <3>1. CASE r \in LapsedRuns /\ n = Len(attempts[r]) + 1
      <4>1. Execute(r, n) \in Raised
        BY <3>1 DEF Raised, RetryCommand
      <4>2. Execute(r, n) \notin DOMAIN outbox
        <5>1. Execute(r, n).kind = "execute" /\ Execute(r, n).run = r /\ Execute(r, n).no = n
          BY DEF Execute
        <5> QED  BY <1>1, <3>1, <5>1 DEF OutboxMatchesAttempts
      <4> QED  BY <1>1, <1>6, <3>1, <4>1, <4>2 DEF PendingAt
    <3>2. CASE n \in 1..Len(attempts[r])
      <4>1. /\ Execute(r, n) \in DOMAIN outbox
            /\ attempts[r][n].state = "queued" <=> outbox[Execute(r, n)].state # "acked"
        BY <3>2 DEF OutboxMatchesAttempts
      <4>2. attempts'[r][n].state = "queued" <=> attempts[r][n].state = "queued"
        BY <1>1, <1>2, <3>2
      <4> QED  BY <1>6, <4>1, <4>2
    <3> QED  BY <1>1, <1>2, <3>1, <3>2
  <2>2. ASSUME NEW c \in DOMAIN outbox', c.kind = "execute"
        PROVE  c.no \in 1..Len(attempts'[c.run])
    <3>1. CASE c \in DOMAIN outbox
      <4>1. c.no \in 1..Len(attempts[c.run]) /\ c.run \in Runs
        BY <2>2, <3>1 DEF OutboxMatchesAttempts, TypeOK, Command
      <4> QED  BY <1>1, <1>2, <4>1
    <3>2. CASE c \in Raised
      <4>1. \A r \in ReportRuns : \A t \in DueTimes(r) : Report(r, t).kind # "execute"
        BY DEF Report
      <4>2. PICK r \in LapsedRuns : c = RetryCommand(r)
        BY <2>2, <3>2, <4>1 DEF Raised
      <4>3. c.run = r /\ c.no = Len(attempts[r]) + 1
        BY <4>2 DEF RetryCommand, Execute
      <4> QED  BY <1>1, <4>3
    <3> QED  BY <1>6, <3>1, <3>2
  <2> QED  BY <2>1, <2>2 DEF OutboxMatchesAttempts
<1> QED  BY <1>3, <1>4, <1>6, <1>7, <1>8, <1>9 DEF RowsOK

-----------------------------------------------------------------------------
\* The process part: pumps, timer, clock and counters.
ProcessOK ==
    /\ now \in Nat
    /\ runState \in [Runs -> {"none", "running", "completed", "failed"}]
    /\ createdAt \in [Runs -> Nat]
    /\ pc \in [Pumps -> {"idle", "advance", "claim", "dispatch"}]
    /\ held \in [Pumps -> SUBSET Command]
    /\ timer \in BOOLEAN /\ wanted \in BOOLEAN
    /\ delivered \subseteq Command
    /\ restarts \in Nat /\ failures \in Nat

\* The inductive invariant is its process part, its rows and what the pumps hold.
LEMMA IInvParts == IInv <=> ProcessOK /\ RowsOK /\ HeldInOutbox
BY DEF IInv, TypeOK, ProcessOK, RowsOK

\* The inductive invariant holds in an empty database.
LEMMA InitIInv == Init => IInv
<1> SUFFICES ASSUME Init PROVE IInv
  OBVIOUS
<1>1. ProcessOK /\ HeldInOutbox
  BY DEF Init, ProcessOK, HeldInOutbox, Pumps
<1>2. attempts \in [Runs -> Seq(AttemptRow)] /\ nextReport \in [Runs -> Nat]
  BY DEF Init
<1>3. DOMAIN outbox = {} /\ outbox \in [DOMAIN outbox -> CommandRow]
  BY DEF Init
<1>4. OneOpenAttempt
  BY DEF Init, OneOpenAttempt, SettledByNewest
<1>5. OutboxMatchesAttempts
  BY <1>3 DEF Init, OutboxMatchesAttempts
<1> QED  BY <1>1, <1>2, <1>3, <1>4, <1>5, IInvParts DEF RowsOK

\* The rows stay consistent when no row changes.
LEMMA SameRows == IInv /\ UNCHANGED stored => RowsOK' /\ DOMAIN outbox = DOMAIN outbox'
BY DEF IInv, TypeOK, RowsOK, stored, OneOpenAttempt, OutboxMatchesAttempts

\* startRun: the new run, its first attempt and its command appear together.
LEMMA StartRunKeeps ==
  ASSUME IInv, NEW r \in Runs, StartRun(r) PROVE IInv'
<1> USE DEF IInv
<1> DEFINE q == QueuedAttempt(now)
<1>0. now \in Nat
  BY DEF TypeOK
<1>1. q \in AttemptRow /\ q.state = "queued" /\ q.token /\ q.lease = 0
  BY <1>0 DEF QueuedAttempt, AttemptRow
<1>2. attempts[r] = <<>>
  BY DEF StartRun, OneOpenAttempt, SettledByNewest
<1>3. attempts' = [attempts EXCEPT ![r] = <<q>>]
  BY DEF StartRun
<1> HIDE DEF q
<1>4. /\ attempts' \in [Runs -> Seq(AttemptRow)] /\ attempts'[r] = <<q>>
      /\ Len(attempts'[r]) = 1 /\ attempts'[r][1].state = "queued"
      /\ \A s \in Runs \ {r} : attempts'[s] = attempts[s]
  BY <1>1, <1>3 DEF TypeOK
<1>5. nextReport' \in [Runs -> Nat] /\ ProcessOK'
  BY <1>0, TimingAssumption DEF StartRun, TypeOK, ProcessOK, Pumps
<1>6. /\ DOMAIN outbox' = DOMAIN outbox \cup {Execute(r, 1)}
      /\ \A c \in DOMAIN outbox : outbox'[c] = outbox[c]
      /\ (Execute(r, 1) \notin DOMAIN outbox => outbox'[Execute(r, 1)] = PendingAt(now))
      /\ outbox' = [c \in DOMAIN outbox' |-> outbox'[c]]
  BY DEF StartRun, Inserted
<1>7. Execute(r, 1) \in Command /\ Execute(r, 1).kind = "execute"
      /\ Execute(r, 1).run = r /\ Execute(r, 1).no = 1
  BY DEF Execute, Command
<1>8. Execute(r, 1) \notin DOMAIN outbox
  BY <1>2, <1>7 DEF OutboxMatchesAttempts
<1>9. DOMAIN outbox' \subseteq Command /\ outbox' \in [DOMAIN outbox' -> CommandRow]
  <2>1. PendingAt(now) \in CommandRow /\ PendingAt(now).state = "pending"
    BY <1>0 DEF PendingAt, CommandRow
  <2>2. \A c \in DOMAIN outbox' : outbox'[c] \in CommandRow
    <3>1. \A c \in DOMAIN outbox : outbox[c] \in CommandRow
      BY DEF TypeOK
    <3> QED  BY <1>6, <1>8, <2>1, <3>1
  <2>3. DOMAIN outbox \subseteq Command
    BY DEF TypeOK
  <2> QED  BY <1>6, <1>7, <2>2, <2>3
<1>10. OneOpenAttempt'
  <2>1. SettledByNewest("running", <<q>>)
    BY <1>1 DEF SettledByNewest, Open
  <2>2. runState'[r] = "running" /\ \A s \in Runs \ {r} : runState'[s] = runState[s]
    BY DEF StartRun, TypeOK
  <2> QED  BY <1>4, <2>1, <2>2 DEF OneOpenAttempt
<1>11. OutboxMatchesAttempts'
  <2>1. ASSUME NEW s \in Runs, NEW n \in 1..Len(attempts'[s])
        PROVE  /\ Execute(s, n) \in DOMAIN outbox'
               /\ attempts'[s][n].state = "queued" <=> outbox'[Execute(s, n)].state # "acked"
    <3>1. CASE s = r
      <4>0. Len(attempts'[s]) = 1
        BY <1>4, <3>1
      <4>1. n = 1
        BY <4>0
      <4> QED  BY <1>4, <1>6, <1>8, <3>1, <4>1 DEF PendingAt
    <3>2. CASE s # r
      BY <1>4, <1>6, <3>2 DEF OutboxMatchesAttempts
    <3> QED  BY <3>1, <3>2
  <2>2. ASSUME NEW c \in DOMAIN outbox', c.kind = "execute"
        PROVE  c.no \in 1..Len(attempts'[c.run])
    <3>1. CASE c = Execute(r, 1)
      <4>1. Len(attempts'[c.run]) = 1 /\ c.no = 1
        BY <1>4, <1>7, <3>1
      <4> QED  BY <4>1
    <3>2. CASE c \in DOMAIN outbox
      <4>1. c.no \in 1..Len(attempts[c.run]) /\ c.run \in Runs
        BY <2>2, <3>2 DEF OutboxMatchesAttempts, TypeOK, Command
      <4> QED  BY <1>2, <1>4, <4>1
    <3> QED  BY <1>6, <3>1, <3>2
  <2> QED  BY <2>1, <2>2 DEF OutboxMatchesAttempts
<1>12. HeldInOutbox'
  BY <1>6 DEF StartRun, HeldInOutbox
<1> QED  BY <1>4, <1>5, <1>9, <1>10, <1>11, <1>12 DEF TypeOK, ProcessOK

\* Moving commands between "pending" and "dispatching" keeps the rows consistent.
LEMMA RelabelKeepsRows ==
  ASSUME IInv, UNCHANGED <<runState, attempts, nextReport>>,
         outbox' \in [DOMAIN outbox -> CommandRow],
         \A c \in DOMAIN outbox : outbox'[c].state = "acked" <=> outbox[c].state = "acked"
  PROVE  RowsOK' /\ DOMAIN outbox' = DOMAIN outbox
<1>1. DOMAIN outbox' = DOMAIN outbox
  OBVIOUS
<1>2. OneOpenAttempt'
  BY DEF IInv, OneOpenAttempt
<1>3. OutboxMatchesAttempts'
  BY <1>1 DEF IInv, OutboxMatchesAttempts
<1> QED  BY <1>1, <1>2, <1>3 DEF IInv, TypeOK, RowsOK

\* start() requeues, then advances the time.
LEMMA StartKeeps == ASSUME IInv, NEW p \in Starters, Start(p) PROVE IInv'
<1> DEFINE ob == Requeued
<1>0. now \in Nat /\ outbox \in [DOMAIN outbox -> CommandRow]
  BY DEF IInv, TypeOK
<1>1. DOMAIN ob = DOMAIN outbox
  BY DEF Requeued
<1>2. \A c \in DOMAIN outbox : /\ ob[c] \in CommandRow
                               /\ ob[c].state = "acked" <=> outbox[c].state = "acked"
  <2> TAKE c \in DOMAIN outbox
  <2>1. outbox[c] \in CommandRow
    BY <1>0
  <2>2. ob[c] = IF outbox[c].state = "dispatching"
                THEN [outbox[c] EXCEPT !.state = "pending", !.avail = now]
                ELSE outbox[c]
    BY DEF Requeued
  <2> QED  BY <1>0, <2>1, <2>2 DEF CommandRow
<1>3. ob = [c \in DOMAIN ob |-> ob[c]]
  BY DEF Requeued
<1>4. AdvanceTime(ob)
  BY DEF Start
<1> HIDE DEF ob
<1>5. RowsOK' /\ DOMAIN outbox \subseteq DOMAIN outbox'
  BY <1>1, <1>2, <1>3, <1>4, AdvanceKeepsRows
<1>6. ProcessOK' /\ HeldInOutbox'
  BY <1>4, <1>5 DEF IInv, TypeOK, HeldInOutbox, ProcessOK, Start, AdvanceTime, Pumps
<1> QED  BY <1>5, <1>6 DEF IInv, TypeOK, RowsOK, ProcessOK

\* A pump that advances the time (store.advanceTime) keeps the invariant.
LEMMA AdvanceKeeps == ASSUME IInv, NEW p \in Pumps, Advance(p) PROVE IInv'
<1>1. AdvanceTime(outbox)
  BY DEF Advance
<1>2. outbox \in [DOMAIN outbox -> CommandRow]
  BY DEF IInv, TypeOK
<1>3. RowsOK' /\ DOMAIN outbox \subseteq DOMAIN outbox'
  BY <1>1, <1>2, AdvanceKeepsRows
<1>4. ProcessOK' /\ HeldInOutbox'
  BY <1>1, <1>3 DEF IInv, TypeOK, HeldInOutbox, ProcessOK, Advance, AdvanceTime
<1> QED  BY <1>3, <1>4 DEF IInv, TypeOK, RowsOK, ProcessOK

\* So does one that claims a command (store.claimCommand).
LEMMA ClaimKeeps == ASSUME IInv, NEW p \in Pumps, Claim(p) PROVE IInv'
<1>1. PICK c \in Due :
        /\ outbox' = [outbox EXCEPT ![c] = Dispatching(outbox[c])]
        /\ held' = [held EXCEPT ![p] = {c}]
  BY DEF Claim
<1>2. c \in DOMAIN outbox /\ outbox[c].state = "pending" /\ outbox[c] \in CommandRow
      /\ c \in Command
  BY DEF Due, IInv, TypeOK
<1>3. outbox' \in [DOMAIN outbox -> CommandRow]
      /\ \A d \in DOMAIN outbox : outbox'[d].state = "acked" <=> outbox[d].state = "acked"
  <2>1. Dispatching(outbox[c]) \in CommandRow /\ Dispatching(outbox[c]).state # "acked"
    <3>1. outbox[c].tries + 1 \in Nat
      BY <1>2 DEF CommandRow
    <3> DEFINE more == outbox[c].tries + 1
    <3> HIDE DEF more
    <3>2. [outbox[c] EXCEPT !.state = "dispatching", !.tries = more] \in CommandRow
      BY <1>2, <3>1 DEF CommandRow, more
    <3> QED  BY <1>2, <3>2 DEF Dispatching, CommandRow, more
  <2> QED  BY <1>1, <1>2, <2>1 DEF IInv, TypeOK
<1>4. UNCHANGED <<runState, attempts, nextReport>>
  BY DEF Claim
<1>5. RowsOK' /\ DOMAIN outbox' = DOMAIN outbox
  BY <1>3, <1>4, RelabelKeepsRows
<1>6. ProcessOK'
  BY <1>1, <1>2 DEF IInv, TypeOK, ProcessOK, Claim
<1>7. HeldInOutbox'
  BY <1>1, <1>2, <1>5 DEF IInv, TypeOK, HeldInOutbox
<1> QED  BY <1>5, <1>6, <1>7 DEF IInv, TypeOK, RowsOK, ProcessOK

\* So does one that puts a command back (store.deferCommand).
LEMMA DeferKeeps == ASSUME IInv, NEW p \in Pumps, Defer(p) PROVE IInv'
<1>1. PICK c \in held[p] :
        IF outbox[c].state # "dispatching"
        THEN UNCHANGED outbox
        ELSE outbox' = [outbox EXCEPT ![c] = Deferred(outbox[c])]
  BY DEF Defer
<1>2. c \in DOMAIN outbox /\ outbox[c] \in CommandRow
  BY DEF HeldInOutbox, IInv, TypeOK
<1>3. now + RetryDelay(outbox[c].tries) \in Nat
  <2>1. outbox[c].tries \in Nat /\ now \in Nat
    BY <1>2 DEF IInv, TypeOK, CommandRow
  <2>2. RetryDelay(outbox[c].tries) \in Nat
    BY <2>1, RetryDelayPositive
  <2> QED  BY <2>1, <2>2
<1>4. outbox' \in [DOMAIN outbox -> CommandRow]
      /\ \A d \in DOMAIN outbox : outbox'[d].state = "acked" <=> outbox[d].state = "acked"
  <2>1. Deferred(outbox[c]) \in CommandRow /\ Deferred(outbox[c]).state # "acked"
    BY <1>2, <1>3 DEF Deferred, CommandRow
  <2> QED  BY <1>1, <1>2, <2>1 DEF IInv, TypeOK
<1>5. UNCHANGED <<runState, attempts, nextReport>>
  BY DEF Defer
<1>6. RowsOK' /\ DOMAIN outbox' = DOMAIN outbox
  BY <1>4, <1>5, RelabelKeepsRows
<1>7. ProcessOK' /\ HeldInOutbox'
  BY <1>6 DEF IInv, TypeOK, ProcessOK, Defer, HeldInOutbox
<1> QED  BY <1>6, <1>7 DEF IInv, TypeOK, RowsOK, ProcessOK

-----------------------------------------------------------------------------
\* Rewriting one attempt in place. "before" and "after" are its two rows.
LEMMA RewriteSettles ==
  ASSUME NEW seq \in Seq(AttemptRow), NEW n \in 1..Len(seq), NEW row \in AttemptRow,
         NEW state, NEW state2, SettledByNewest(state, seq),
         Open(seq[n]), state # "none", state2 # "none",
         row.token <=> Open(row), row.lease # 0 <=> row.state = "running",
         state2 = "running" => Open(row),
         state2 \in {"completed", "failed"} => row.state = "completed"
  PROVE  SettledByNewest(state2, [seq EXCEPT ![n] = row])
<1> DEFINE new == [seq EXCEPT ![n] = row]
<1>1. n = Len(seq)
  BY DEF SettledByNewest, Open
<1>2. new \in Seq(AttemptRow) /\ Len(new) = Len(seq) /\ new # <<>>
      /\ \A k \in 1..Len(seq) : new[k] = IF k = n THEN row ELSE seq[k]
  OBVIOUS
<1> HIDE DEF new
<1>3. \A k \in 1..(Len(new) - 1) : new[k].state = "timed_out"
  BY <1>1, <1>2 DEF SettledByNewest
<1>4. new[Len(new)] = row
  BY <1>1, <1>2
<1>5. \A k \in 1..Len(new) : /\ new[k].token <=> Open(new[k])
                             /\ new[k].lease # 0 <=> new[k].state = "running"
  BY <1>2 DEF SettledByNewest
<1>6. SettledByNewest(state2, new)
  BY <1>2, <1>3, <1>4, <1>5 DEF SettledByNewest
<1> QED  BY <1>6 DEF new

\* Rewriting the open attempt of a run, and its command with it.
LEMMA RewriteKeepsRows ==
  ASSUME IInv, NEW r \in Runs, NEW n \in 1..Len(attempts[r]), NEW row \in AttemptRow,
         NEW state \in {"running", "completed", "failed"},
         Open(attempts[r][n]),
         row.token <=> Open(row), row.lease # 0 <=> row.state = "running",
         state = "running" => Open(row),
         state \in {"completed", "failed"} => row.state = "completed",
         attempts' = [attempts EXCEPT ![r] = [attempts[r] EXCEPT ![n] = row]],
         runState' = [runState EXCEPT ![r] = state],
         nextReport' \in [Runs -> Nat],
         outbox' \in [DOMAIN outbox -> CommandRow],
         \A c \in DOMAIN outbox \ {Execute(r, n)} : outbox'[c] = outbox[c],
         row.state = "queued" <=> outbox'[Execute(r, n)].state # "acked"
  PROVE  RowsOK' /\ DOMAIN outbox' = DOMAIN outbox
<1>1. attempts[r] \in Seq(AttemptRow) /\ SettledByNewest(runState[r], attempts[r])
      /\ runState[r] # "none"
  BY DEF IInv, TypeOK, OneOpenAttempt, SettledByNewest
<1> DEFINE new == [attempts[r] EXCEPT ![n] = row]
<1>2. SettledByNewest(state, new)
  BY <1>1, RewriteSettles
<1>3. new \in Seq(AttemptRow) /\ Len(new) = Len(attempts[r])
      /\ \A k \in 1..Len(attempts[r]) : new[k] = IF k = n THEN row ELSE attempts[r][k]
  BY <1>1
<1>4. attempts' = [attempts EXCEPT ![r] = new]
  OBVIOUS
<1> HIDE DEF new
<1>5. /\ attempts' \in [Runs -> Seq(AttemptRow)]
      /\ attempts'[r] = new
      /\ \A s \in Runs \ {r} : attempts'[s] = attempts[s]
  BY <1>3, <1>4 DEF IInv, TypeOK
<1>6. runState'[r] = state /\ \A s \in Runs \ {r} : runState'[s] = runState[s]
  BY DEF IInv, TypeOK
<1>7. OneOpenAttempt'
  BY <1>2, <1>5, <1>6, ZenonT(30) DEF IInv, OneOpenAttempt
<1>8. OutboxMatchesAttempts'
  <2>1. ASSUME NEW s \in Runs, NEW k \in 1..Len(attempts'[s])
        PROVE  /\ Execute(s, k) \in DOMAIN outbox'
               /\ attempts'[s][k].state = "queued" <=> outbox'[Execute(s, k)].state # "acked"
    <3>1. k \in 1..Len(attempts[s])
      BY <1>3, <1>5
    <3>2. /\ Execute(s, k) \in DOMAIN outbox
          /\ attempts[s][k].state = "queued" <=> outbox[Execute(s, k)].state # "acked"
      BY <3>1 DEF IInv, OutboxMatchesAttempts
    <3>3. CASE s = r /\ k = n
      BY <1>3, <1>5, <3>1, <3>2, <3>3
    <3>4. CASE ~(s = r /\ k = n)
      <4>1. Execute(s, k) # Execute(r, n)
        BY <3>4 DEF Execute
      <4>2. attempts'[s][k] = attempts[s][k]
        BY <1>3, <1>5, <3>1, <3>4
      <4> QED  BY <3>2, <4>1, <4>2
    <3> QED  BY <3>3, <3>4
  <2>2. ASSUME NEW c \in DOMAIN outbox', c.kind = "execute"
        PROVE  c.no \in 1..Len(attempts'[c.run])
    <3>1. c \in DOMAIN outbox /\ c.run \in Runs
      BY DEF IInv, TypeOK, Command
    <3>2. c.no \in 1..Len(attempts[c.run])
      BY <2>2, <3>1 DEF IInv, OutboxMatchesAttempts
    <3>3. Len(attempts'[c.run]) = Len(attempts[c.run])
      BY <1>3, <1>5, <3>1
    <3> QED  BY <3>2, <3>3
  <2> QED  BY <2>1, <2>2 DEF OutboxMatchesAttempts
<1>9. DOMAIN outbox' = DOMAIN outbox
  OBVIOUS
<1> QED  BY <1>5, <1>7, <1>8, <1>9 DEF IInv, TypeOK, RowsOK

\* Only the newest attempt of a running run is open.
LEMMA OpenMeansRunning ==
  ASSUME IInv, NEW r \in Runs, NEW n \in 1..Len(attempts[r]), Open(attempts[r][n])
  PROVE  runState[r] = "running" /\ n = Len(attempts[r])
<1>1. SettledByNewest(runState[r], attempts[r]) /\ attempts[r] \in Seq(AttemptRow)
  BY DEF IInv, OneOpenAttempt, TypeOK
<1>2. n = Len(attempts[r])
  BY <1>1 DEF SettledByNewest, Open
<1>3. runState[r] \notin {"completed", "failed"}
  BY <1>1, <1>2 DEF SettledByNewest, Open
<1>4. runState[r] # "none"
  BY <1>1 DEF SettledByNewest
<1> QED  BY <1>2, <1>3, <1>4 DEF IInv, TypeOK

\* heartbeat: a later lease on the same running attempt
LEMMA HeartbeatKeeps ==
  ASSUME IInv, NEW r \in Runs, NEW n \in DOMAIN attempts[r], Heartbeat(r, n) PROVE IInv'
<1> DEFINE until == now + LeaseMs
           row == [attempts[r][n] EXCEPT !.lease = until]
<1>0. /\ attempts[r] \in Seq(AttemptRow) /\ n \in 1..Len(attempts[r])
      /\ attempts[r][n] \in AttemptRow /\ attempts[r][n].state = "running"
      /\ attempts[r][n].token /\ now \in Nat
  BY DEF IInv, TypeOK, Heartbeat, Accepts
<1>1. until \in Nat \ {0}
  BY <1>0, TimingAssumption
<1>2. attempts' = [attempts EXCEPT ![r] = [attempts[r] EXCEPT ![n] = row]]
  BY DEF Heartbeat
<1> HIDE DEF until
<1>3. row \in AttemptRow /\ row.state = "running" /\ row.token /\ row.lease # 0 /\ Open(row)
  BY <1>0, <1>1 DEF AttemptRow, Open
<1> HIDE DEF row
<1>4. runState[r] = "running"
  BY <1>0, OpenMeansRunning DEF Open
<1>5. UNCHANGED <<now, runState, createdAt, nextReport, outbox, process, delivered, restarts, failures>>
  BY DEF Heartbeat
<1>6. Execute(r, n) \in DOMAIN outbox /\ outbox[Execute(r, n)].state = "acked"
  BY <1>0 DEF IInv, OutboxMatchesAttempts
<1>7. runState' = [runState EXCEPT ![r] = "running"] /\ outbox' \in [DOMAIN outbox -> CommandRow]
      /\ nextReport' \in [Runs -> Nat] /\ Open(attempts[r][n])
  BY <1>0, <1>4, <1>5 DEF IInv, TypeOK, Open
<1>8. RowsOK' /\ DOMAIN outbox' = DOMAIN outbox
  BY <1>0, <1>2, <1>3, <1>5, <1>6, <1>7, RewriteKeepsRows
<1>9. ProcessOK' /\ HeldInOutbox'
  BY <1>5 DEF IInv, TypeOK, ProcessOK, HeldInOutbox, process
<1> QED  BY <1>8, <1>9 DEF IInv, TypeOK, RowsOK, ProcessOK

\* complete: the newest attempt settles the run
LEMMA CompleteKeeps ==
  ASSUME IInv, NEW r \in Runs, NEW n \in DOMAIN attempts[r], NEW ok \in BOOLEAN,
         Complete(r, n, ok)
  PROVE  IInv'
<1> DEFINE row == [attempts[r][n] EXCEPT !.state = "completed", !.token = FALSE, !.lease = 0]
           state == IF ok THEN "completed" ELSE "failed"
<1>0. /\ attempts[r] \in Seq(AttemptRow) /\ n \in 1..Len(attempts[r])
      /\ attempts[r][n] \in AttemptRow /\ attempts[r][n].state = "running"
  BY DEF IInv, TypeOK, Complete, Accepts
<1>1. attempts' = [attempts EXCEPT ![r] = [attempts[r] EXCEPT ![n] = row]]
  BY DEF Complete
<1>2. row \in AttemptRow /\ row.state = "completed" /\ ~row.token /\ row.lease = 0 /\ ~Open(row)
  BY <1>0 DEF AttemptRow, Open
<1>3. UNCHANGED <<now, createdAt, outbox, process, delivered, restarts, failures>>
      /\ runState' = [runState EXCEPT ![r] = state]
      /\ nextReport' = [nextReport EXCEPT ![r] = 0]
  BY DEF Complete
<1>4. Execute(r, n) \in DOMAIN outbox /\ outbox[Execute(r, n)].state = "acked"
  BY <1>0 DEF IInv, OutboxMatchesAttempts
<1>5. state \in {"running", "completed", "failed"} /\ state # "running"
      /\ outbox' \in [DOMAIN outbox -> CommandRow]
      /\ nextReport' \in [Runs -> Nat] /\ Open(attempts[r][n])
  BY <1>0, <1>3 DEF IInv, TypeOK, Open
<1> HIDE DEF row, state
<1>6. RowsOK' /\ DOMAIN outbox' = DOMAIN outbox
  BY <1>0, <1>1, <1>2, <1>3, <1>4, <1>5, RewriteKeepsRows
<1>7. ProcessOK' /\ HeldInOutbox'
  BY <1>3, <1>5 DEF IInv, TypeOK, ProcessOK, HeldInOutbox, process
<1> QED  BY <1>6, <1>7 DEF IInv, TypeOK, RowsOK, ProcessOK

\* acknowledgeCommand: the command and its attempt leave the queue together
LEMMA AcknowledgeKeeps == ASSUME IInv, NEW p \in Pumps, Acknowledge(p) PROVE IInv'
<1>1. PICK c \in held[p] :
          IF outbox[c].state # "dispatching"
          THEN UNCHANGED <<outbox, attempts>>
          ELSE /\ outbox' = [outbox EXCEPT ![c].state = "acked"]
               /\ attempts' =
                    IF c.kind = "execute" /\ attempts[c.run][c.no].state = "queued"
                    THEN [attempts EXCEPT ![c.run][c.no] = Leased(attempts[c.run][c.no])]
                    ELSE attempts
  BY DEF Acknowledge
<1>2. UNCHANGED <<now, runState, createdAt, nextReport, timer, wanted, delivered, restarts, failures>>
      /\ pc' = [pc EXCEPT ![p] = "claim"] /\ held' = [held EXCEPT ![p] = {}]
  BY DEF Acknowledge
<1>3. c \in DOMAIN outbox /\ outbox[c] \in CommandRow /\ c \in Command
  BY DEF HeldInOutbox, IInv, TypeOK
<1>4. ProcessOK' /\ (DOMAIN outbox' = DOMAIN outbox => HeldInOutbox')
  BY <1>2 DEF IInv, TypeOK, ProcessOK, HeldInOutbox
<1> SUFFICES RowsOK' /\ DOMAIN outbox' = DOMAIN outbox
  BY <1>4 DEF IInv, TypeOK, RowsOK, ProcessOK
<1>5. CASE outbox[c].state # "dispatching"
  BY <1>1, <1>2, <1>5, SameRows DEF stored
<1>6. CASE outbox[c].state = "dispatching" /\ c.kind # "execute"
  <2>1. outbox' = [outbox EXCEPT ![c].state = "acked"] /\ attempts' = attempts
    BY <1>1, <1>6
  <2>2. DOMAIN outbox' = DOMAIN outbox /\ outbox' \in [DOMAIN outbox -> CommandRow]
        /\ \A d \in DOMAIN outbox : d.kind = "execute" => outbox'[d] = outbox[d]
    BY <1>3, <1>6, <2>1 DEF IInv, TypeOK, CommandRow
  <2>3. OneOpenAttempt'
    BY <1>2, <2>1 DEF IInv, OneOpenAttempt
  <2>4. \A r \in Runs : \A n \in 1..Len(attempts[r]) : Execute(r, n).kind = "execute"
    BY DEF Execute
  <2>5. OutboxMatchesAttempts'
    <3>1. ASSUME NEW r \in Runs, NEW n \in 1..Len(attempts[r])
          PROVE  /\ Execute(r, n) \in DOMAIN outbox'
                 /\ attempts[r][n].state = "queued" <=> outbox'[Execute(r, n)].state # "acked"
      <4>1. /\ Execute(r, n) \in DOMAIN outbox
            /\ attempts[r][n].state = "queued" <=> outbox[Execute(r, n)].state # "acked"
        BY DEF IInv, OutboxMatchesAttempts
      <4> QED  BY <2>2, <2>4, <4>1
    <3>2. \A d \in DOMAIN outbox' : d.kind = "execute" => d.no \in 1..Len(attempts[d.run])
      BY <2>2 DEF IInv, OutboxMatchesAttempts
    <3> QED  BY <2>1, <3>1, <3>2 DEF OutboxMatchesAttempts
  <2> QED  BY <1>2, <2>1, <2>2, <2>3, <2>5 DEF IInv, TypeOK, RowsOK
<1>7. CASE outbox[c].state = "dispatching" /\ c.kind = "execute"
  <2> DEFINE r == c.run
             n == c.no
             until == now + LeaseMs
             row == [attempts[r][n] EXCEPT !.state = "running", !.lease = until, !.retry = 0]
  <2>1. r \in Runs /\ attempts[r] \in Seq(AttemptRow) /\ n \in 1..Len(attempts[r])
        /\ c = Execute(r, n) /\ attempts[r][n] \in AttemptRow
    <3>1. r \in Runs /\ c = Execute(r, n)
      BY <1>3, <1>7 DEF Command, Execute
    <3>2. attempts[r] \in Seq(AttemptRow) /\ n \in 1..Len(attempts[r])
      BY <1>3, <1>7, <3>1 DEF IInv, TypeOK, OutboxMatchesAttempts
    <3> QED  BY <3>1, <3>2
  <2>2. attempts[r][n].state = "queued"
    BY <1>7, <2>1 DEF IInv, OutboxMatchesAttempts
  <2>3. until \in Nat \ {0}
    BY TimingAssumption DEF IInv, TypeOK
  <2>4. attempts[r][n].token
    BY <2>1, <2>2 DEF IInv, OneOpenAttempt, SettledByNewest, Open
  <2>5. outbox' = [outbox EXCEPT ![c].state = "acked"]
        /\ attempts' = [attempts EXCEPT ![r] = [attempts[r] EXCEPT ![n] = row]]
    BY <1>1, <1>7, <2>2 DEF Leased
  <2> HIDE DEF until
  <2>6. row \in AttemptRow /\ row.state = "running" /\ row.token /\ row.lease # 0 /\ Open(row)
    BY <2>1, <2>3, <2>4 DEF AttemptRow, Open
  <2>7. outbox' \in [DOMAIN outbox -> CommandRow]
        /\ (\A d \in DOMAIN outbox \ {c} : outbox'[d] = outbox[d])
        /\ outbox'[c].state = "acked"
    BY <1>3, <2>5 DEF IInv, TypeOK, CommandRow
  <2>8. runState[r] = "running" /\ Open(attempts[r][n])
    BY <2>1, <2>2, OpenMeansRunning DEF Open
  <2>9. runState' = [runState EXCEPT ![r] = "running"] /\ nextReport' \in [Runs -> Nat]
    BY <1>2, <2>1, <2>8 DEF IInv, TypeOK
  <2> HIDE DEF row, r, n
  <2> QED  BY <2>1, <2>5, <2>6, <2>7, <2>8, <2>9, RewriteKeepsRows
<1> QED  BY <1>5, <1>6, <1>7

\* A worker event after the lease times the attempt out and queues its retry.
LEMMA LateWorkerEventKeeps ==
  ASSUME IInv, NEW r \in Runs, NEW n \in DOMAIN attempts[r], LateWorkerEvent(r, n)
  PROVE  IInv'
<1> DEFINE k == Len(attempts[r])
           c0 == Execute(r, k + 1)
           new == TimedOut(attempts[r], {n})
<1>0. /\ attempts[r] \in Seq(AttemptRow) /\ n \in 1..k /\ k \in Nat /\ now \in Nat
      /\ attempts[r][n] \in AttemptRow /\ attempts[r][n].state = "running"
      /\ SettledByNewest(runState[r], attempts[r])
  BY DEF IInv, TypeOK, LateWorkerEvent, Lapsed, OneOpenAttempt
<1>1. runState[r] = "running" /\ n = k
  BY <1>0, OpenMeansRunning DEF Open
<1>2. /\ new \in Seq(AttemptRow) /\ Len(new) = k + 1
      /\ new[k + 1].state = "queued"
      /\ \A i \in 1..k : new[i] = IF i = n THEN [state |-> "timed_out", token |-> FALSE,
                                                lease |-> 0, retry |-> now + RetryDelay(k)]
                                           ELSE attempts[r][i]
  BY <1>0, TimedOutRows
<1>3. SettledByNewest(runState[r], new)
  BY <1>0, <1>1, TimeoutSettles
<1>4. /\ attempts' = [attempts EXCEPT ![r] = new]
      /\ outbox' = [c \in DOMAIN outbox \cup {c0} |-> IF c \in DOMAIN outbox THEN outbox[c]
                                                      ELSE PendingAt(RetryAt(r))]
      /\ UNCHANGED <<now, runState, createdAt, nextReport, process, delivered, restarts, failures>>
  BY DEF LateWorkerEvent, Inserted, RetryCommand
<1>5. c0 \in Command /\ c0.kind = "execute" /\ c0.run = r /\ c0.no = k + 1
  BY <1>0 DEF Execute, Command
<1>6. c0 \notin DOMAIN outbox
  BY <1>0, <1>5 DEF IInv, OutboxMatchesAttempts
<1> HIDE DEF new, c0, k
<1>7. PendingAt(RetryAt(r)) \in CommandRow /\ PendingAt(RetryAt(r)).state = "pending"
  <2>1. RetryDelay(k) \in Nat
    BY <1>0, RetryDelayPositive
  <2>2. RetryAt(r) \in Nat
    BY <1>0, <2>1 DEF RetryAt, k
  <2> QED  BY <2>2 DEF PendingAt, CommandRow
<1>8. /\ DOMAIN outbox' = DOMAIN outbox \cup {c0} /\ DOMAIN outbox' \subseteq Command
      /\ outbox' \in [DOMAIN outbox' -> CommandRow]
      /\ outbox'[c0].state = "pending"
      /\ \A c \in DOMAIN outbox : outbox'[c] = outbox[c]
  <2>1. \A c \in DOMAIN outbox : outbox[c] \in CommandRow /\ c \in Command
    BY DEF IInv, TypeOK
  <2> QED  BY <1>4, <1>5, <1>6, <1>7, <2>1
<1>9. /\ attempts' \in [Runs -> Seq(AttemptRow)] /\ attempts'[r] = new
      /\ \A s \in Runs \ {r} : attempts'[s] = attempts[s]
  BY <1>2, <1>4 DEF IInv, TypeOK
<1>10. OneOpenAttempt'
  BY <1>3, <1>4, <1>9 DEF IInv, OneOpenAttempt
<1>11. OutboxMatchesAttempts'
  <2>1. ASSUME NEW s \in Runs, NEW i \in 1..Len(attempts'[s])
        PROVE  /\ Execute(s, i) \in DOMAIN outbox'
               /\ attempts'[s][i].state = "queued" <=> outbox'[Execute(s, i)].state # "acked"
    <3>1. CASE s = r /\ i = k + 1
      BY <1>2, <1>8, <1>9, <3>1 DEF c0
    <3>2. CASE s # r
      BY <1>8, <1>9, <3>2 DEF IInv, OutboxMatchesAttempts
    <3>3. CASE s = r /\ i # k + 1
      <4>1. i \in 1..k
        BY <1>0, <1>2, <1>9, <3>3
      <4>2. /\ Execute(r, i) \in DOMAIN outbox
            /\ attempts[r][i].state = "queued" <=> outbox[Execute(r, i)].state # "acked"
        BY <4>1 DEF IInv, OutboxMatchesAttempts, k
      <4>3. new[i].state = "queued" <=> attempts[r][i].state = "queued"
        BY <1>0, <1>2, <4>1
      <4> QED  BY <1>8, <1>9, <3>3, <4>2, <4>3
    <3> QED  BY <3>1, <3>2, <3>3
  <2>2. ASSUME NEW c \in DOMAIN outbox', c.kind = "execute"
        PROVE  c.no \in 1..Len(attempts'[c.run])
    <3>1. CASE c = c0
      <4>1. Len(attempts'[c.run]) = k + 1 /\ c.no = k + 1
        BY <1>2, <1>5, <1>9, <3>1
      <4> QED  BY <1>0, <4>1
    <3>2. CASE c \in DOMAIN outbox
      <4>1. c.no \in 1..Len(attempts[c.run]) /\ c.run \in Runs
        BY <2>2, <3>2 DEF IInv, OutboxMatchesAttempts, TypeOK, Command
      <4>2. CASE c.run = r
        <5>1. Len(attempts'[c.run]) = k + 1 /\ c.no \in 1..k
          BY <1>2, <1>9, <4>1, <4>2 DEF k
        <5> QED  BY <1>0, <5>1
      <4>3. CASE c.run # r
        BY <1>9, <4>1, <4>3
      <4> QED  BY <4>2, <4>3
    <3> QED  BY <1>8, <3>1, <3>2
  <2> QED  BY <2>1, <2>2 DEF OutboxMatchesAttempts
<1>12. ProcessOK' /\ HeldInOutbox' /\ nextReport' \in [Runs -> Nat]
  BY <1>4, <1>8 DEF IInv, TypeOK, ProcessOK, HeldInOutbox, process
<1> QED  BY <1>8, <1>9, <1>10, <1>11, <1>12 DEF IInv, TypeOK, ProcessOK

\* Steps that touch no row.
LEMMA ProcessStepKeeps ==
  ASSUME IInv,
         \/ Tick \/ Stop \/ TimerFires \/ Crash \/ UNCHANGED vars
         \/ \E p \in Pumps : PumpEnds(p) \/ Deliver(p) \/ DeferFails(p)
  PROVE  IInv'
<1>1. UNCHANGED stored
  BY DEF Tick, Stop, TimerFires, Crash, PumpEnds, Deliver, DeferFails, vars
<1>2. RowsOK' /\ DOMAIN outbox = DOMAIN outbox'
  BY <1>1, SameRows
<1>3. runState' = runState /\ createdAt' = createdAt
  BY <1>1 DEF stored
<1> SUFFICES ProcessOK' /\ HeldInOutbox'
  BY <1>2 DEF IInv, TypeOK, RowsOK, ProcessOK
<1> USE <1>2, <1>3 DEF IInv, TypeOK, ProcessOK, HeldInOutbox
<1>4. CASE Tick
  BY <1>4 DEF Tick, process
<1>5. CASE Stop
  <2>1. restarts' \in Nat
    BY <1>5 DEF Stop
  <2>2. UNCHANGED <<now, pc, held, delivered, failures>> /\ timer' = FALSE /\ wanted' = FALSE
    BY <1>5 DEF Stop
  <2> QED  BY <2>1, <2>2
<1>6. CASE TimerFires
  BY <1>6 DEF TimerFires
<1>7. CASE Crash
  <2>1. restarts' \in Nat
    BY <1>7 DEF Crash
  <2>2. /\ UNCHANGED <<now, delivered, failures>> /\ timer' = FALSE /\ wanted' = FALSE
        /\ pc' = [p \in Pumps |-> "idle"] /\ held' = [p \in Pumps |-> {}]
    BY <1>7 DEF Crash
  <2> QED  BY <2>1, <2>2
<1>8. CASE UNCHANGED vars
  <2> USE <1>8 DEF vars, process, stored
  <2>1. ProcessOK'
    BY Zenon
  <2>2. HeldInOutbox'
    BY Zenon
  <2> QED  BY <2>1, <2>2
<1>9. ASSUME NEW p \in Pumps, PumpEnds(p) PROVE ProcessOK' /\ HeldInOutbox'
  BY <1>9 DEF PumpEnds
<1>10. ASSUME NEW p \in Pumps, Deliver(p) PROVE ProcessOK' /\ HeldInOutbox'
  BY <1>10 DEF Deliver, process, Executes
<1>11. ASSUME NEW p \in Pumps, DeferFails(p) PROVE ProcessOK' /\ HeldInOutbox'
  BY <1>11 DEF DeferFails
<1> QED  BY <1>4, <1>5, <1>6, <1>7, <1>8, <1>9, <1>10, <1>11

-----------------------------------------------------------------------------
\* Every step of the supervisor keeps the inductive invariant.
LEMMA NextKeepsIInv == IInv /\ [Next]_vars => IInv'
<1> SUFFICES ASSUME IInv, [Next]_vars PROVE IInv'
  OBVIOUS
<1>1. ASSUME NEW r \in Runs, StartRun(r) PROVE IInv'
  BY <1>1, StartRunKeeps
<1>2. ASSUME NEW p \in Starters, Start(p) PROVE IInv'
  BY <1>2, StartKeeps
<1>3. ASSUME NEW p \in Pumps, PumpStep(p) PROVE IInv'
  BY <1>3, AdvanceKeeps, ClaimKeeps, AcknowledgeKeeps, DeferKeeps, ProcessStepKeeps DEF PumpStep
<1>4. ASSUME NEW r \in Runs, NEW n \in DOMAIN attempts[r], WorkerStep(r, n) PROVE IInv'
  BY <1>4, HeartbeatKeeps, CompleteKeeps, LateWorkerEventKeeps DEF WorkerStep
<1>5. CASE Tick \/ Stop \/ TimerFires \/ Crash \/ UNCHANGED vars
  BY <1>5, ProcessStepKeeps
<1> QED  BY <1>1, <1>2, <1>3, <1>4, <1>5 DEF Next

\* The inductive invariant holds in every behaviour.
LEMMA SpecIInv == Spec => []IInv
BY InitIInv, NextKeepsIInv, PTL DEF Spec

\* The rows of the store have their column types in every reachable state.
THEOREM TypeCorrect == Spec => []TypeOK
<1>1. IInv => TypeOK
  BY DEF IInv
<1> QED  BY <1>1, SpecIInv, PTL

\* No run ever has two open attempts, whatever pumps, restarts, late workers and
\* failing store calls do: at most one worker can hold a usable lease for it.
THEOREM OneOpenAttemptAlways == Spec => []OneOpenAttempt
<1>1. IInv => OneOpenAttempt
  BY DEF IInv
<1> QED  BY <1>1, SpecIInv, PTL

\* No attempt is ever queued without an unacknowledged command to start it, and
\* no started attempt has a command that could start it again.
THEOREM OutboxMatchesAlways == Spec => []OutboxMatchesAttempts
<1>1. IInv => OutboxMatchesAttempts
  BY DEF IInv
<1> QED  BY <1>1, SpecIInv, PTL

\* Every run has one open attempt and every attempt its command.
THEOREM AttemptsAlwaysMatch == Spec => []AttemptsMatchOutbox
<1>1. OneOpenAttempt /\ OutboxMatchesAttempts => AttemptsMatchOutbox
  BY DEF AttemptsMatchOutbox
<1> QED
  BY <1>1, OneOpenAttemptAlways, OutboxMatchesAlways, PTL

-----------------------------------------------------------------------------
\* A step that settles no run, and times out only what has lapsed.
LapseOnly ==
    /\ runState' = runState
    /\ \A r \in Runs : \A n \in DOMAIN attempts[r] :
          attempts[r][n].state = "running" /\ attempts'[r][n].state = "timed_out"
              => attempts[r][n].lease <= now

\* Such a step honours the leases.
LEMMA LapseOnlyHonours == LapseOnly => LeaseStep
BY DEF LapseOnly, LeaseStep

\* A step that changes neither runs nor attempts is one.
LEMMA SameAttempts == UNCHANGED <<runState, attempts>> => LapseOnly
BY DEF LapseOnly

\* An outbox to which commands are added keeps what it holds.
LEMMA InsertedKeeps ==
  ASSUME NEW ob, DOMAIN ob = DOMAIN outbox, NEW cmds, NEW At(_), outbox' = Inserted(ob, cmds, At),
         \A c \in DOMAIN outbox : outbox[c].state = "acked" => ob[c] = outbox[c]
  PROVE  AckStep
BY DEF Inserted, AckStep

\* So does one of which a command is rewritten that is not acknowledged.
LEMMA RewrittenKeeps ==
  ASSUME NEW c \in DOMAIN outbox, NEW row, outbox[c].state # "acked",
         outbox' = [outbox EXCEPT ![c] = row]
  PROVE  AckStep
BY DEF AckStep

\* An outbox that stays the same does too.
LEMMA SameOutbox == UNCHANGED outbox => AckStep
BY DEF AckStep

\* advanceTime() times out lapsed attempts only.
LEMMA AdvanceLapses ==
  ASSUME IInv, NEW ob, AdvanceTime(ob) PROVE LapseOnly
<1> SUFFICES ASSUME NEW r \in Runs, NEW n \in DOMAIN attempts[r],
                    attempts[r][n].state = "running", attempts'[r][n].state = "timed_out"
             PROVE  attempts[r][n].lease <= now
  BY DEF LapseOnly, AdvanceTime
<1>1. attempts[r] \in Seq(AttemptRow) /\ n \in 1..Len(attempts[r]) /\ now \in Nat
  BY DEF IInv, TypeOK
<1>2. CASE r \notin LapsedRuns
  BY <1>2 DEF AdvanceTime
<1>3. CASE r \in LapsedRuns
  <2>1. attempts'[r] = TimedOut(attempts[r], Lapsed(r))
    BY <1>3 DEF AdvanceTime
  <2>2. n \notin Lapsed(r) => TimedOut(attempts[r], Lapsed(r))[n] = attempts[r][n]
    <3>1. \A i \in 1..Len(attempts[r]) :
            TimedOut(attempts[r], Lapsed(r))[i] =
              IF i \in Lapsed(r) THEN [state |-> "timed_out", token |-> FALSE, lease |-> 0,
                                       retry |-> now + RetryDelay(Len(attempts[r]))]
                                 ELSE attempts[r][i]
      BY <1>1, TimedOutRows
    <3> QED  BY <1>1, <3>1
  <2>3. n \in Lapsed(r)
    BY <2>1, <2>2
  <2> QED  BY <2>3 DEF Lapsed
<1> QED  BY <1>2, <1>3

\* startRun: a new run has no attempt yet.
LEMMA StartRunSettles == ASSUME IInv, NEW r \in Runs, StartRun(r) PROVE LeaseStep /\ AckStep
<1>1. attempts[r] = <<>> /\ DOMAIN attempts[r] = {} /\ runState[r] = "none"
  BY DEF IInv, OneOpenAttempt, SettledByNewest, StartRun
<1>2. \A s \in Runs \ {r} : runState'[s] = runState[s] /\ attempts'[s] = attempts[s]
  BY DEF StartRun, IInv, TypeOK
<1>3. LeaseStep
  BY <1>1, <1>2 DEF LeaseStep
<1>4. outbox' = Inserted(outbox, {Execute(r, 1)}, LAMBDA c : now)
  BY DEF StartRun
<1>5. AckStep
  BY <1>4, InsertedKeeps
<1> QED  BY <1>3, <1>5

\* start() and a pump that advances the time
LEMMA ClockSettles ==
  ASSUME IInv, (\E p \in Starters : Start(p)) \/ (\E p \in Pumps : Advance(p))
  PROVE  LeaseStep /\ AckStep
<1>1. CASE \E p \in Starters : Start(p)
  <2>1. AdvanceTime(Requeued)
    BY <1>1 DEF Start
  <2>2. /\ DOMAIN Requeued = DOMAIN outbox
        /\ \A c \in DOMAIN outbox : outbox[c].state = "acked" => Requeued[c] = outbox[c]
    BY DEF Requeued
  <2>3. outbox' = Inserted(Requeued, Raised, AvailableAt)
    BY <2>1 DEF AdvanceTime
  <2>4. AckStep
    BY <2>2, <2>3, InsertedKeeps
  <2> QED  BY <2>1, <2>4, AdvanceLapses, LapseOnlyHonours
<1>2. CASE \E p \in Pumps : Advance(p)
  <2>1. AdvanceTime(outbox)
    BY <1>2 DEF Advance
  <2>2. outbox' = Inserted(outbox, Raised, AvailableAt)
    BY <2>1 DEF AdvanceTime
  <2>3. AckStep
    BY <2>2, InsertedKeeps
  <2> QED  BY <2>1, <2>3, AdvanceLapses, LapseOnlyHonours
<1> QED  BY <1>1, <1>2

\* A dispatch begins with a pending command and ends with a dispatching one.
LEMMA DispatchSettles ==
  ASSUME IInv, NEW p \in Pumps, Claim(p) \/ Defer(p) \/ Acknowledge(p)
  PROVE  LeaseStep /\ AckStep
<1>0. held[p] \subseteq DOMAIN outbox
  BY DEF IInv, HeldInOutbox
<1>1. CASE Claim(p)
  <2>1. PICK c \in Due : outbox' = [outbox EXCEPT ![c] = Dispatching(outbox[c])]
    BY <1>1 DEF Claim
  <2>2. c \in DOMAIN outbox /\ outbox[c].state # "acked"
    BY DEF Due
  <2>3. UNCHANGED <<runState, attempts>>
    BY <1>1 DEF Claim
  <2> QED  BY <2>1, <2>2, <2>3, RewrittenKeeps, SameAttempts, LapseOnlyHonours
<1>2. CASE Defer(p)
  <2>1. PICK c \in held[p] : IF outbox[c].state # "dispatching"
                             THEN UNCHANGED outbox
                             ELSE outbox' = [outbox EXCEPT ![c] = Deferred(outbox[c])]
    BY <1>2 DEF Defer
  <2>2. UNCHANGED <<runState, attempts>>
    BY <1>2 DEF Defer
  <2>3. AckStep
    <3>1. CASE outbox[c].state # "dispatching"
      BY <2>1, <3>1, SameOutbox
    <3>2. CASE outbox[c].state = "dispatching"
      BY <1>0, <2>1, <3>2, RewrittenKeeps
    <3> QED  BY <3>1, <3>2
  <2> QED  BY <2>2, <2>3, SameAttempts, LapseOnlyHonours
<1>3. CASE Acknowledge(p)
  <2>1. PICK c \in held[p] :
          IF outbox[c].state # "dispatching"
          THEN UNCHANGED <<outbox, attempts>>
          ELSE /\ outbox' = [outbox EXCEPT ![c].state = "acked"]
               /\ attempts' =
                    IF c.kind = "execute" /\ attempts[c.run][c.no].state = "queued"
                    THEN [attempts EXCEPT ![c.run][c.no] = Leased(attempts[c.run][c.no])]
                    ELSE attempts
    BY <1>3 DEF Acknowledge
  <2>2. runState' = runState
    BY <1>3 DEF Acknowledge
  <2>3. AckStep
    <3>1. CASE outbox[c].state # "dispatching"
      BY <2>1, <3>1, SameOutbox
    <3>2. CASE outbox[c].state = "dispatching"
      <4> DEFINE row == [outbox[c] EXCEPT !.state = "acked"]
      <4>1. outbox' = [outbox EXCEPT ![c] = row]
        BY <2>1, <3>2
      <4> HIDE DEF row
      <4> QED  BY <1>0, <3>2, <4>1, RewrittenKeeps
    <3> QED  BY <3>1, <3>2
  <2>4. LapseOnly
    <3>1. CASE attempts' = attempts
      BY <2>2, <3>1, SameAttempts
    <3>2. CASE attempts' # attempts
      <4> DEFINE row == Leased(attempts[c.run][c.no])
      <4>1. /\ attempts[c.run][c.no].state = "queued"
            /\ attempts' = [attempts EXCEPT ![c.run] = [attempts[c.run] EXCEPT ![c.no] = row]]
        BY <2>1, <3>2
      <4> HIDE DEF row
      <4>2. \A r \in Runs : \A n \in DOMAIN attempts[r] :
                attempts[r][n].state = "running" => attempts'[r][n] = attempts[r][n]
        BY <4>1 DEF IInv, TypeOK
      <4> QED  BY <2>2, <4>2 DEF LapseOnly
    <3> QED  BY <3>1, <3>2
  <2> QED  BY <2>3, <2>4, LapseOnlyHonours
<1> QED  BY <1>1, <1>2, <1>3

\* A worker's event settles the run of the newest attempt under a running lease,
\* or comes after it.
LEMMA WorkerSettles ==
  ASSUME IInv, NEW r \in Runs, NEW n \in DOMAIN attempts[r], WorkerStep(r, n)
  PROVE  LeaseStep /\ AckStep
<1>0. /\ attempts \in [Runs -> Seq(AttemptRow)] /\ attempts[r] \in Seq(AttemptRow)
      /\ n \in 1..Len(attempts[r]) /\ now \in Nat
      /\ runState \in [Runs -> {"none", "running", "completed", "failed"}]
  BY DEF IInv, TypeOK
<1>1. CASE Heartbeat(r, n)
  <2> DEFINE row == [attempts[r][n] EXCEPT !.lease = now + LeaseMs]
  <2>1. /\ attempts' = [attempts EXCEPT ![r] = [attempts[r] EXCEPT ![n] = row]]
        /\ runState' = runState /\ outbox' = outbox
    BY <1>1 DEF Heartbeat
  <2>2. row.state = "running"
    BY <1>0, <1>1 DEF Heartbeat, Accepts, AttemptRow
  <2> HIDE DEF row
  <2>3. \A s \in Runs : \A i \in DOMAIN attempts[s] :
            attempts'[s][i] = attempts[s][i] \/ attempts'[s][i] = row
    BY <1>0, <2>1
  <2>4. LapseOnly
    BY <2>1, <2>2, <2>3 DEF LapseOnly
  <2> QED  BY <2>1, <2>4, SameOutbox, LapseOnlyHonours
<1>2. ASSUME NEW ok \in BOOLEAN, Complete(r, n, ok) PROVE LeaseStep /\ AckStep
  <2> DEFINE row == [attempts[r][n] EXCEPT !.state = "completed", !.token = FALSE, !.lease = 0]
             state == IF ok THEN "completed" ELSE "failed"
  <2>1. /\ attempts' = [attempts EXCEPT ![r] = [attempts[r] EXCEPT ![n] = row]]
        /\ runState' = [runState EXCEPT ![r] = state] /\ outbox' = outbox
    BY <1>2 DEF Complete
  <2>2. row.state = "completed"
    BY <1>0 DEF AttemptRow
  <2> HIDE DEF row, state
  <2>3. attempts[r][n].state = "running" /\ attempts[r][n].lease > now
    BY <1>2 DEF Complete, Accepts
  <2>4. runState[r] = "running" /\ n = Len(attempts[r])
    BY <1>0, <2>3, OpenMeansRunning DEF Open
  <2>5. \A s \in Runs : \A i \in DOMAIN attempts[s] :
            attempts'[s][i] = attempts[s][i] \/ attempts'[s][i] = row
    BY <1>0, <2>1
  <2>6. \A s \in Runs \ {r} : runState'[s] = runState[s]
    BY <1>0, <2>1
  <2>7. LeaseStep
    BY <2>2, <2>3, <2>4, <2>5, <2>6 DEF LeaseStep
  <2> QED  BY <2>1, <2>7, SameOutbox
<1>3. CASE LateWorkerEvent(r, n)
  <2>1. /\ attempts' = [attempts EXCEPT ![r] = TimedOut(attempts[r], {n})]
        /\ n \in Lapsed(r) /\ runState' = runState
        /\ outbox' = Inserted(outbox, {RetryCommand(r)}, LAMBDA c : RetryAt(r))
    BY <1>3 DEF LateWorkerEvent
  <2>2. \A i \in 1..Len(attempts[r]) : i # n => TimedOut(attempts[r], {n})[i] = attempts[r][i]
    <3>1. \A i \in 1..Len(attempts[r]) :
            TimedOut(attempts[r], {n})[i] =
              IF i \in {n} THEN [state |-> "timed_out", token |-> FALSE, lease |-> 0,
                                 retry |-> now + RetryDelay(Len(attempts[r]))]
                           ELSE attempts[r][i]
      BY <1>0, TimedOutRows
    <3> QED  BY <3>1
  <2>3. \A s \in Runs : \A i \in DOMAIN attempts[s] :
            attempts'[s][i] = attempts[s][i] \/ (s = r /\ i = n)
    <3> DEFINE new == TimedOut(attempts[r], {n})
    <3>1. attempts'[r] = new /\ \A s \in Runs \ {r} : attempts'[s] = attempts[s]
      BY <1>0, <2>1
    <3> QED  BY <1>0, <2>2, <3>1
  <2>4. attempts[r][n].lease <= now
    BY <2>1 DEF Lapsed
  <2>5. LapseOnly
    BY <2>1, <2>3, <2>4 DEF LapseOnly
  <2>6. AckStep
    BY <2>1, InsertedKeeps
  <2> QED  BY <2>5, <2>6, LapseOnlyHonours
<1> QED  BY <1>1, <1>2, <1>3 DEF WorkerStep

\* Every step honours the leases and keeps what is acknowledged.
LEMMA NextSettles == IInv /\ [Next]_vars => [LeaseStep]_vars /\ [AckStep]_vars
<1> SUFFICES ASSUME IInv, Next PROVE LeaseStep /\ AckStep
  OBVIOUS
<1>1. ASSUME UNCHANGED <<runState, attempts, outbox>> PROVE LeaseStep /\ AckStep
  BY <1>1, SameAttempts, SameOutbox, LapseOnlyHonours
<1>2. CASE Tick \/ Stop \/ TimerFires \/ Crash
  BY <1>1, <1>2 DEF Tick, Stop, TimerFires, Crash, stored
<1>3. ASSUME NEW p \in Pumps, PumpStep(p) PROVE LeaseStep /\ AckStep
  <2>1. CASE PumpEnds(p) \/ Deliver(p) \/ DeferFails(p)
    BY <1>1, <2>1 DEF PumpEnds, Deliver, DeferFails, stored
  <2> QED  BY <1>3, <2>1, ClockSettles, DispatchSettles DEF PumpStep
<1> QED  BY <1>2, <1>3, StartRunSettles, ClockSettles, WorkerSettles DEF Next

\* A run settles once, under a lease that still runs, and no acknowledged command
\* is ever dispatched again, whatever pumps, restarts and late workers do.
THEOREM SettlementsHold == Spec => SettlementHolds
<1>1. Spec => [][LeaseStep]_vars /\ [][AckStep]_vars
  BY SpecIInv, NextSettles, PTL DEF Spec
<1> QED  BY <1>1 DEF SettlementHolds, LeaseHonoured, AckIsFinal

-----------------------------------------------------------------------------
(* Backoffs and report boundaries *)

\* The command of a retry still waits for its backoff, or the backoff has passed.
Waits(r, n) ==
    LET row == outbox[Execute(r, n)]
    IN  row.state = "pending" /\ row.tries = 0 /\ row.avail >= attempts[r][n - 1].retry
Passed(r, n) == now >= attempts[r][n - 1].retry
BackedOff == \A r \in Runs : \A n \in 2..Len(attempts[r]) : Waits(r, n) \/ Passed(r, n)

\* What a step may do to rows that matter here: a superseded attempt stands, ...
SupersededStand ==
    \A r \in Runs : \A n \in 1..(Len(attempts[r]) - 1) :
        n \in DOMAIN attempts'[r] /\ attempts'[r][n] = attempts[r][n]

\* ... a new attempt comes alone, its command due when the backoff of the last has passed,
Replaced(r) ==
    LET last == Len(attempts[r])
    IN  /\ Len(attempts'[r]) = last + 1
        /\ last > 0 => outbox'[Execute(r, last + 1)] = PendingAt(attempts'[r][last].retry)
OneReplaced == \A r \in Runs : Len(attempts'[r]) > Len(attempts[r]) => Replaced(r)

\* ... and a pending command that is not due stays as it is.
UndueStand ==
    \A c \in DOMAIN outbox :
        outbox'[c] = outbox[c] \/ outbox[c].state # "pending" \/ outbox[c].avail <= now

BackoffStep == SupersededStand /\ OneReplaced /\ UndueStand /\ now' \in Nat /\ now' >= now

\* A step that does no more respects every backoff.
LEMMA BackoffStepKeeps == IInv /\ BackedOff /\ BackoffStep /\ IInv' => BackedOff'
<1> SUFFICES ASSUME IInv, BackedOff, BackoffStep, IInv', NEW r \in Runs,
                    NEW n \in 2..Len(attempts'[r])
             PROVE  Waits(r, n)' \/ Passed(r, n)'
  BY DEF BackedOff
<1>1. /\ Len(attempts[r]) \in Nat /\ Len(attempts'[r]) \in Nat
      /\ attempts[r] \in Seq(AttemptRow) /\ attempts'[r] \in Seq(AttemptRow)
      /\ now \in Nat /\ now' \in Nat /\ now' >= now
  BY DEF IInv, TypeOK, BackoffStep
<1>2. CASE n <= Len(attempts[r])
  <2>1. /\ n - 1 \in 1..(Len(attempts[r]) - 1)
        /\ attempts'[r][n - 1] = attempts[r][n - 1]
    BY <1>1, <1>2 DEF BackoffStep, SupersededStand
  <2>2. attempts[r][n - 1].retry \in Nat
    <3>1. attempts[r][n - 1] \in AttemptRow
      BY <1>1, <2>1
    <3> QED  BY <3>1 DEF AttemptRow
  <2>3. Waits(r, n) \/ Passed(r, n)
    BY <1>1, <1>2 DEF BackedOff
  <2>4. CASE Passed(r, n)
    BY <1>1, <2>1, <2>2, <2>4 DEF Passed
  <2>5. CASE Waits(r, n)
    <3>1. Execute(r, n) \in DOMAIN outbox /\ outbox[Execute(r, n)] \in CommandRow
      BY <1>1, <1>2 DEF IInv, TypeOK, OutboxMatchesAttempts
    <3>2. /\ outbox[Execute(r, n)].state = "pending"
          /\ outbox[Execute(r, n)].tries = 0
          /\ outbox[Execute(r, n)].avail >= attempts[r][n - 1].retry
          /\ outbox[Execute(r, n)].avail \in Nat
      BY <2>5, <3>1 DEF Waits, CommandRow
    <3>3. outbox'[Execute(r, n)] = outbox[Execute(r, n)] \/ outbox[Execute(r, n)].avail <= now
      BY <3>1, <3>2 DEF BackoffStep, UndueStand
    <3>4. CASE outbox'[Execute(r, n)] = outbox[Execute(r, n)]
      <4>1. Execute(r, n)' = Execute(r, n)
        BY DEF Execute
      <4>2. Waits(r, n)'
        BY <2>1, <3>2, <3>4, <4>1 DEF Waits
      <4> QED  BY <4>2
    <3>5. CASE outbox[Execute(r, n)].avail <= now
      BY <1>1, <2>1, <2>2, <3>2, <3>5 DEF Passed
    <3> QED  BY <3>3, <3>4, <3>5
  <2> QED  BY <2>3, <2>4, <2>5
<1>3. CASE n > Len(attempts[r])
  <2>1. Replaced(r)
    BY <1>1, <1>3 DEF BackoffStep, OneReplaced
  <2>2. n = Len(attempts[r]) + 1 /\ Len(attempts[r]) > 0 /\ n - 1 = Len(attempts[r])
    BY <1>1, <1>3, <2>1 DEF Replaced
  <2>3. outbox'[Execute(r, n)] = PendingAt(attempts'[r][n - 1].retry)
    BY <2>1, <2>2 DEF Replaced
  <2>4. attempts'[r][n - 1].retry \in Nat
    <3>1. attempts'[r][n - 1] \in AttemptRow
      BY <1>1, <2>2
    <3> QED  BY <3>1 DEF AttemptRow
  <2>5. Waits(r, n)'
    BY <2>3, <2>4 DEF Waits, PendingAt, Execute
  <2> QED  BY <2>5
<1> QED  BY <1>1, <1>2, <1>3

\* Timing out the newest attempt of a run replaces it and touches no older one.
LEMMA TimeoutReplaces ==
  ASSUME IInv, NEW r \in Runs, NEW ns, ns # {}, ns \subseteq Lapsed(r),
         runState[r] # "none", attempts'[r] = TimedOut(attempts[r], ns),
         outbox'[RetryCommand(r)] = PendingAt(RetryAt(r))
  PROVE  /\ \A n \in 1..(Len(attempts[r]) - 1) :
               n \in DOMAIN attempts'[r] /\ attempts'[r][n] = attempts[r][n]
         /\ Replaced(r)
<1> DEFINE new == TimedOut(attempts[r], ns)
           last == Len(attempts[r])
<1>1. /\ attempts[r] \in Seq(AttemptRow) /\ now \in Nat /\ last \in Nat
      /\ SettledByNewest(runState[r], attempts[r])
      /\ runState[r] \in {"running", "completed", "failed"}
  BY DEF IInv, TypeOK, OneOpenAttempt
<1>2. ns \subseteq {n \in 1..last : attempts[r][n].state = "running"}
  BY <1>1 DEF Lapsed
<1>3. ns = {last}
  BY <1>1, <1>2, TimeoutSettles
<1>4. /\ Len(new) = last + 1 /\ new \in Seq(AttemptRow)
      /\ \A n \in 1..last :
            new[n] = IF n \in ns THEN [state |-> "timed_out", token |-> FALSE, lease |-> 0,
                                       retry |-> now + RetryDelay(last)]
                                 ELSE attempts[r][n]
  BY <1>1, TimedOutRows
<1> HIDE DEF new
<1>5. last > 0 /\ last \in 1..last
  BY <1>1, <1>2, <1>3
<1>6. new[last].retry = RetryAt(r)
  BY <1>3, <1>4, <1>5 DEF RetryAt
<1>7. attempts'[r] = new
  BY DEF new
<1>8. \A n \in 1..(last - 1) : n \in DOMAIN new /\ new[n] = attempts[r][n]
  BY <1>1, <1>3, <1>4
<1>9. Replaced(r)
  BY <1>4, <1>6, <1>7 DEF Replaced, RetryCommand
<1> QED  BY <1>7, <1>8, <1>9

\* advanceTime() replaces what has lapsed.
LEMMA AdvanceBacksOff ==
  ASSUME IInv, NEW ob, DOMAIN ob = DOMAIN outbox, AdvanceTime(ob)
  PROVE  SupersededStand /\ OneReplaced
<1>1. ASSUME NEW r \in LapsedRuns
      PROVE  /\ \A n \in 1..(Len(attempts[r]) - 1) :
                  n \in DOMAIN attempts'[r] /\ attempts'[r][n] = attempts[r][n]
             /\ Replaced(r)
  <2>1. r \in Runs /\ runState[r] # "none" /\ Lapsed(r) # {}
        /\ attempts'[r] = TimedOut(attempts[r], Lapsed(r))
    BY DEF LapsedRuns, AdvanceTime
  <2>2. RetryCommand(r) \in Raised /\ AvailableAt(RetryCommand(r)) = RetryAt(r)
    BY DEF Raised, AvailableAt, RetryCommand, Execute
  <2>3. RetryCommand(r) \notin DOMAIN outbox
    <3>1. RetryCommand(r).kind = "execute" /\ RetryCommand(r).run = r
          /\ RetryCommand(r).no = Len(attempts[r]) + 1
      BY DEF RetryCommand, Execute
    <3>2. Len(attempts[r]) \in Nat
      BY <2>1 DEF IInv, TypeOK
    <3> QED  BY <3>1, <3>2 DEF IInv, OutboxMatchesAttempts
  <2>4. outbox'[RetryCommand(r)] = PendingAt(RetryAt(r))
    BY <2>2, <2>3 DEF AdvanceTime, Inserted
  <2> QED  BY <2>1, <2>4, TimeoutReplaces
<1>2. \A r \in Runs \ LapsedRuns : attempts'[r] = attempts[r]
  BY DEF AdvanceTime
<1>3. SupersededStand
  <2> SUFFICES ASSUME NEW r \in Runs, NEW n \in 1..(Len(attempts[r]) - 1)
               PROVE  n \in DOMAIN attempts'[r] /\ attempts'[r][n] = attempts[r][n]
    BY DEF SupersededStand
  <2>1. attempts[r] \in Seq(AttemptRow)
    BY DEF IInv, TypeOK
  <2> QED  BY <1>1, <1>2, <2>1
<1>4. OneReplaced
  <2> SUFFICES ASSUME NEW r \in Runs, Len(attempts'[r]) > Len(attempts[r]) PROVE Replaced(r)
    BY DEF OneReplaced
  <2>1. Len(attempts[r]) \in Nat
    BY DEF IInv, TypeOK
  <2> QED  BY <1>1, <1>2, <2>1
<1> QED  BY <1>3, <1>4

\* A step that leaves the attempts as they are supersedes and replaces none.
LEMMA SameAttemptsStand ==
  ASSUME IInv, attempts' = attempts PROVE SupersededStand /\ OneReplaced
<1>1. \A r \in Runs : attempts[r] \in Seq(AttemptRow) /\ Len(attempts[r]) \in Nat
  BY DEF IInv, TypeOK
<1> QED  BY <1>1 DEF SupersededStand, OneReplaced

\* Nor does one that rewrites the newest attempt of a run.
LEMMA NewestRewritten ==
  ASSUME IInv, NEW r \in Runs, NEW row,
         attempts' = [attempts EXCEPT ![r] = [attempts[r] EXCEPT ![Len(attempts[r])] = row]]
  PROVE  SupersededStand /\ OneReplaced
<1>1. \A s \in Runs : attempts[s] \in Seq(AttemptRow) /\ Len(attempts[s]) \in Nat
  BY DEF IInv, TypeOK
<1>2. \A s \in Runs \ {r} : attempts'[s] = attempts[s]
  BY DEF IInv, TypeOK
<1>3. attempts'[r] = [attempts[r] EXCEPT ![Len(attempts[r])] = row]
  BY DEF IInv, TypeOK
<1>4. DOMAIN attempts'[r] = DOMAIN attempts[r] /\ Len(attempts'[r]) = Len(attempts[r])
  BY <1>1, <1>3
<1>5. \A n \in 1..(Len(attempts[r]) - 1) : attempts'[r][n] = attempts[r][n]
  BY <1>1, <1>3
<1>6. SupersededStand
  BY <1>1, <1>2, <1>4, <1>5 DEF SupersededStand
<1>7. OneReplaced
  BY <1>1, <1>2, <1>4 DEF OneReplaced
<1> QED  BY <1>6, <1>7

\* Inserting commands, or requeueing what was being dispatched, delays nothing.
LEMMA InsertedUndue ==
  ASSUME NEW ob, DOMAIN ob = DOMAIN outbox, NEW cmds, NEW At(_), outbox' = Inserted(ob, cmds, At),
         \A c \in DOMAIN outbox : outbox[c].state = "pending" => ob[c] = outbox[c]
  PROVE  UndueStand
BY DEF Inserted, UndueStand

\* Nor does rewriting a command that is due or not pending.
LEMMA RewrittenUndue ==
  ASSUME NEW c \in DOMAIN outbox, NEW row, outbox[c].state # "pending" \/ outbox[c].avail <= now,
         outbox' = [outbox EXCEPT ![c] = row]
  PROVE  UndueStand
BY DEF UndueStand

\* An outbox that stays the same delays nothing either.
LEMMA SameOutboxUndue == outbox' = outbox => UndueStand
BY DEF UndueStand

\* A dispatch that ends rewrites the command it held, and at most the newest attempt.
LEMMA AcknowledgeBacksOff ==
  ASSUME IInv, NEW p \in Pumps, Acknowledge(p) PROVE SupersededStand /\ OneReplaced /\ UndueStand
<1>0. held[p] \subseteq DOMAIN outbox
  BY DEF IInv, HeldInOutbox
<1>1. PICK c \in held[p] :
          IF outbox[c].state # "dispatching"
          THEN UNCHANGED <<outbox, attempts>>
          ELSE /\ outbox' = [outbox EXCEPT ![c].state = "acked"]
               /\ attempts' =
                    IF c.kind = "execute" /\ attempts[c.run][c.no].state = "queued"
                    THEN [attempts EXCEPT ![c.run][c.no] = Leased(attempts[c.run][c.no])]
                    ELSE attempts
  BY DEF Acknowledge
<1>2. UndueStand
  <2>1. CASE outbox[c].state # "dispatching"
    BY <1>1, <2>1, SameOutboxUndue
  <2>2. CASE outbox[c].state = "dispatching"
    <3> DEFINE row == [outbox[c] EXCEPT !.state = "acked"]
    <3>1. outbox' = [outbox EXCEPT ![c] = row]
      BY <1>1, <2>2
    <3> HIDE DEF row
    <3> QED  BY <1>0, <2>2, <3>1, RewrittenUndue
  <2> QED  BY <2>1, <2>2
<1>3. CASE attempts' = attempts
  BY <1>2, <1>3, SameAttemptsStand
<1>4. CASE attempts' # attempts
  <2> DEFINE row == Leased(attempts[c.run][c.no])
  <2>1. /\ attempts[c.run][c.no].state = "queued" /\ c.kind = "execute"
        /\ attempts' = [attempts EXCEPT ![c.run] = [attempts[c.run] EXCEPT ![c.no] = row]]
    BY <1>1, <1>4
  <2>2. c \in Command /\ c.run \in Runs /\ c.no \in 1..Len(attempts[c.run])
    BY <1>0, <2>1 DEF IInv, TypeOK, OutboxMatchesAttempts, Command
  <2>3. c.no = Len(attempts[c.run])
    BY <2>1, <2>2, OpenMeansRunning DEF Open
  <2> HIDE DEF row
  <2>4. attempts' = [attempts EXCEPT ![c.run] =
                        [attempts[c.run] EXCEPT ![Len(attempts[c.run])] = row]]
    BY <2>1, <2>3
  <2> QED  BY <1>2, <2>2, <2>4, NewestRewritten
<1> QED  BY <1>3, <1>4

\* A worker's event rewrites the newest attempt, or replaces it.
LEMMA WorkerBacksOff ==
  ASSUME IInv, NEW r \in Runs, NEW n \in DOMAIN attempts[r], WorkerStep(r, n)
  PROVE  SupersededStand /\ OneReplaced /\ UndueStand
<1>0. attempts[r] \in Seq(AttemptRow) /\ n \in 1..Len(attempts[r])
  BY DEF IInv, TypeOK
<1>1. ASSUME attempts[r][n].state = "running" PROVE n = Len(attempts[r]) /\ runState[r] = "running"
  BY <1>0, <1>1, OpenMeansRunning DEF Open
<1>2. CASE Heartbeat(r, n)
  <2> DEFINE row == [attempts[r][n] EXCEPT !.lease = now + LeaseMs]
  <2>1. /\ attempts' = [attempts EXCEPT ![r] = [attempts[r] EXCEPT ![n] = row]]
        /\ outbox' = outbox /\ attempts[r][n].state = "running"
    BY <1>2 DEF Heartbeat, Accepts
  <2> HIDE DEF row
  <2> QED  BY <1>1, <2>1, NewestRewritten, SameOutboxUndue
<1>3. ASSUME NEW ok \in BOOLEAN, Complete(r, n, ok)
      PROVE SupersededStand /\ OneReplaced /\ UndueStand
  <2> DEFINE row == [attempts[r][n] EXCEPT !.state = "completed", !.token = FALSE, !.lease = 0]
  <2>1. /\ attempts' = [attempts EXCEPT ![r] = [attempts[r] EXCEPT ![n] = row]]
        /\ outbox' = outbox /\ attempts[r][n].state = "running"
    BY <1>3 DEF Complete, Accepts
  <2> HIDE DEF row
  <2> QED  BY <1>1, <2>1, NewestRewritten, SameOutboxUndue
<1>4. CASE LateWorkerEvent(r, n)
  <2>1. /\ attempts' = [attempts EXCEPT ![r] = TimedOut(attempts[r], {n})]
        /\ n \in Lapsed(r)
        /\ outbox' = Inserted(outbox, {RetryCommand(r)}, LAMBDA c : RetryAt(r))
    BY <1>4 DEF LateWorkerEvent
  <2>2. runState[r] # "none"
    BY <1>1, <2>1 DEF Lapsed
  <2>3. attempts'[r] = TimedOut(attempts[r], {n})
        /\ \A s \in Runs \ {r} : attempts'[s] = attempts[s]
    BY <2>1 DEF IInv, TypeOK
  <2>4. RetryCommand(r) \notin DOMAIN outbox
    BY <1>0 DEF RetryCommand, Execute, IInv, OutboxMatchesAttempts
  <2>5. outbox'[RetryCommand(r)] = PendingAt(RetryAt(r))
    BY <2>1, <2>4 DEF Inserted
  <2>6. /\ \A i \in 1..(Len(attempts[r]) - 1) :
               i \in DOMAIN attempts'[r] /\ attempts'[r][i] = attempts[r][i]
        /\ Replaced(r)
    <3>1. {n} # {} /\ {n} \subseteq Lapsed(r)
      BY <2>1
    <3> QED  BY <2>2, <2>3, <2>5, <3>1, TimeoutReplaces
  <2>7. \A s \in Runs : attempts[s] \in Seq(AttemptRow) /\ Len(attempts[s]) \in Nat
    BY DEF IInv, TypeOK
  <2>8. SupersededStand
    <3> SUFFICES ASSUME NEW s \in Runs, NEW i \in 1..(Len(attempts[s]) - 1)
                 PROVE  i \in DOMAIN attempts'[s] /\ attempts'[s][i] = attempts[s][i]
      BY DEF SupersededStand
    <3>1. CASE s = r
      BY <2>6, <3>1
    <3>2. CASE s # r
      BY <2>3, <2>7, <3>2
    <3> QED  BY <3>1, <3>2
  <2>9. OneReplaced
    <3> SUFFICES ASSUME NEW s \in Runs, Len(attempts'[s]) > Len(attempts[s]) PROVE Replaced(s)
      BY DEF OneReplaced
    <3>1. s = r
      BY <2>3, <2>7
    <3> QED  BY <2>6, <3>1
  <2>10. UndueStand
    BY <2>1, InsertedUndue
  <2> QED  BY <2>8, <2>9, <2>10
<1> QED  BY <1>2, <1>3, <1>4 DEF WorkerStep

\* Every step respects the backoffs.
LEMMA NextBacksOff == IInv /\ Next => BackoffStep
<1> SUFFICES ASSUME IInv, Next PROVE BackoffStep
  OBVIOUS
<1>0. now \in Nat
  BY DEF IInv, TypeOK
<1>1. ASSUME now' = now, SupersededStand, OneReplaced, UndueStand PROVE BackoffStep
  BY <1>0, <1>1 DEF BackoffStep
<1>2. ASSUME UNCHANGED <<attempts, outbox>>, now' = now \/ now' = now + 1 PROVE BackoffStep
  BY <1>0, <1>2, SameAttemptsStand, SameOutboxUndue DEF BackoffStep
<1>3. CASE Tick \/ Stop \/ TimerFires \/ Crash
  BY <1>2, <1>3 DEF Tick, Stop, TimerFires, Crash, stored
<1>4. ASSUME NEW r \in Runs, StartRun(r) PROVE BackoffStep
  <2>1. attempts[r] = <<>> /\ Len(attempts[r]) = 0
    BY <1>4 DEF IInv, OneOpenAttempt, SettledByNewest, StartRun
  <2>2. /\ attempts' = [attempts EXCEPT ![r] = <<QueuedAttempt(now)>>] /\ now' = now
        /\ outbox' = Inserted(outbox, {Execute(r, 1)}, LAMBDA c : now)
    BY <1>4 DEF StartRun
  <2>3. UndueStand
    BY <2>2, InsertedUndue
  <2>4. /\ \A s \in Runs : attempts[s] \in Seq(AttemptRow) /\ Len(attempts[s]) \in Nat
        /\ \A s \in Runs \ {r} : attempts'[s] = attempts[s]
        /\ Len(attempts'[r]) = 1
    BY <2>2 DEF IInv, TypeOK
  <2>5. SupersededStand
    BY <2>1, <2>4 DEF SupersededStand
  <2>6. OneReplaced
    <3> SUFFICES ASSUME NEW s \in Runs, Len(attempts'[s]) > Len(attempts[s]) PROVE Replaced(s)
      BY DEF OneReplaced
    <3>1. s = r
      BY <2>4
    <3>2. Len(attempts'[r]) = Len(attempts[r]) + 1 /\ ~(Len(attempts[r]) > 0)
      BY <2>1, <2>4
    <3>3. Replaced(r)
      BY <3>2 DEF Replaced
    <3> QED  BY <3>1, <3>3
  <2> QED  BY <1>1, <2>2, <2>3, <2>5, <2>6
<1>5. ASSUME NEW p \in Starters, Start(p) PROVE BackoffStep
  <2>1. AdvanceTime(Requeued) /\ now' = now
    BY <1>5 DEF Start
  <2>2. /\ DOMAIN Requeued = DOMAIN outbox
        /\ \A c \in DOMAIN outbox : outbox[c].state = "pending" => Requeued[c] = outbox[c]
    BY DEF Requeued
  <2>3. outbox' = Inserted(Requeued, Raised, AvailableAt)
    BY <2>1 DEF AdvanceTime
  <2>4. UndueStand
    BY <2>2, <2>3, InsertedUndue
  <2> QED  BY <1>1, <2>1, <2>2, <2>4, AdvanceBacksOff
<1>6. ASSUME NEW p \in Pumps, Advance(p) PROVE BackoffStep
  <2>1. AdvanceTime(outbox) /\ now' = now
    BY <1>6 DEF Advance
  <2>2. outbox' = Inserted(outbox, Raised, AvailableAt)
    BY <2>1 DEF AdvanceTime
  <2>3. UndueStand
    BY <2>2, InsertedUndue
  <2> QED  BY <1>1, <2>1, <2>3, AdvanceBacksOff
<1>7. ASSUME NEW p \in Pumps, Claim(p) PROVE BackoffStep
  <2>1. PICK c \in Due : outbox' = [outbox EXCEPT ![c] = Dispatching(outbox[c])]
    BY <1>7 DEF Claim
  <2>2. c \in DOMAIN outbox /\ outbox[c].avail <= now
    BY DEF Due
  <2>3. attempts' = attempts /\ now' = now
    BY <1>7 DEF Claim
  <2> QED  BY <1>1, <2>1, <2>2, <2>3, RewrittenUndue, SameAttemptsStand
<1>8. ASSUME NEW p \in Pumps, Defer(p) PROVE BackoffStep
  <2>1. PICK c \in held[p] : IF outbox[c].state # "dispatching"
                             THEN UNCHANGED outbox
                             ELSE outbox' = [outbox EXCEPT ![c] = Deferred(outbox[c])]
    BY <1>8 DEF Defer
  <2>2. attempts' = attempts /\ now' = now /\ held[p] \subseteq DOMAIN outbox
    BY <1>8 DEF Defer, IInv, HeldInOutbox
  <2>3. UndueStand
    <3>1. CASE outbox[c].state # "dispatching"
      BY <2>1, <3>1, SameOutboxUndue
    <3>2. CASE outbox[c].state = "dispatching"
      BY <2>1, <2>2, <3>2, RewrittenUndue
    <3> QED  BY <3>1, <3>2
  <2> QED  BY <1>1, <2>2, <2>3, SameAttemptsStand
<1>9. ASSUME NEW p \in Pumps, PumpStep(p) PROVE BackoffStep
  <2>1. CASE PumpEnds(p) \/ Deliver(p) \/ DeferFails(p)
    BY <1>2, <2>1 DEF PumpEnds, Deliver, DeferFails, stored
  <2>2. CASE Acknowledge(p)
    <3>1. now' = now
      BY <2>2 DEF Acknowledge
    <3> QED  BY <1>1, <2>2, <3>1, AcknowledgeBacksOff
  <2> QED  BY <1>6, <1>7, <1>8, <1>9, <2>1, <2>2 DEF PumpStep
<1>10. ASSUME NEW r \in Runs, NEW n \in DOMAIN attempts[r], WorkerStep(r, n) PROVE BackoffStep
  <2>1. now' = now
    BY <1>10 DEF WorkerStep, Heartbeat, Complete, LateWorkerEvent
  <2> QED  BY <1>1, <1>10, <2>1, WorkerBacksOff
<1> QED  BY <1>3, <1>4, <1>5, <1>9, <1>10 DEF Next

\* An attempt never starts before its predecessor's backoff has passed, whatever
\* recover() requeues and however often its dispatch is deferred.
THEOREM BackoffAlwaysRespected == Spec => []BackoffRespected
<1>1. Init => BackedOff
  BY DEF Init, BackedOff
<1>2. IInv /\ BackedOff /\ [Next]_vars /\ IInv' => BackedOff'
  <2>1. IInv /\ BackedOff /\ Next /\ IInv' => BackedOff'
    BY NextBacksOff, BackoffStepKeeps
  <2>2. BackedOff /\ UNCHANGED vars => BackedOff'
    BY DEF BackedOff, Waits, Passed, Execute, vars, stored
  <2> QED  BY <2>1, <2>2
<1>3. IInv /\ BackedOff => BackoffRespected
  <2> SUFFICES ASSUME IInv, BackedOff, NEW r \in Runs, NEW n \in DOMAIN attempts[r], n > 1,
                      outbox[Execute(r, n)].tries > 0
               PROVE  now >= attempts[r][n - 1].retry
    BY DEF BackoffRespected
  <2>1. n \in 2..Len(attempts[r])
    BY DEF IInv, TypeOK
  <2>2. ~Waits(r, n)
    BY DEF Waits
  <2> QED  BY <2>1, <2>2 DEF BackedOff, Passed
<1> QED  BY <1>1, <1>2, <1>3, SpecIInv, PTL DEF Spec

-----------------------------------------------------------------------------
\* A number is a multiple of i exactly when i divides it.
LEMMA Multiples ==
  ASSUME NEW a \in Nat, NEW i \in Nat \ {0}
  PROVE  a % i = 0 <=> \E k \in Nat : a = i * k
<1>1. a = i * (a \div i) + (a % i) /\ (a \div i) \in Nat
  OBVIOUS
<1>2. ASSUME NEW k \in Nat, a = i * k PROVE a % i = 0
  BY <1>2
<1>3. ASSUME a % i = 0 PROVE \E k \in Nat : a = i * k
  <2>1. a = i * (a \div i)
    BY <1>1, <1>3
  <2> DEFINE q == a \div i
  <2>2. q \in Nat /\ a = i * q
    BY <1>1, <2>1
  <2> HIDE DEF q
  <2> QED  BY <2>2
<1> QED  BY <1>2, <1>3

\* Two multiples of i are at least i apart.
LEMMA MultiplesApart ==
  ASSUME NEW a \in Nat, NEW b \in Nat, NEW i \in Nat \ {0}, a % i = 0, b % i = 0, a < b
  PROVE  a + i <= b
<1>1. PICK j \in Nat : a = i * j
  BY Multiples
<1>2. PICK k \in Nat : b = i * k
  BY Multiples
<1>3. j < k
  BY <1>1, <1>2
<1>4. i * j + i <= i * k
  BY <1>3
<1> QED  BY <1>1, <1>2, <1>4

\* Sums of multiples are multiples.
LEMMA MultiplesAdd ==
  ASSUME NEW a \in Nat, NEW b \in Nat, NEW i \in Nat \ {0}, a % i = 0, b % i = 0
  PROVE  (a + b) % i = 0
<1>1. PICK j \in Nat : a = i * j
  BY Multiples
<1>2. PICK k \in Nat : b = i * k
  BY Multiples
<1>3. a + b = i * (j + k) /\ j + k \in Nat
  BY <1>1, <1>2
<1>4. (i * (j + k)) % i = 0
  BY <1>3
<1> QED  BY <1>3, <1>4

\* So is the distance of a multiple to a larger one.
LEMMA MultiplesSub ==
  ASSUME NEW a \in Nat, NEW b \in Nat, NEW i \in Nat \ {0}, a % i = 0, (a + b) % i = 0
  PROVE  b % i = 0
<1>1. PICK j \in Nat : a = i * j
  BY Multiples
<1>2. PICK k \in Nat : a + b = i * k
  BY Multiples
<1>3. j <= k
  <2>1. ~(k < j)
    <3> SUFFICES ASSUME k < j PROVE FALSE
      OBVIOUS
    <3>1. i * k + i <= i * j
      OBVIOUS
    <3> QED  BY <1>1, <1>2, <3>1
  <2> QED  BY <2>1
<1>4. b = i * (k - j) /\ k - j \in Nat
  BY <1>1, <1>2, <1>3
<1>5. (i * (k - j)) % i = 0
  BY <1>4
<1> QED  BY <1>4, <1>5

\* NextBoundary is the first boundary after now, one interval away at most.
LEMMA FirstAfter ==
  ASSUME NEW d \in Nat, NEW i \in Nat \ {0}
  PROVE  LET m == i * ((d \div i) + 1)
         IN  m \in Nat /\ m % i = 0 /\ d < m /\ m <= d + i
<1>1. d = i * (d \div i) + (d % i) /\ (d \div i) \in Nat /\ d % i \in 0..(i - 1)
  OBVIOUS
<1> DEFINE q == d \div i
<1> HIDE DEF q
<1>2. i * (q + 1) = i * q + i /\ i * q \in Nat /\ q + 1 \in Nat
  BY <1>1 DEF q
<1>3. (i * (q + 1)) % i = 0
  <2> DEFINE k == q + 1
  <2>1. k \in Nat
    BY <1>2
  <2> HIDE DEF k
  <2>2. (i * k) % i = 0
    BY <2>1
  <2> QED  BY <2>2 DEF k
<1>4. d < i * (q + 1) /\ i * (q + 1) <= d + i /\ i * (q + 1) \in Nat
  BY <1>1, <1>2 DEF q
<1> QED  BY <1>3, <1>4 DEF q

\* The boundaries of a run, the due times of its report commands, and how they
\* are bound together: reports for all boundaries up to the next, b.
Boundary(r, t) == t > createdAt[r] /\ (t - createdAt[r]) % ReportIntervalMs = 0
BoundariesUpTo(r, b) == {t \in Nat : Boundary(r, t) /\ t < b}
Dues(r) == {c.no : c \in {d \in DOMAIN outbox : d.kind = "progress_report" /\ d.run = r}}

NextIs(r, b) ==
    /\ Boundary(r, b) /\ b <= now + ReportIntervalMs
    /\ Dues(r) = BoundariesUpTo(r, b)
    /\ runState[r] = "running" => nextReport[r] = b
PunctualRun(r) == (runState[r] = "none" => Dues(r) = {}) /\ \E b \in Nat : NextIs(r, b)
Punctual == \A r \in Runs : PunctualRun(r)

\* A run none of whose rows the step touches stays punctual as time goes on.
LEMMA StaysPunctual ==
  ASSUME IInv, NEW r \in Runs, PunctualRun(r), now' \in Nat, now' >= now,
         createdAt'[r] = createdAt[r], Dues(r)' = Dues(r),
         runState'[r] = "running" => runState[r] = "running" /\ nextReport'[r] = nextReport[r],
         runState'[r] = "none" => runState[r] = "none"
  PROVE  PunctualRun(r)'
<1>1. PICK b \in Nat : NextIs(r, b)
  BY DEF PunctualRun
<1>2. now \in Nat /\ ReportIntervalMs \in Nat
  BY TimingAssumption DEF IInv, TypeOK
<1>3. Boundary(r, b)' /\ b <= now' + ReportIntervalMs
  <2>1. b <= now + ReportIntervalMs /\ Boundary(r, b)
    BY <1>1 DEF NextIs
  <2>2. b <= now' + ReportIntervalMs
    <3>1. PICK later \in Nat : later = now'
      OBVIOUS
    <3>2. b \in Nat /\ now <= later
      BY <1>1, <3>1
    <3>3. b <= later + ReportIntervalMs
      BY <1>2, <2>1, <3>2
    <3> QED  BY <3>1, <3>3
  <2>3. Boundary(r, b)' <=> Boundary(r, b)
    BY DEF Boundary
  <2> QED  BY <2>1, <2>2, <2>3
<1>4. BoundariesUpTo(r, b)' = BoundariesUpTo(r, b)
  BY DEF BoundariesUpTo, Boundary
<1>5. Dues(r)' = BoundariesUpTo(r, b)'
  BY <1>1, <1>4 DEF NextIs
<1>6. NextIs(r, b)'
  BY <1>1, <1>3, <1>5 DEF NextIs
<1>7. runState'[r] = "none" => Dues(r)' = {}
  BY DEF PunctualRun
<1> QED  BY <1>6, <1>7 DEF PunctualRun

\* The outbox gets no report command.
NoNewReport ==
    /\ DOMAIN outbox \subseteq DOMAIN outbox'
    /\ \A c \in DOMAIN outbox' \ DOMAIN outbox : c.kind # "progress_report"

\* No run starts, and one that goes on keeps its boundary.
RunsStand ==
    \A r \in Runs : /\ runState'[r] = "running" =>
                          runState[r] = "running" /\ nextReport'[r] = nextReport[r]
                    /\ runState'[r] = "none" => runState[r] = "none"

\* The due times stay the same unless a report command comes.
LEMMA SameDues == ASSUME NoNewReport, NEW r \in Runs PROVE Dues(r)' = Dues(r)
<1>1. {d \in DOMAIN outbox' : d.kind = "progress_report" /\ d.run = r}
        = {d \in DOMAIN outbox : d.kind = "progress_report" /\ d.run = r}
  BY DEF NoNewReport
<1> QED  BY <1>1 DEF Dues

\* advanceTime() reports what is due, and sets the first boundary after now.
LEMMA DueRunIsReported ==
  ASSUME IInv, NEW r \in ReportRuns, PunctualRun(r),
         Dues(r)' = Dues(r) \cup DueTimes(r), createdAt'[r] = createdAt[r],
         nextReport'[r] = NextBoundary(r), runState'[r] = "running", now' = now
  PROVE  PunctualRun(r)'
<1>1. PICK b \in Nat : NextIs(r, b)
  BY DEF PunctualRun
<1>2. /\ now \in Nat /\ createdAt[r] \in Nat /\ ReportIntervalMs \in Nat \ {0} /\ r \in Runs
      /\ runState[r] = "running" /\ nextReport[r] <= now /\ nextReport[r] = b
  BY <1>1, TimingAssumption DEF IInv, TypeOK, ReportRuns, ReportDue, NextIs
<1> DEFINE i == ReportIntervalMs
           c == createdAt[r]
           m == i * (((now - b) \div i) + 1)
           new == b + m
<1>3. now - b \in Nat /\ b - c \in Nat /\ b > c /\ (b - c) % i = 0
  BY <1>1, <1>2 DEF NextIs, Boundary
<1>4. m \in Nat /\ m % i = 0 /\ now - b < m /\ m <= (now - b) + i
  BY <1>2, <1>3, FirstAfter
<1>5. nextReport'[r] = new
  BY <1>2 DEF NextBoundary
<1> HIDE DEF m
<1>6. new \in Nat /\ now < new /\ new <= now + i
  BY <1>2, <1>3, <1>4
<1>7. new > c /\ (new - c) % i = 0
  <2>1. ((b - c) + m) % i = 0
    BY <1>2, <1>3, <1>4, MultiplesAdd
  <2>2. new - c = (b - c) + m
    BY <1>2, <1>3, <1>4
  <2> QED  BY <1>2, <1>3, <1>4, <2>1, <2>2
<1>8. \A t \in Nat : Boundary(r, t) /\ t < new <=> (Boundary(r, t) /\ t < b) \/ t \in DueTimes(r)
  <2> SUFFICES ASSUME NEW t \in Nat
               PROVE  Boundary(r, t) /\ t < new <=> (Boundary(r, t) /\ t < b) \/ t \in DueTimes(r)
    OBVIOUS
  <2>1. t \in DueTimes(r) <=> t >= b /\ t <= now /\ (t - b) % i = 0
    BY <1>2 DEF DueTimes
  <2>2. ASSUME t >= b, (t - b) % i = 0 PROVE Boundary(r, t)
    <3>1. t - b \in Nat
      BY <2>2
    <3>2. ((b - c) + (t - b)) % i = 0
      BY <1>2, <1>3, <2>2, <3>1, MultiplesAdd
    <3>3. t - c = (b - c) + (t - b) /\ t > c
      BY <1>2, <1>3, <2>2
    <3> QED  BY <3>2, <3>3 DEF Boundary
  <2>3. ASSUME t >= b, Boundary(r, t), t < new PROVE (t - b) % i = 0 /\ t <= now
    <3>1. t - b \in Nat /\ t - c = (b - c) + (t - b) /\ (t - c) % i = 0
      BY <1>2, <1>3, <2>3 DEF Boundary
    <3>2. ((b - c) + (t - b)) % i = 0
      BY <3>1
    <3>3. (t - b) % i = 0
      BY <1>2, <1>3, <3>1, <3>2, MultiplesSub
    <3>4. t - b < m
      BY <1>2, <1>4, <2>3
    <3>5. (t - b) + i <= m
      BY <1>2, <1>4, <3>1, <3>3, <3>4, MultiplesApart
    <3> QED  BY <1>2, <1>3, <1>4, <3>3, <3>5
  <2> QED  BY <1>2, <1>3, <1>6, <2>1, <2>2, <2>3
<1>9. DueTimes(r) \subseteq Nat
  BY <1>2 DEF DueTimes
<1>10. Dues(r)' = {t \in Nat : Boundary(r, t) /\ t < new}
  <2>1. Dues(r)' = {t \in Nat : Boundary(r, t) /\ t < b} \cup DueTimes(r)
    BY <1>1 DEF NextIs, BoundariesUpTo
  <2> HIDE DEF new
  <2> QED  BY <1>8, <1>9, <2>1
<1>11. PICK n \in Nat : n = new
  BY <1>6
<1> HIDE DEF new
<1>12. Boundary(r, n)' /\ n <= now' + ReportIntervalMs
  BY <1>6, <1>7, <1>11 DEF Boundary
<1>13. BoundariesUpTo(r, n)' = {t \in Nat : Boundary(r, t) /\ t < n}
  BY DEF BoundariesUpTo, Boundary
<1>14. NextIs(r, n)'
  BY <1>5, <1>10, <1>11, <1>12, <1>13 DEF NextIs
<1> QED  BY <1>14 DEF PunctualRun

\* So advanceTime() keeps every run punctual.
LEMMA AdvanceIsPunctual ==
  ASSUME IInv, Punctual, NEW ob, DOMAIN ob = DOMAIN outbox, AdvanceTime(ob), now' = now
  PROVE  Punctual'
<1> SUFFICES ASSUME NEW r \in Runs PROVE PunctualRun(r)'
  BY DEF Punctual
<1>1. /\ DOMAIN outbox' = DOMAIN outbox \cup Raised
      /\ runState' = runState /\ createdAt' = createdAt
      /\ nextReport'[r] = IF r \in ReportRuns THEN NextBoundary(r) ELSE nextReport[r]
  BY DEF AdvanceTime, Inserted
<1>2. \A s \in LapsedRuns : RetryCommand(s).kind = "execute"
  BY DEF RetryCommand, Execute
<1>3. {c \in Raised : c.kind = "progress_report" /\ c.run = r}
          = IF r \in ReportRuns THEN {Report(r, t) : t \in DueTimes(r)} ELSE {}
  BY <1>2 DEF Raised, Report
<1>4. Dues(r)' = Dues(r) \cup {c.no : c \in {d \in Raised : d.kind = "progress_report" /\ d.run = r}}
  BY <1>1 DEF Dues
<1>5. now \in Nat
  BY DEF IInv, TypeOK
<1>6. PunctualRun(r)
  BY DEF Punctual
<1>7. CASE r \in ReportRuns
  <2>1. Dues(r)' = Dues(r) \cup DueTimes(r)
    <3>1. \A t \in DueTimes(r) : Report(r, t).no = t
      BY DEF Report
    <3>2. {c.no : c \in {Report(r, t) : t \in DueTimes(r)}} = DueTimes(r)
      BY <3>1
    <3> QED  BY <1>3, <1>4, <1>7, <3>2
  <2>2. runState[r] = "running"
    BY <1>7 DEF ReportRuns, ReportDue
  <2> QED  BY <1>1, <1>6, <1>7, <2>1, <2>2, DueRunIsReported
<1>8. CASE r \notin ReportRuns
  <2>1. Dues(r)' = Dues(r)
    BY <1>3, <1>4, <1>8
  <2> QED  BY <1>1, <1>5, <1>6, <1>8, <2>1, StaysPunctual
<1> QED  BY <1>7, <1>8

\* A step that adds no report command and changes nobody's times is punctual.
LEMMA NoReportIsPunctual ==
  ASSUME IInv, Punctual, now' = now \/ now' = now + 1, createdAt' = createdAt,
         NoNewReport, RunsStand
  PROVE  Punctual'
<1> SUFFICES ASSUME NEW r \in Runs PROVE PunctualRun(r)'
  BY DEF Punctual
<1>1. Dues(r)' = Dues(r)
  BY SameDues
<1>2. PunctualRun(r) /\ createdAt'[r] = createdAt[r]
  BY DEF Punctual
<1>3. now \in Nat /\ now' \in Nat /\ now' >= now
  BY DEF IInv, TypeOK
<1>4. /\ runState'[r] = "running" => runState[r] = "running" /\ nextReport'[r] = nextReport[r]
      /\ runState'[r] = "none" => runState[r] = "none"
  BY DEF RunsStand
<1> QED  BY <1>1, <1>2, <1>3, <1>4, StaysPunctual

\* Above all a step that leaves the runs alone and only rewrites commands.
LEMMA SameTimesArePunctual ==
  ASSUME IInv, Punctual, now' = now \/ now' = now + 1,
         UNCHANGED <<runState, createdAt, nextReport>>, DOMAIN outbox' = DOMAIN outbox
  PROVE  Punctual'
<1>1. NoNewReport /\ RunsStand
  BY DEF NoNewReport, RunsStand
<1> QED  BY <1>1, NoReportIsPunctual

\* A new run has its first boundary one interval away, and no report.
LEMMA StartRunIsPunctual == ASSUME IInv, Punctual, NEW r \in Runs, StartRun(r) PROVE Punctual'
<1>1. /\ runState[r] = "none" /\ now' = now /\ now \in Nat
      /\ runState'[r] = "running" /\ createdAt'[r] = now /\ nextReport'[r] = now + ReportIntervalMs
      /\ DOMAIN outbox' = DOMAIN outbox \cup {Execute(r, 1)}
  BY DEF StartRun, IInv, TypeOK, Inserted
<1>2. \A s \in Runs \ {r} : /\ runState'[s] = runState[s] /\ createdAt'[s] = createdAt[s]
                            /\ nextReport'[s] = nextReport[s]
  BY DEF StartRun, IInv, TypeOK
<1>3. NoNewReport
  BY <1>1 DEF NoNewReport, Execute
<1>4. \A s \in Runs : Dues(s)' = Dues(s)
  BY <1>3, SameDues
<1>5. \A s \in Runs : PunctualRun(s)
  BY DEF Punctual
<1>6. \A s \in Runs \ {r} : PunctualRun(s)'
  BY <1>1, <1>2, <1>4, <1>5, StaysPunctual
<1>7. PunctualRun(r)'
  <2> DEFINE i == ReportIntervalMs
  <2>1. i \in Nat \ {0}
    BY TimingAssumption
  <2>2. PICK b \in Nat : b = now + i
    BY <1>1, <2>1
  <2>3. b - now = i /\ b > now /\ i % i = 0
    <3>1. i = i * 1 /\ 1 \in Nat
      BY <2>1
    <3>2. i % i = 0
      BY <2>1, <3>1, Multiples
    <3> QED  BY <1>1, <2>1, <2>2, <3>2
  <2>4. Boundary(r, b)' /\ b <= now' + ReportIntervalMs
    <3>1. Boundary(r, b)'
      BY <1>1, <2>3 DEF Boundary
    <3> QED  BY <1>1, <2>1, <2>2, <3>1
  <2>5. Dues(r)' = {}
    BY <1>1, <1>4, <1>5 DEF PunctualRun
  <2>6. ASSUME NEW t \in Nat, t > now, t < b PROVE (t - now) % i # 0
    <3>1. SUFFICES ASSUME (t - now) % i = 0 PROVE FALSE
      OBVIOUS
    <3>2. t - now \in Nat /\ 0 \in Nat /\ 0 < t - now /\ t - now < i
      BY <1>1, <2>1, <2>2, <2>6
    <3>3. 0 % i = 0
      BY <2>1
    <3>4. 0 + i <= t - now
      BY <2>1, <3>1, <3>2, <3>3, MultiplesApart
    <3> QED  BY <2>1, <3>2, <3>4
  <2>7. \A t \in Nat : ~(Boundary(r, t)' /\ t < b)
    BY <1>1, <2>6 DEF Boundary
  <2>8. BoundariesUpTo(r, b)' = {}
    BY <2>7 DEF BoundariesUpTo
  <2>9. NextIs(r, b)'
    BY <1>1, <2>2, <2>4, <2>5, <2>8 DEF NextIs
  <2> QED  BY <2>5, <2>9 DEF PunctualRun
<1> QED  BY <1>6, <1>7 DEF Punctual

\* Every step keeps the reports punctual.
LEMMA NextIsPunctual == IInv /\ Punctual /\ Next => Punctual'
<1> SUFFICES ASSUME IInv, Punctual, Next PROVE Punctual'
  OBVIOUS
<1>1. ASSUME UNCHANGED <<runState, createdAt, nextReport, outbox>>, now' = now \/ now' = now + 1
      PROVE  Punctual'
  BY <1>1, SameTimesArePunctual
<1>2. CASE Tick \/ Stop \/ TimerFires \/ Crash
  BY <1>1, <1>2 DEF Tick, Stop, TimerFires, Crash, stored
<1>3. ASSUME NEW p \in Starters, Start(p) PROVE Punctual'
  <2>1. AdvanceTime(Requeued) /\ now' = now /\ DOMAIN Requeued = DOMAIN outbox
    BY <1>3 DEF Start, Requeued
  <2> QED  BY <2>1, AdvanceIsPunctual
<1>4. ASSUME NEW p \in Pumps, PumpStep(p) PROVE Punctual'
  <2>1. CASE PumpEnds(p) \/ Deliver(p) \/ DeferFails(p)
    BY <1>1, <2>1 DEF PumpEnds, Deliver, DeferFails, stored
  <2>2. CASE Advance(p)
    BY <2>2, AdvanceIsPunctual DEF Advance
  <2>3. CASE Claim(p) \/ Acknowledge(p) \/ Defer(p)
    <3>1. UNCHANGED <<runState, createdAt, nextReport>> /\ now' = now
      BY <2>3 DEF Claim, Acknowledge, Defer
    <3>2. DOMAIN outbox' = DOMAIN outbox
      BY <2>3 DEF Claim, Acknowledge, Defer
    <3> QED  BY <3>1, <3>2, SameTimesArePunctual
  <2> QED  BY <1>4, <2>1, <2>2, <2>3 DEF PumpStep
<1>5. ASSUME NEW r \in Runs, NEW n \in DOMAIN attempts[r], WorkerStep(r, n) PROVE Punctual'
  <2>1. CASE Heartbeat(r, n)
    BY <1>1, <2>1 DEF Heartbeat
  <2>2. ASSUME NEW ok \in BOOLEAN, Complete(r, n, ok) PROVE Punctual'
    <3>1. /\ runState' = [runState EXCEPT ![r] = IF ok THEN "completed" ELSE "failed"]
          /\ nextReport' = [nextReport EXCEPT ![r] = 0]
          /\ UNCHANGED <<now, createdAt, outbox>>
      BY <2>2 DEF Complete
    <3>2. RunsStand
      BY <3>1 DEF IInv, TypeOK, RunsStand
    <3>3. NoNewReport
      BY <3>1 DEF NoNewReport
    <3> QED  BY <3>1, <3>2, <3>3, NoReportIsPunctual
  <2>3. CASE LateWorkerEvent(r, n)
    <3>1. /\ UNCHANGED <<now, runState, createdAt, nextReport>>
          /\ DOMAIN outbox' = DOMAIN outbox \cup {RetryCommand(r)}
      BY <2>3 DEF LateWorkerEvent, Inserted
    <3>2. NoNewReport
      BY <3>1 DEF NoNewReport, RetryCommand, Execute
    <3>3. RunsStand
      BY <3>1 DEF RunsStand
    <3> QED  BY <3>1, <3>2, <3>3, NoReportIsPunctual
  <2> QED  BY <1>5, <2>1, <2>2, <2>3 DEF WorkerStep
<1> QED  BY <1>2, <1>3, <1>4, <1>5, StartRunIsPunctual DEF Next

\* The boundaries of the property are those reached before the clock stops.
LEMMA PunctualIsReported ==
  ASSUME IInv, Punctual, now <= MaxTime PROVE ReportsAtEveryBoundary
<1> SUFFICES ASSUME NEW r \in Runs
             PROVE  LET boundaries == {t \in 0..(2 * MaxTime) :
                             t > createdAt[r] /\ (t - createdAt[r]) % ReportIntervalMs = 0}
                    IN  IF runState[r] = "running"
                        THEN Dues(r) = {t \in boundaries : t < nextReport[r]}
                        ELSE Dues(r) = {t \in boundaries : \E u \in Dues(r) : t <= u}
  BY DEF ReportsAtEveryBoundary, Dues
<1>1. PICK b \in Nat : NextIs(r, b)
  BY DEF Punctual, PunctualRun
<1>2. /\ now \in Nat /\ createdAt[r] \in Nat /\ MaxTime \in Nat
      /\ ReportIntervalMs \in Nat \ {0}
  BY TimingAssumption DEF IInv, TypeOK
<1> DEFINE boundaries == {t \in 0..(2 * MaxTime) :
                             t > createdAt[r] /\ (t - createdAt[r]) % ReportIntervalMs = 0}
<1>3. \A t \in Nat : Boundary(r, t) /\ t < b => t <= MaxTime
  <2> SUFFICES ASSUME NEW t \in Nat, Boundary(r, t), t < b PROVE t <= MaxTime
    OBVIOUS
  <2> DEFINE x == t - createdAt[r]
             y == b - createdAt[r]
  <2>1. x \in Nat /\ y \in Nat /\ x % ReportIntervalMs = 0 /\ y % ReportIntervalMs = 0 /\ x < y
    BY <1>1, <1>2 DEF Boundary, NextIs
  <2>2. x + ReportIntervalMs <= y
    BY <1>2, <2>1, MultiplesApart
  <2>3. b <= now + ReportIntervalMs
    BY <1>1 DEF NextIs
  <2> QED  BY <1>1, <1>2, <2>2, <2>3
<1>4. \A t : t \in Dues(r) <=> t \in boundaries /\ t < b
  <2>1. \A t : t \in Dues(r) <=> t \in Nat /\ Boundary(r, t) /\ t < b
    BY <1>1 DEF NextIs, BoundariesUpTo
  <2>2. \A t \in Nat : t <= MaxTime => t \in 0..(2 * MaxTime)
    BY <1>2
  <2> QED  BY <1>2, <1>3, <2>1, <2>2 DEF Boundary
<1>5. \A t \in boundaries : t \in Nat
  BY <1>2
<1>6. CASE runState[r] = "running"
  <2>1. nextReport[r] = b
    BY <1>1, <1>6 DEF NextIs
  <2> QED  BY <1>4, <1>6, <2>1
<1>7. CASE runState[r] # "running"
  <2>1. \A t \in Dues(r) : t \in boundaries /\ \E u \in Dues(r) : t <= u
    BY <1>4, <1>5
  <2>2. \A t \in boundaries : (\E u \in Dues(r) : t <= u) => t < b
    BY <1>1, <1>4, <1>5
  <2> QED  BY <1>4, <1>7, <2>1, <2>2
<1> QED  BY <1>6, <1>7

\* The clock has not passed its bound.
InTime == now <= MaxTime

\* A run has one progress report per boundary, whatever restarts, overlapping
\* pumps and late advances of the clock do.
THEOREM ReportsAlwaysPunctual == Spec => []ReportsAtEveryBoundary
<1>1. Init => Punctual /\ InTime
  <2>0. Init => InTime
    BY TimingAssumption DEF Init, InTime
  <2> SUFFICES ASSUME Init, NEW r \in Runs PROVE PunctualRun(r)
    BY <2>0 DEF Punctual
  <2>1. Dues(r) = {} /\ createdAt[r] = 0 /\ now = 0 /\ runState[r] = "none"
    BY DEF Init, Dues
  <2>2. ReportIntervalMs \in Nat \ {0} /\ MaxTime \in Nat
    BY TimingAssumption
  <2> DEFINE i == ReportIntervalMs
  <2>3. i - 0 = i /\ i % i = 0
    <3>1. i = i * 1 /\ 1 \in Nat
      BY <2>2
    <3> QED  BY <2>2, <3>1, Multiples
  <2>4. Boundary(r, i)
    BY <2>1, <2>2, <2>3 DEF Boundary
  <2>5. \A t \in Nat : ~(Boundary(r, t) /\ t < i)
    <3> SUFFICES ASSUME NEW t \in Nat, Boundary(r, t), t < i PROVE FALSE
      OBVIOUS
    <3>1. t > 0 /\ t - 0 = t /\ t % i = 0 /\ 0 % i = 0
      BY <2>1, <2>2 DEF Boundary
    <3>2. 0 + i <= t
      BY <2>2, <3>1, MultiplesApart
    <3> QED  BY <2>2, <3>2
  <2>6. BoundariesUpTo(r, i) = {}
    BY <2>5 DEF BoundariesUpTo
  <2>7. NextIs(r, i)
    BY <2>1, <2>2, <2>4, <2>6 DEF NextIs
  <2> QED  BY <2>1, <2>2, <2>7 DEF PunctualRun
<1>2. IInv /\ Punctual /\ InTime /\ [Next]_vars => Punctual' /\ InTime'
  <2>1. ASSUME IInv, InTime, Next PROVE InTime'
    <3>1. CASE Tick
      <4>1. now \in Nat /\ MaxTime \in Nat /\ now < MaxTime /\ now' = now + 1
        BY <2>1, <3>1, TimingAssumption DEF Tick, IInv, TypeOK
      <4> QED  BY <4>1 DEF InTime
    <3>2. CASE ~Tick
      <4>1. now' = now
        BY <2>1, <3>2 DEF Next, StartRun, Start, Stop, TimerFires, PumpStep, Crash, WorkerStep,
              Advance, Claim, PumpEnds, Deliver, Acknowledge, Defer, DeferFails,
              Heartbeat, Complete, LateWorkerEvent
      <4> QED  BY <2>1, <4>1 DEF InTime
    <3> QED  BY <3>1, <3>2
  <2>2. IInv /\ Punctual /\ UNCHANGED vars => Punctual'
    BY SameTimesArePunctual DEF vars, stored, IInv, TypeOK
  <2> QED  BY <2>1, <2>2, NextIsPunctual DEF vars, InTime
<1>3. IInv /\ Punctual /\ InTime => ReportsAtEveryBoundary
  BY PunctualIsReported DEF InTime
<1> QED  BY <1>1, <1>2, <1>3, SpecIInv, PTL DEF Spec

\* What is due in time is done in time, and once.
THEOREM TimesKept == Spec => []TimedAsPromised
<1>1. BackoffRespected /\ ReportsAtEveryBoundary => TimedAsPromised
  BY DEF TimedAsPromised
<1> QED  BY <1>1, BackoffAlwaysRespected, ReportsAlwaysPunctual, PTL

=============================================================================
