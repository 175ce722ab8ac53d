------------------------------- MODULE IssueTeam -------------------------------
(* A coding issue worked on by a team of four roles                             *)
(* (src/src/main/app/issue-team-worker.ts) over the compare-and-swap run store  *)
(* (adapters/sqlite-issue-team-store.ts), the managed git worktree and its      *)
(* lease file (adapters/coding-job-worktree.ts), and the shared paid-call       *)
(* budget, which the role executor (composition/issue-team-role-executor.ts)    *)
(* and the facing, moderator and reporter actors                                *)
(* (adapters/subagent-issue-actors.ts) reserve from before they spawn.          *)
(* One dispatch: its `execute` and the `recover`s of later owners (which may run *)
(* while a stalled `execute` is still at work, in another process).  A call is  *)
(* cut where its process touches a store or waits for the provider; between    *)
(* two cuts the process may die.  `reconcile`, a read of the stored result, is *)
(* never called for a worker that can recover.                                 *)
EXTENDS PaidCallBudget, Sequences

CONSTANTS
    Execute,                \* the one call of the worker port's execute
    Recoveries,             \* the calls of its recover
    Actors,                 \* idempotency keys of the facing, moderator and reporter calls
    Costs,                  \* what a provider may report a call to have cost
    MaxRepairCycles,        \* profile.maxRepairCycles
    RequiredCleanCycles,    \* profile.requiredCleanCycles
    NoRun, Free             \* no row in issue_team_runs; no lease file

ASSUME TeamAssumption ==
    /\ Execute \notin Recoveries
    /\ Costs \subseteq Nat
    /\ MaxRepairCycles \in Nat \ {0}
    /\ RequiredCleanCycles \in Nat \ {0}
    /\ Free \notin Recoveries \cup {Execute}

Calls == {Execute} \cup Recoveries

VARIABLES
    team,       \* the row of issue_team_runs, or NoRun
    lease,      \* .lease-<id>.json: the call whose allocation wrote it, or Free
    worktree,   \* the managed worktree path exists
    pc,         \* where each call is
    snap,       \* each call's own `snapshot`
    handle,     \* the call still holds the `allocation` it may release
    reply,      \* the decision the provider gave to the call's role
    answer,     \* what the call returned or threw
    actor,      \* where the call under each actor key is
    spawned     \* history: provider sessions started under each key

teamVars == <<team, lease, worktree>>
vars == <<rows, team, lease, worktree, pc, snap, handle, reply, answer, actor, spawned>>

Roles == {"explorer", "implementer", "tester", "reviewer"}
Decisions == [explorer    |-> {"proceed"},
              implementer |-> {"implemented"},
              tester      |-> {"pass", "fail"},
              reviewer    |-> {"clean", "changes_requested"}]
Decision == {"proceed", "implemented", "pass", "fail", "clean", "changes_requested"}
Outcome == Roles \X Decision
Snapshot == [version: Nat, state: {"ready", "running", "completed", "failed"},
             role: Roles, attempt: Nat, clean: Nat, repairs: Nat,
             outcomes: Seq(Outcome), result: {"none", "converged", "exhausted"},
             leaseId: Calls]

(* The idempotency key of a role call: `${dispatchId}:${role}:${attemptNo}`. *)
StepId(s) == <<s.role, s.attempt>>
Step == Roles \X Nat

ASSUME KeyAssumption == NoRun \notin Snapshot /\ \A k \in Actors : k \notin Step

Created(c) ==
    [version |-> 1, state |-> "ready", role |-> "explorer", attempt |-> 0, clean |-> 0,
     repairs |-> 0, outcomes |-> << >>, result |-> "none", leaseId |-> c]
Claimed(s) ==
    [s EXCEPT !.version = @ + 1, !.state = "running", !.attempt = @ + 1]

(* nextTransition *)
Moved(s, state, role, clean, repairs) ==
    [s EXCEPT !.state = state, !.role = role, !.clean = clean, !.repairs = repairs]
\* mutant: one repair too many
RepairedOnceMore(s) ==
    IF s.repairs > MaxRepairCycles
    THEN [Moved(s, "failed", s.role, 0, s.repairs) EXCEPT !.result = "exhausted"]
    ELSE Moved(s, "ready", "implementer", 0, s.repairs + 1)
Repaired(s) ==
    IF s.repairs >= MaxRepairCycles
    THEN [Moved(s, "failed", s.role, 0, s.repairs) EXCEPT !.result = "exhausted"]
    ELSE Moved(s, "ready", "implementer", 0, s.repairs + 1)
Transition(s, decision) ==
    CASE decision = "proceed"     -> Moved(s, "ready", "implementer", 0, s.repairs)
      [] decision = "implemented" -> Moved(s, "ready", "tester", 0, s.repairs)
      [] decision = "pass"        -> Moved(s, "ready", "reviewer", s.clean, s.repairs)
      [] decision = "clean"       ->
            IF s.clean + 1 >= RequiredCleanCycles
            THEN [Moved(s, "completed", s.role, s.clean + 1, s.repairs)
                     EXCEPT !.result = "converged"]
            ELSE Moved(s, "ready", "tester", s.clean + 1, s.repairs)
      [] OTHER                    -> Repaired(s)
Acknowledged(s, decision) ==
    [Transition(s, decision) EXCEPT !.version = @ + 1,
                                    !.outcomes = Append(@, <<s.role, decision>>)]
RoleFailed(s) == [s EXCEPT !.version = @ + 1, !.state = "failed"]

(* save: the version must still be the caller's and the row not terminal. *)
MaySave(c) ==
    /\ team # NoRun
    /\ team.version = snap[c].version
    /\ team.state \notin {"completed", "failed"}
-------------------------------------------------------------------------------
Init ==
    /\ BudgetInit
    /\ team = NoRun /\ lease = Free /\ worktree = FALSE
    /\ pc = [c \in Calls |-> "idle"]
    /\ snap = [c \in Calls |-> NoRun]
    /\ handle = [c \in Calls |-> FALSE]
    /\ reply = [c \in Calls |-> "none"]
    /\ answer = [c \in Calls |-> "none"]
    /\ actor = [k \in Actors |-> "idle"]
    /\ spawned = << >>

At(c, label) == pc[c] = label

(* A call goes on to `label` with the snapshot s, or ends, and its locals with it. *)
Goes(c, label, s) ==
    /\ pc' = [pc EXCEPT ![c] = label]
    /\ snap' = [snap EXCEPT ![c] = s]
    /\ reply' = [reply EXCEPT ![c] = "none"]
    /\ UNCHANGED answer
Returns(c, value) ==
    /\ pc' = [pc EXCEPT ![c] = "done"]
    /\ snap' = [snap EXCEPT ![c] = NoRun]
    /\ reply' = [reply EXCEPT ![c] = "none"]
    /\ answer' = [answer EXCEPT ![c] = value]

(* allocation?.release(): removes the lease file by its path. *)
Release(c) ==
    /\ lease' = IF handle[c] THEN Free ELSE lease
    /\ handle' = [handle EXCEPT ![c] = FALSE]
Throws(c) == Release(c) /\ Returns(c, "threw")

\* mutant: a recovery takes over a role that is running
ProceedTakingOver(c, s) ==
    \/ s.result # "none" /\ Returns(c, s.result)
    \/ s.result = "none" /\ s.state = "failed" /\ Returns(c, "rejected")
    \/ s.state = "running" /\ IF c \in Recoveries THEN Goes(c, "claim", s) ELSE Returns(c, "threw")
    \/ s.state = "ready" /\ Goes(c, IF c \in Recoveries THEN "lease" ELSE "claim", s)

(* What run() does with the snapshot it found or created. *)
Proceed(c, s) ==
    \/ s.result # "none" /\ Returns(c, s.result)
    \/ s.result = "none" /\ s.state = "failed" /\ Returns(c, "rejected")
    \/ s.state = "running" /\ Returns(c, IF c \in Recoveries THEN "unknown" ELSE "threw")
    \/ s.state = "ready" /\ Goes(c, IF c \in Recoveries THEN "lease" ELSE "claim", s)

(* run: store.get *)
Begin(c) ==
    /\ At(c, "idle")
    /\ IF team = NoRun THEN Goes(c, "allocate", NoRun) ELSE Proceed(c, team)
    /\ UNCHANGED <<rows, teamVars, handle, actor, spawned>>

(* worktrees.allocate: the lease file is created exclusively, *)
TakeLease(c) ==
    /\ At(c, "allocate")
    /\ IF worktree \/ lease # Free
       THEN Returns(c, "threw") /\ UNCHANGED lease
       ELSE lease' = c /\ Goes(c, "worktree", NoRun)
    /\ UNCHANGED <<rows, team, worktree, handle, actor, spawned>>

(* then git adds the worktree; a failure removes the lease file again. *)
AddWorktree(c) ==
    /\ At(c, "worktree")
    /\ \/ /\ worktree' = TRUE
          /\ handle' = [handle EXCEPT ![c] = TRUE]
          /\ Goes(c, "create", NoRun)
          /\ UNCHANGED lease
       \/ /\ lease' = Free
          /\ Returns(c, "threw")
          /\ UNCHANGED <<worktree, handle>>
    /\ UNCHANGED <<rows, team, actor, spawned>>

(* store.createOrGet *)
CreateOrGet(c) ==
    /\ At(c, "create")
    /\ team' = IF team = NoRun THEN Created(c) ELSE team
    /\ IF team = NoRun THEN UNCHANGED <<lease, handle>> ELSE Release(c)
    /\ Proceed(c, team')
    /\ UNCHANGED <<rows, worktree, actor, spawned>>

(* worktrees.recover reads the lease file of the run, *)
RecoverLease(c) ==
    /\ At(c, "lease")
    /\ IF lease = snap[c].leaseId THEN Goes(c, "unlink", snap[c]) ELSE Returns(c, "unknown")
    /\ UNCHANGED <<rows, teamVars, handle, actor, spawned>>

(* then removes it, whether or not it is still there: the recovered run goes on *)
(* without a lease file.                                                        *)
RemoveLease(c) ==
    /\ At(c, "unlink")
    /\ lease' = Free
    /\ Goes(c, "claim", snap[c])
    /\ UNCHANGED <<rows, team, worktree, handle, actor, spawned>>

(* role_claimed *)
Claim(c) ==
    /\ At(c, "claim")
    /\ \/ /\ MaySave(c)
          /\ team' = Claimed(snap[c])
          /\ Goes(c, "reserve", team')
          /\ UNCHANGED <<lease, handle>>
       \/ ~MaySave(c) /\ Throws(c) /\ UNCHANGED team
    /\ UNCHANGED <<rows, worktree, actor, spawned>>

(* The executor's budget.reserve; a refusal is a plain error. *)
ReserveStep(c) ==
    /\ At(c, "reserve")
    /\ \/ Reserve(StepId(snap[c])) /\ Goes(c, "spawn", snap[c]) /\ UNCHANGED <<lease, handle>>
       \/ ~Admits(StepId(snap[c])) /\ Throws(c) /\ UNCHANGED rows
    /\ UNCHANGED <<team, worktree, actor, spawned>>

Spawned(k) == IF k \in DOMAIN spawned THEN spawned[k] ELSE 0
Start(k) == spawned' = With(spawned, k, Spawned(k) + 1)

SpawnRole(c) ==
    /\ At(c, "spawn")
    /\ Start(StepId(snap[c]))
    /\ Goes(c, "provider", snap[c])
    /\ UNCHANGED <<rows, teamVars, handle, actor>>

(* The role's session ends and its receipt settles within the budget; the      *)
(* decision is one the role may take.                                          *)
RoleAnswers(c, decision, cost) ==
    /\ At(c, "provider") /\ decision \in Decisions[snap[c].role]
    /\ ~Exceeds(StepId(snap[c]), cost)
    /\ Settle(StepId(snap[c]), cost)
    /\ pc' = [pc EXCEPT ![c] = "acknowledge"]
    /\ reply' = [reply EXCEPT ![c] = decision]
    /\ UNCHANGED <<teamVars, snap, handle, answer, actor, spawned>>

(* The session failed, its output was no valid result, or it cost too much:    *)
(* the receipt settles, and the role has failed with it.                       *)
RoleFails(c, cost) ==
    /\ At(c, "provider")
    /\ Settle(StepId(snap[c]), cost)
    /\ Goes(c, "role_failed", snap[c])
    /\ UNCHANGED <<teamVars, handle, actor, spawned>>

(* The receipt has no price: settle refuses it, and the role has failed.       *)
RoleUnpriced(c) ==
    /\ At(c, "provider")
    /\ Goes(c, "role_failed", snap[c])
    /\ UNCHANGED <<rows, teamVars, handle, actor, spawned>>

(* The session left no evidence, or its valid result came with the receipt of   *)
(* a session already recorded: a plain error, and the run stays running.        *)
RoleUnattributable(c) ==
    /\ At(c, "provider")
    /\ \/ \E cost \in Costs : /\ ~Exceeds(StepId(snap[c]), cost)
                              /\ Settle(StepId(snap[c]), cost)
       \/ UNCHANGED rows
    /\ Throws(c)
    /\ UNCHANGED <<team, worktree, actor, spawned>>

(* The role failed, but the run still says "running": what kept the failure out *)
(* of the store is swallowed, and the caller gets the rejection all the same.   *)
RejectedUnrecorded(c) ==
    /\ Release(c) /\ Returns(c, "rejected")
    /\ UNCHANGED <<team, worktree, actor, spawned>>

(* A failed session's receipt is of another model or names a recorded session.  *)
RoleUnrecordable(c) ==
    /\ At(c, "provider")
    /\ \/ \E cost \in Costs : Settle(StepId(snap[c]), cost)
       \/ UNCHANGED rows
    /\ RejectedUnrecorded(c)

(* role_acknowledged, team_completed or team_failed *)
Acknowledge(c) ==
    /\ At(c, "acknowledge") /\ MaySave(c)
    /\ team' = Acknowledged(snap[c], reply[c])
    /\ IF team'.result = "none"
       THEN Goes(c, "claim", team') /\ UNCHANGED <<lease, handle>>
       ELSE Release(c) /\ Returns(c, team'.result)
    /\ UNCHANGED <<rows, worktree, actor, spawned>>

(* role_failed *)
FailRole(c) ==
    /\ At(c, "role_failed") /\ MaySave(c)
    /\ team' = RoleFailed(snap[c])
    /\ Release(c) /\ Returns(c, "rejected")
    /\ UNCHANGED <<rows, worktree, actor, spawned>>

(* The save of role_failed throws: a version that moved on, or SQLITE_BUSY.    *)
FailureUnsaved(c) ==
    /\ At(c, "role_failed")
    /\ UNCHANGED rows
    /\ RejectedUnrecorded(c)

(* Another store transaction throws, or the worktree cannot be read: the call  *)
(* gives up.                                                                   *)
StoreThrows(c) ==
    /\ pc[c] \in {"create", "claim", "reserve", "acknowledge"}
    /\ Throws(c)
    /\ UNCHANGED <<rows, team, worktree, actor, spawned>>

(* The process of a call dies; its lease file stays. *)
Crash(c) ==
    /\ pc[c] \notin {"idle", "done", "dead"}
    /\ Goes(c, "dead", NoRun)
    /\ handle' = [handle EXCEPT ![c] = FALSE]
    /\ UNCHANGED <<rows, teamVars, actor, spawned>>
-------------------------------------------------------------------------------
(* runJson of the other actors.  A process that died, or a caller that was     *)
(* refused, may ask again under the same key.                                  *)
ActorReserve(k) ==
    /\ actor[k] = "idle"
    /\ Reserve(k)
    /\ actor' = [actor EXCEPT ![k] = "reserved"]
    /\ UNCHANGED <<teamVars, pc, snap, handle, reply, answer, spawned>>

ActorSpawn(k) ==
    /\ actor[k] = "reserved"
    /\ Start(k)
    /\ actor' = [actor EXCEPT ![k] = "running"]
    /\ UNCHANGED <<rows, teamVars, pc, snap, handle, reply, answer>>

ActorEnds(k) ==
    /\ actor[k] = "running"
    /\ \/ \E cost \in Costs : Settle(k, cost)
       \/ UNCHANGED rows    \* timed out, cancelled, foreign or unpriced
    /\ actor' = [actor EXCEPT ![k] = "idle"]
    /\ UNCHANGED <<teamVars, pc, snap, handle, reply, answer, spawned>>

ActorCrash(k) ==
    /\ actor[k] # "idle"
    /\ actor' = [actor EXCEPT ![k] = "idle"]
    /\ UNCHANGED <<rows, teamVars, pc, snap, handle, reply, answer, spawned>>
-------------------------------------------------------------------------------
CallStep(c) ==
    \/ Begin(c) \/ TakeLease(c) \/ AddWorktree(c) \/ CreateOrGet(c)
    \/ RecoverLease(c) \/ RemoveLease(c) \/ Claim(c) \/ ReserveStep(c) \/ SpawnRole(c)
    \/ \E cost \in Costs :
          \/ RoleFails(c, cost)
          \/ \E decision \in Decision : RoleAnswers(c, decision, cost)
    \/ RoleUnpriced(c) \/ RoleUnattributable(c) \/ RoleUnrecordable(c)
    \/ Acknowledge(c) \/ FailRole(c) \/ FailureUnsaved(c) \/ StoreThrows(c) \/ Crash(c)

ActorStep(k) == ActorReserve(k) \/ ActorSpawn(k) \/ ActorEnds(k) \/ ActorCrash(k)

Next == (\E c \in Calls : CallStep(c)) \/ (\E k \in Actors : ActorStep(k))

Spec == Init /\ [][Next]_vars
-------------------------------------------------------------------------------
Working == {"reserve", "spawn", "provider", "acknowledge", "role_failed"}

TypeOK ==
    /\ \A k \in DOMAIN rows : rows[k] \in Row
    /\ DOMAIN rows \subseteq Step \cup Actors
    /\ team \in Snapshot \cup {NoRun}
    /\ lease \in Calls \cup {Free} /\ worktree \in BOOLEAN
    /\ pc \in [Calls -> Working \cup {"idle", "allocate", "worktree", "create", "lease",
                                      "unlink", "claim", "done", "dead"}]
    /\ snap \in [Calls -> Snapshot \cup {NoRun}]
    /\ handle \in [Calls -> BOOLEAN]
    /\ reply \in [Calls -> {"none"} \cup Decision]
    /\ answer \in [Calls -> {"none", "converged", "exhausted", "rejected", "unknown", "threw"}]
    /\ actor \in [Actors -> {"idle", "reserved", "running"}]
    /\ DOMAIN spawned \subseteq DOMAIN rows
    /\ \A k \in DOMAIN spawned : spawned[k] \in Nat

(* No provider session is started twice under one key, whatever dies, overlaps *)
(* or asks again, and no role of the dispatch runs beside another: `running`   *)
(* is a claim nobody takes over.                                               *)
PaidOnce ==
    /\ \A k \in DOMAIN spawned : spawned[k] <= 1
    /\ \A c, d \in Calls : pc[c] \in Working /\ pc[d] \in Working => c = d

(* A role is only started when the one before it has been acknowledged: of all *)
(* sessions ever started, only the newest can be without a recorded outcome,   *)
(* and then it is the step the stored row names.                               *)
NoBlindReplay ==
    \A k \in DOMAIN spawned \cap Step :
        /\ team # NoRun
        /\ \/ k[2] \in DOMAIN team.outcomes /\ team.outcomes[k[2]][1] = k[1]
           \/ k = StepId(team) /\ team.state \in {"running", "failed"}

(* The two together: no session is paid for a second time.                     *)
NothingPaidTwice == PaidOnce /\ NoBlindReplay

(* The budget: the number of calls, and the charge beyond single overruns.     *)
WithinBudget == CallsAreBounded /\ ChargeIsBounded

(* The last 2n outcomes up to position m are n passes of the tester, each      *)
(* followed by a clean review.                                                 *)
Streak(outcomes, m, n) ==
    /\ 2 * n <= m
    /\ \A i \in 0 .. n - 1 :
          /\ outcomes[m - 2 * i] = <<"reviewer", "clean">>
          /\ outcomes[m - 2 * i - 1] = <<"tester", "pass">>

(* A team converges only on the required number of consecutive clean cycles of *)
(* the last implementation, and gives up only with its repairs exhausted, on a *)
(* refusal; the implementer runs at most once more than the repairs allow.     *)
Earned ==
    team # NoRun =>
        LET n == Len(team.outcomes)
            implementations == {i \in 1 .. n : team.outcomes[i][1] = "implementer"}
        IN /\ team.result = "converged" => Streak(team.outcomes, n, RequiredCleanCycles)
           /\ team.result = "exhausted" =>
                 /\ team.repairs = MaxRepairCycles
                 /\ team.outcomes[n][2] \in {"fail", "changes_requested"}
           /\ Cardinality(implementations) <= MaxRepairCycles + 1

(* An ending a call returned is the one the store holds, and a rejected role   *)
(* is the end of its dispatch: recorded as failed, or left running for ever,   *)
(* with no result ever, whatever other calls find in the store or had read     *)
(* before.  So no two calls are given different endings, crashes included.     *)
AnswersAgree ==
    \A c \in Calls :
        /\ answer[c] \in {"converged", "exhausted"} => team # NoRun /\ team.result = answer[c]
        /\ answer[c] = "rejected" =>
              /\ team # NoRun /\ team.result = "none"
              /\ \/ team.state = "failed"
                 \/ team.state = "running" /\ \A d \in Calls : pc[d] \notin Working

(* The two together: a team's ending is earned, and the one all calls report.  *)
EndingStands == Earned /\ AnswersAgree

(* Not so: a caller told of a rejection finds it in the store.  The worker     *)
(* swallows what kept role_failed out of the store and throws the rejection    *)
(* nevertheless, so the issue ends failed over a run that stays running.       *)
RejectionsAreRecorded ==
    \A c \in Calls : answer[c] = "rejected" => team # NoRun /\ team.state = "failed"
===============================================================================
