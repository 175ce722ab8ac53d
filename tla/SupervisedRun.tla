---------------------------- MODULE SupervisedRun ----------------------------
(* One task given to a sub-agent: Supervisor.run and runAttempt               *)
(* (app/supervisor.ts) over the sessions of adapters/subprocess-session.ts.   *)
(* Each attempt spawns a child process, forwards what it says until its       *)
(* session ends, verifies the workspace and retries a repairable failure; the *)
(* run ends with one report.  The interruption of the host (SIGINT) may come  *)
(* at any time.                                                               *)
(*                                                                            *)
(* The child is external: it writes lines and files, traps or ignores SIGTERM *)
(* and exits when it likes; between its exit and 'close' its pipes still hold *)
(* lines.  A line is what the adapter's parser makes of it.  The supervisor   *)
(* reads a session's queue in steps of its own, which is coarser than the     *)
(* microtasks of the code and allows a signal between any two of them.        *)
EXTENDS Naturals, Sequences

CONSTANTS
    Agents,      \* which parsers: "plain" ones leave the end of a session to the
                 \* process; "reaped" (codex) and "unreaped" (pi, grok) ones end it
                 \* on a line, and only the first kill the child then
    MaxRetries,  \* maxVerifyRetries
    MaxSaid,     \* bound: the events of a session
    Files        \* the files git status may list

Attempts == 1 .. (MaxRetries + 1)
Lines == {"event", "ok", "fail"}   \* the ones a parser makes something of
Signals == {"none", "term", "kill"}

ASSUME RunAssumption ==
    /\ Agents \subseteq {"plain", "reaped", "unreaped"}
    /\ MaxRetries \in Nat /\ MaxSaid \in Nat

VARIABLES
    agent, watches, verifies,   \* how the run is wired: the parser, a workspace, a verifier
    aborted,     \* the host's AbortSignal
    pc,          \* what runAttempt awaits: "merging", "verifying"; "done"
    attempt,     \* the attempt under way
    session,     \* the session of every attempt, with its child
    forwarded,   \* the events handed to the egress during this attempt
    outcome,     \* realSessionEnd and sessionOk of this attempt
    tree,        \* the files git status lists now
    baseline,    \* the first snapshot of the first attempt, <<>> when it saw none
    latest,      \* the last snapshot of this attempt, <<>> when it saw none
    report,      \* the report, <<>> before it is made
    written      \* history: the files the children have written

runVars == <<agent, watches, verifies, aborted, pc, attempt, session, forwarded,
             outcome, tree, baseline, latest, report, written>>
wiring == <<agent, watches, verifies>>
work == <<tree, written>>
seen == <<baseline, latest>>

Said(n) == [end |-> FALSE, n |-> n, ok |-> FALSE]
EndEvent(ok) == [end |-> TRUE, n |-> 0, ok |-> ok]

Unborn == [proc |-> "none", signal |-> "none", said |-> 0, queue |-> <<>>, ended |-> FALSE,
           cancelled |-> FALSE, killDue |-> FALSE, reapDue |-> FALSE]
Spawned == [Unborn EXCEPT !.proc = "alive"]
\* A child that cannot be spawned at all: the session is over before it begins.
EndedSession == [Unborn EXCEPT !.proc = "closed", !.ended = TRUE, !.queue = <<EndEvent(FALSE)>>]

-----------------------------------------------------------------------------
\* A session.

ChildAlive(s) == s.proc = "alive"

\* child.kill: nothing reaches a child that has exited; SIGKILL stays SIGKILL.
Kill(s, sig) ==
    IF ChildAlive(s) /\ s.signal # "kill" THEN [s EXCEPT !.signal = sig] ELSE s

Emit(s) ==
    [s EXCEPT !.said = @ + 1, !.queue = Append(@, Said(s.said + 1))]

\* The end is emitted once; it clears the timer of a cancellation.
EmitEnd(s, ok) ==
    IF s.ended THEN s
    ELSE [s EXCEPT !.queue = Append(@, EndEvent(ok)), !.ended = TRUE, !.killDue = FALSE]

\* Mutant: a child that is being cancelled is not told to go again.
ReapUncancelled(s) ==
    IF agent = "reaped" /\ ChildAlive(s) /\ ~s.cancelled
    THEN [Kill(s, "term") EXCEPT !.reapDue = TRUE] ELSE s

\* A child whose line ended the session is told to go, if the adapter asks for it.
Reap(s) ==
    IF agent = "reaped" /\ ChildAlive(s) THEN [Kill(s, "term") EXCEPT !.reapDue = TRUE] ELSE s

ProcessLine(s, line) ==
    IF s.ended \/ line = "none" THEN s
    ELSE IF line = "event" THEN Emit(s)
    ELSE Reap(EmitEnd(s, line = "ok"))

\* cancel is idempotent and does nothing once the session has ended.
Cancel(s) ==
    IF s.ended \/ s.cancelled THEN s
    ELSE [Kill(s, "term") EXCEPT !.cancelled = TRUE, !.killDue = ChildAlive(s)]

-----------------------------------------------------------------------------
\* The supervisor.

\* What subAgent.spawn may return.
Spawn == {Spawned, EndedSession}

RunInit ==
    /\ agent \in Agents
    /\ watches \in BOOLEAN
    /\ verifies \in BOOLEAN
    /\ aborted \in BOOLEAN
    /\ pc = "merging"
    /\ attempt = 1
    /\ \E s \in Spawn : session = [a \in Attempts |->
           IF a > 1 THEN Unborn ELSE IF aborted THEN Cancel(s) ELSE s]
    /\ forwarded = <<>>
    /\ outcome = [real |-> FALSE, ok |-> FALSE]
    /\ tree \in IF watches THEN SUBSET Files ELSE {{}}
    /\ baseline = <<>> /\ latest = <<>>
    /\ report = <<>>
    /\ written = {}

Set(a, s) == session' = [session EXCEPT ![a] = s]

\* The host's interruption, heard only while the attempt listens; once the run
\* is over nothing looks at it.
Abort ==
    /\ ~aborted
    /\ pc # "done"
    /\ aborted' = TRUE
    /\ Set(attempt, IF pc = "merging" THEN Cancel(session[attempt]) ELSE session[attempt])
    /\ UNCHANGED <<wiring, pc, attempt, forwarded, outcome, seen, work, report>>

\* The merged stream hands over the session's next event; its end is kept, not forwarded.
Take ==
    /\ pc = "merging"
    /\ session[attempt].queue # <<>>
    /\ LET e == Head(session[attempt].queue) IN
       IF e.end
       THEN /\ pc' = "verifying"
            /\ outcome' = [real |-> TRUE, ok |-> e.ok]
            /\ UNCHANGED forwarded
       ELSE /\ forwarded' = Append(forwarded, e.n)
            /\ UNCHANGED <<pc, outcome>>
    /\ Set(attempt, [session[attempt] EXCEPT !.queue = Tail(@)])
    /\ UNCHANGED <<wiring, aborted, attempt, seen, work, report>>

\* The merged stream hands over a snapshot; the watch ends with the interruption.
Poll ==
    /\ pc = "merging"
    /\ watches /\ ~aborted
    /\ latest' = <<tree>>
    /\ baseline' = IF attempt = 1 /\ baseline = <<>> THEN <<tree>> ELSE baseline
    /\ UNCHANGED <<wiring, aborted, pc, attempt, session, forwarded, outcome, work, report>>

\* An input stream rejects: an end is made up, the child may be alive.
StreamBreaks ==
    /\ pc = "merging"
    /\ watches
    /\ pc' = "verifying"
    /\ outcome' = [real |-> FALSE, ok |-> FALSE]
    /\ UNCHANGED <<wiring, aborted, attempt, session, forwarded, seen, work, report>>

\* What the verifier may answer: "verify" stands for its timeout or its exception.
Verdicts == IF verifies THEN {"pass", "fail", "verify"} ELSE {"skipped"}

\* Mutant: an attempt is repeated although the end of its session was made up.
CanRetryUnended(verdict) ==
    attempt <= MaxRetries /\ verdict = "fail" /\ ~aborted

\* An attempt is repeated for a failed check only, within the bound, and never
\* after an interruption or without a session's own end.
CanRetry(verdict) ==
    /\ attempt <= MaxRetries
    /\ outcome.real
    /\ verdict = "fail"
    /\ ~aborted

\* diffWorkspaceChange: what the last snapshot lists and the baseline did not.
Changes ==
    IF latest = <<>> THEN {}
    ELSE IF baseline = <<>> THEN latest[1] ELSE latest[1] \ baseline[1]

\* The teardown of an attempt cancels a session whose end was not seen.
TornDown == IF outcome.real THEN session[attempt] ELSE Cancel(session[attempt])

\* runAttempt returns: another attempt is spawned, or the report is made.
Verified(verdict) ==
    /\ pc = "verifying"
    /\ verdict \in Verdicts
    /\ IF CanRetry(verdict)
       THEN /\ pc' = "merging"
            /\ attempt' = attempt + 1
            /\ \E s \in Spawn : session' = [session EXCEPT ![attempt] = TornDown, ![attempt + 1] = s]
            /\ forwarded' = <<>>
            /\ outcome' = [real |-> FALSE, ok |-> FALSE]
            /\ UNCHANGED report
       ELSE /\ pc' = "done"
            /\ Set(attempt, TornDown)
            /\ report' = <<[ok |-> outcome.ok, verdict |-> verdict, files |-> Changes]>>
            /\ UNCHANGED <<attempt, forwarded, outcome>>
    /\ latest' = <<>>
    /\ UNCHANGED <<wiring, aborted, baseline, work>>

-----------------------------------------------------------------------------
\* The children and their timers.

\* Lines only the parsers of some agents turn into an end.
Understood == IF agent = "plain" THEN {"event"} ELSE
              IF agent = "reaped" THEN Lines ELSE {"event", "fail"}

\* A pipe delivers the end of a line; what precedes it waits in #stdoutBuf.
Stdout(a) ==
    LET s == session[a] IN
    /\ s.proc \in {"alive", "exited"}
    /\ ~s.ended
    /\ \E line \in Understood :
        /\ line = "event" => s.said < MaxSaid
        /\ Set(a, ProcessLine(s, line))
    /\ UNCHANGED <<wiring, aborted, pc, attempt, forwarded, outcome, seen, work, report>>

\* A line longer than the limit: the child is killed and the session is over.
Overflow(a) ==
    LET s == session[a] IN
    /\ s.proc \in {"alive", "exited"}
    /\ ~s.ended
    /\ Set(a, EmitEnd(Kill(s, "kill"), FALSE))
    /\ UNCHANGED <<wiring, aborted, pc, attempt, forwarded, outcome, seen, work, report>>

\* 'error': the program is not there; no process was ever alive.
SpawnError(a) ==
    LET s == session[a] IN
    /\ ChildAlive(s)
    /\ s.said = 0 /\ ~s.ended
    /\ Set(a, [EmitEnd(s, FALSE) EXCEPT !.proc = "closed"])
    /\ UNCHANGED <<wiring, aborted, pc, attempt, forwarded, outcome, seen, work, report>>

\* The child is gone: on its own, also when asked, or because it was killed.
Exit(a) ==
    /\ ChildAlive(session[a])
    /\ Set(a, [session[a] EXCEPT !.proc = "exited"])
    /\ UNCHANGED <<wiring, aborted, pc, attempt, forwarded, outcome, seen, work, report>>

\* 'close': what is left in #stdoutBuf is the last line, then the exit decides.
\* success is the code 0, which a child may also return when it was asked to stop.
Close(a) ==
    LET s == session[a] IN
    /\ s.proc = "exited"
    /\ \E success \in BOOLEAN, rest \in Understood \union {"none"} :
        /\ success => s.signal # "kill"
        /\ rest = "event" => s.said < MaxSaid
        /\ Set(a, [EmitEnd(ProcessLine(s, rest), success)
                     EXCEPT !.proc = "closed", !.signal = "none", !.reapDue = FALSE])
    /\ UNCHANGED <<wiring, aborted, pc, attempt, forwarded, outcome, seen, work, report>>

\* The grace of a cancellation, or of a session that ended itself, is over.
KillDue(a) ==
    LET s == session[a] IN
    /\ s.killDue \/ s.reapDue
    /\ Set(a, [Kill(s, "kill") EXCEPT !.killDue = FALSE, !.reapDue = FALSE])
    /\ UNCHANGED <<wiring, aborted, pc, attempt, forwarded, outcome, seen, work, report>>

\* A living child writes a file or undoes its change; what nobody looks at is left out.
Write(a) ==
    /\ ChildAlive(session[a])
    /\ watches /\ pc # "done"
    /\ \E f \in Files :
        /\ tree' = IF f \in tree THEN tree \ {f} ELSE tree \union {f}
        /\ written' = written \union {f}
    /\ UNCHANGED <<wiring, aborted, pc, attempt, session, forwarded, outcome, seen, report>>

RunNext ==
    \/ Abort \/ Take \/ Poll \/ StreamBreaks
    \/ \E verdict \in Verdicts : Verified(verdict)
    \/ \E a \in Attempts :
        Stdout(a) \/ Overflow(a) \/ SpawnError(a) \/ Exit(a) \/ Close(a) \/ KillDue(a) \/ Write(a)

\* What a child comes to without its own doing: timers expire, a killed process
\* dies and the pipes of a dead one are closed.
Subsides(a) == KillDue(a) \/ Close(a) \/ (session[a].signal = "kill" /\ Exit(a))

\* The event loop reads what is there and the verifier answers or meets its
\* deadline.  A child that nobody kills need not end.
RunSpec ==
    /\ RunInit /\ [][RunNext]_runVars
    /\ WF_runVars(Take \/ \E verdict \in Verdicts : Verified(verdict))
    /\ \A a \in Attempts : WF_runVars(Subsides(a))

-----------------------------------------------------------------------------
RunTypeOK ==
    /\ agent \in Agents /\ watches \in BOOLEAN /\ verifies \in BOOLEAN /\ aborted \in BOOLEAN
    /\ pc \in {"merging", "verifying", "done"}
    /\ attempt \in Attempts
    /\ session \in [Attempts -> [
            proc : {"none", "alive", "exited", "closed"}, signal : Signals, said : 0 .. MaxSaid,
            queue : Seq([end : BOOLEAN, n : 0 .. MaxSaid, ok : BOOLEAN]),
            ended : BOOLEAN, cancelled : BOOLEAN, killDue : BOOLEAN, reapDue : BOOLEAN]]
    /\ forwarded \in Seq(1 .. MaxSaid)
    /\ outcome \in [real : BOOLEAN, ok : BOOLEAN]
    /\ tree \subseteq Files /\ written \subseteq Files
    /\ baseline \in {<<>>} \union {<<fs>> : fs \in SUBSET Files}
    /\ latest \in {<<>>} \union {<<fs>> : fs \in SUBSET Files}
    /\ report \in {<<>>} \union {<<r>> : r \in
            [ok : BOOLEAN, verdict : {"pass", "fail", "verify", "skipped"}, files : SUBSET Files]}

\* The transcript of an attempt is a prefix of what its session said, and the
\* whole of it, the unfinished last line included, when the session's end was seen.
TranscriptIsWhole ==
    LET s == session[attempt] IN
    /\ \A i \in 1 .. Len(forwarded) : forwarded[i] = i
    /\ Len(forwarded) <= s.said
    /\ pc # "merging" /\ outcome.real => Len(forwarded) = s.said /\ s.ended

\* A session that is over has left no child alive that nobody asked to go; the
\* supervisor relies on it when it does not cancel a session that ended.
EndedChildIsDoomed ==
    \A a \in Attempts :
        session[a].ended /\ ChildAlive(session[a]) /\ agent # "unreaped" => session[a].signal # "none"

\* No attempt begins while an earlier one still listens to its child.
EarlierSessionsAreOver == \A a \in Attempts : a < attempt => session[a].ended

\* The report counts nothing that was dirty before the children came, once the
\* first attempt has seen the workspace.
CountsOnlyWork == report # <<>> /\ baseline # <<>> => report[1].files \subseteq written

\* A report calls the session a success only when it has seen its end, carries
\* the verdict of a verifier when there is one, and leaves no repair untried.
ReportIsGrounded ==
    report # <<>> =>
        /\ report[1].ok => outcome.real
        /\ (report[1].verdict = "skipped") = ~verifies
        /\ report[1].verdict = "fail" => ~outcome.real \/ aborted \/ attempt = MaxRetries + 1

\* What a run tells and leaves behind is true, whatever its children do and
\* whenever it is interrupted.
HonestRun ==
    /\ RunTypeOK /\ TranscriptIsWhole /\ EndedChildIsDoomed /\ EarlierSessionsAreOver
    /\ CountsOnlyWork /\ ReportIsGrounded

\* An interrupted run ends with its report, and a run that has ended is not
\* survived by a child, unless its parser ends sessions without reaping.
RunComesToRest ==
    (aborted \/ pc = "done")
        ~> (pc = "done" /\ (agent # "unreaped" => \A a \in Attempts : ~ChildAlive(session[a])))

\* Refuted: the workspace is counted from the first snapshot of the first attempt;
\* when that one ended before git answered, a retry counts all that was dirty.
BlamesOnlyTheAgent == report # <<>> => report[1].files \subseteq written

\* Refuted: a child that answers SIGTERM by exiting with code 0 ends a cancelled
\* session as a success.
CancelledIsNoSuccess ==
    report # <<>> /\ session[attempt].cancelled => ~report[1].ok

\* Refuted for parsers that end a session on a line and do not reap.
NoChildOutlivesItsSession ==
    \A a \in Attempts : session[a].ended /\ ChildAlive(session[a]) => session[a].signal # "none"
=============================================================================
