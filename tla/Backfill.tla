------------------------------ MODULE Backfill ------------------------------
(***************************************************************************)
(* Backfill over the chat log: the chat_backfill jobs (history/jobs.py),   *)
(* the fill of a channel's gaps (history/backfill.py) and the provider     *)
(* that asks the history service (history/provider.py), in a process that  *)
(* starts, stops and crashes (__main__.py).                                *)
(*                                                                         *)
(* The job runtime and the service are not part of the repository: the     *)
(* runtime runs one of the jobs that wait at a time and keeps them across  *)
(* crashes, and the service answers an attempt, or does not.               *)
(***************************************************************************)
EXTENDS ChatLog, FiniteSetsExt

CONSTANTS
  Archive,      \* what the service has, oldest first
  Gap,          \* the interruptions in the log, [from, to]
  Grace,        \* GAP_GRACE_MS
  Limit,        \* DEFAULT_LIMIT: lines on a page
  MaxTurns      \* bound: how often the process ends or a day passes

TimeOf(e) == IF e.kind = "message" THEN SentAt[e.msg] ELSE e.at

ASSUME BackfillAssumption ==
  /\ Archive \in Seq(Event)
  /\ \A i, j \in DOMAIN Archive : i <= j => TimeOf(Archive[i]) <= TimeOf(Archive[j])
  /\ IsFiniteSet(Gap) /\ \A g \in Gap : g \in [from : Nat, to : Nat] /\ g.from < g.to
  /\ Grace \in Nat /\ Limit \in Nat \ {0}

VARIABLES
  proc,     \* the process: up, stopping its jobs, draining the writer, or down
  paused,   \* IvrLogsProvider asks nothing more until the next day
  job,      \* the job that runs, and its fill
  waiting,  \* a job waits to be run
  runs,     \* backfill_runs, as it is read: per gap, whether a run was complete and the newest line
  lost,     \* history: lines that were on their way when a process ended
  turns     \* how often the process ended or a day passed

fillVars == <<proc, paused, job, waiting, runs, lost, turns>>
backfillVars == <<logVars, fillVars>>

\* No line of a gap was stored yet (reached_ms IS NULL).
Nothing == 0
NoRun == [complete |-> FALSE, reached |-> Nothing]

NoJob == [at |-> "none", cancel |-> FALSE]

BackfillInit ==
  /\ LogInit
  /\ proc = "up" /\ paused = FALSE
  /\ job = NoJob /\ waiting = FALSE /\ runs = [g \in Gap |-> NoRun] /\ lost = {} /\ turns = 0

-----------------------------------------------------------------------------
(* What is open, and where a fill goes on. *)

\* open_gaps: no run has filled them completely.
OpenGaps == {g \in Gap : ~runs[g].complete}

\* sorted(gaps) by where they begin.
ByStart(gs) == {s \in [1 .. Cardinality(gs) -> gs] : ToSet(s) = gs /\ \A i, j \in DOMAIN s : i <= j => s[i].from <= s[j].from}

\* _resume_points: the newest line stored for a gap.
Resume(g) == runs[g].reached

\* Mutant: a fill goes on after the newest line, instead of at it.
StartOfNext(g) == IF Resume(g) # Nothing THEN Resume(g) + 1 ELSE Max({g.from - Grace, 0})

\* Where the requests for a gap begin: the grace before it, or the line reached.
StartOf(g) == Max({g.from - Grace, 0, Resume(g)})

\* How many of the service's lines are from before a time.
Before(time) == Cardinality({i \in DOMAIN Archive : TimeOf(Archive[i]) < time})

\* One page of those from start to the end of the gap.  The service's `limit` is where a page ends.
Page(start, g, offset) ==
  LET first == Before(start) + offset
  IN SubSeq(Archive, first + 1, Min({first + Limit, Before(g.to + 1)}))

-----------------------------------------------------------------------------
(* BackfillJobs: queueing and cancelling.  The channel's consent may change at any time, so *)
(* every look at it is a choice: a step that finds none is refused and changes nothing.    *)

\* queue_gaps, at a start, a reconnect or by hand: a second job joins the one that waits.
\* A job for a range asked for by hand is the same fill, over that one range.
QueueGaps ==
  /\ proc = "up" /\ OpenGaps # {}
  /\ waiting' = TRUE
  /\ UNCHANGED <<logVars, proc, paused, job, runs, lost, turns>>

\* cancel: a job that waits is gone, one that runs is asked to stop.
Cancel ==
  /\ proc = "up"
  /\ \/ waiting /\ waiting' = FALSE /\ UNCHANGED job
     \/ job.at # "none" /\ ~job.cancel /\ job' = [job EXCEPT !.cancel = TRUE] /\ UNCHANGED waiting
  /\ UNCHANGED <<logVars, proc, paused, runs, lost, turns>>

-----------------------------------------------------------------------------
(* The step `fill` and fill_many. *)

\* should_stop and check_stop: the job is cancelled, or the runtime closes.
StopAsked == job.cancel \/ proc # "up"

\* A job that has just been started.
Fresh ==
  [at |-> "beginning", cancel |-> FALSE, left |-> <<>>, start |-> 0, offset |-> 0,
   reached |-> Nothing, page |-> <<>>, full |-> FALSE, outcomes |-> <<>>, error |-> "none"]

\* The fill is at gap left[1], from its first page on.
AtGap(j, left) ==
  [j EXCEPT !.at = "asking", !.left = left, !.start = StartOf(left[1]), !.reached = Resume(left[1]), !.offset = 0,
            !.full = FALSE]

\* The fill is past its gaps.
Recording(j, outcomes, error) ==
  [Fresh EXCEPT !.at = "recording", !.cancel = j.cancel, !.outcomes = outcomes, !.error = error]

\* The runtime starts one job that waits; every job takes the same lock.
StartJob ==
  /\ proc = "up" /\ job.at = "none" /\ waiting
  /\ waiting' = FALSE
  /\ job' = Fresh
  /\ UNCHANGED <<logVars, proc, paused, runs, lost, turns>>

\* The head of `fill`: without consent the job cancels itself; otherwise the gaps that are
\* open now.
Begin ==
  /\ job.at = "beginning"
  /\ \/ job' = NoJob
     \/ \E gaps \in ByStart(OpenGaps) : gaps # <<>> /\ job' = AtGap([job EXCEPT !.outcomes = <<>>, !.error = "none"], gaps)
  /\ UNCHANGED <<logVars, proc, paused, waiting, runs, lost, turns>>

Outcome(g, complete, reached) == [gap |-> g, complete |-> complete, reached |-> reached]

\* A gap is done with.  After an error the gaps behind it are not asked for.
EndGap(j, error) ==
  LET done == Append(j.outcomes, Outcome(j.left[1], error = "none", j.reached))
      rest == [i \in 1..Len(j.left) - 1 |-> Outcome(j.left[i + 1], FALSE, Resume(j.left[i + 1]))]
  IN IF error # "none" THEN Recording(j, done \o rest, error)
     ELSE IF Len(j.left) = 1 THEN Recording(j, done, "none")
     ELSE AtGap([j EXCEPT !.outcomes = done], Tail(j.left))

\* Before each request the fill looks whether it must stop, and whether the provider pauses.
Ask ==
  /\ job.at = "asking" /\ (StopAsked \/ paused)
  /\ job' = EndGap(job, IF StopAsked THEN "stopped" ELSE "paused")
  /\ UNCHANGED <<logVars, proc, paused, waiting, runs, lost, turns>>

\* fetch and _get: what a request comes to, with its retries.
Fetch ==
  /\ job.at = "asking" /\ ~StopAsked /\ ~paused
  /\ \/ \* The budget of the day is spent, or MAX_FAILURES attempts failed.
        paused' = TRUE /\ job' = EndGap(job, "paused")
     \/ \* /channels does not name the channel.
        job' = EndGap(job, "not_logged") /\ UNCHANGED paused
     \/ \* Any other refusal: request_failed, http_<status>.
        job' = EndGap(job, "refused") /\ UNCHANGED paused
     \/ LET page == Page(job.start, job.left[1], job.offset)
        IN /\ job' = [job EXCEPT !.at = "storing", !.page = page, !.full = Len(page) >= Limit,
                                 !.offset = @ + Len(page)]
           /\ UNCHANGED paused
  /\ UNCHANGED <<logVars, proc, waiting, runs, lost, turns>>

\* _store: the next line of the page.  The fill waits while its operations find no room.
Store ==
  /\ job.at = "storing" /\ job.page # <<>> /\ putting[Fill] = <<>>
  /\ PutAll(Fill, Ops(Head(job.page), "ivr-logs"))
  /\ job' = [job EXCEPT !.page = Tail(@), !.reached = Max({@, TimeOf(Head(job.page))})]
  /\ UNCHANGED <<taken, writer, heard, waited, log, dropped>>
  /\ UNCHANGED <<proc, paused, waiting, runs, lost, turns>>

\* A page that comes back short is the last.
PageDone ==
  /\ job.at = "storing" /\ job.page = <<>> /\ putting[Fill] = <<>>
  /\ job' = IF job.full THEN [job EXCEPT !.at = "asking", !.full = FALSE] ELSE EndGap(job, "none")
  /\ UNCHANGED <<logVars, proc, paused, waiting, runs, lost, turns>>

\* A stopped job is cancelled if it was asked to be, and waits for the next start otherwise.
Stopped == waiting' = (waiting \/ ~job.cancel)

\* fill_many has returned: the job is over, is retried, or waits for the next day.
EndFill ==
  \/ job.error \in {"none", "not_logged"} /\ job' = NoJob /\ UNCHANGED waiting
  \/ job.error = "stopped" /\ job' = NoJob /\ Stopped
  \/ job.error = "paused" /\ job' = [Fresh EXCEPT !.at = "pausing", !.cancel = job.cancel] /\ UNCHANGED waiting
  \/ job.error = "refused" /\ job' = NoJob /\ waiting' \in {waiting, TRUE}

\* _record: one row, one transaction.
Record ==
  /\ job.at = "recording"
  /\ LET o == Head(job.outcomes)
     IN runs' = [runs EXCEPT ![o.gap] = [complete |-> @.complete \/ o.complete, reached |-> Max({@.reached, o.reached})]]
  /\ IF Len(job.outcomes) = 1 THEN EndFill
     ELSE job' = [job EXCEPT !.outcomes = Tail(@)] /\ UNCHANGED waiting
  /\ UNCHANGED <<logVars, proc, paused, lost, turns>>

\* The wait for the provider, which looks for a cancel.
Pause ==
  /\ job.at = "pausing"
  /\ \/ StopAsked /\ job' = NoJob /\ Stopped
     \/ ~StopAsked /\ ~paused /\ job' = [job EXCEPT !.at = "beginning"] /\ UNCHANGED waiting
  /\ UNCHANGED <<logVars, proc, paused, runs, lost, turns>>

JobStep == Begin \/ Ask \/ Fetch \/ Store \/ PageDone \/ Record \/ Pause

-----------------------------------------------------------------------------
(* The process. *)

\* The next UTC day: the budget is whole again, and a pause is over.
\* Bound: a day passes while the provider is paused.
NewDay ==
  /\ turns < MaxTurns /\ paused /\ turns' = turns + 1 /\ paused' = FALSE
  /\ UNCHANGED <<logVars, proc, job, waiting, runs, lost>>

\* Bound: live events come before the first turn.
HearEvent(e) == proc # "down" /\ turns = 0 /\ Hear(e) /\ UNCHANGED fillVars

\* run() is asked to end: the job runtime closes first.
Stop_ ==
  /\ proc = "up" /\ turns < MaxTurns /\ proc' = "stopping"
  /\ UNCHANGED <<logVars, paused, job, waiting, runs, lost, turns>>

\* Mutant: the writer is stopped while a job still fills.
StopWriterEarly ==
  /\ proc = "stopping" /\ Room > 0
  /\ queue' = Append(queue, Stop) /\ proc' = "draining"
  /\ UNCHANGED <<taken, writer, putting, heard, waited, late, log, dropped>>
  /\ UNCHANGED <<paused, job, waiting, runs, lost, turns>>

\* ChatLogWriter.stop, once the runtime has closed: the sentinel waits for room too.
StopWriter ==
  /\ proc = "stopping" /\ job.at = "none" /\ Room > 0
  /\ queue' = Append(queue, Stop) /\ proc' = "draining"
  /\ UNCHANGED <<taken, writer, putting, heard, waited, late, log, dropped>>
  /\ UNCHANGED <<paused, job, waiting, runs, lost, turns>>

\* The lines of the archive among some operations.
LinesOf(ops) ==
  {e \in ToSet(Archive) : \E o \in ops : \/ /\ o.op = "message" /\ e.kind = "message"
                                          /\ o.msg = e.msg
                                       \/ /\ o.op = "mod_event" /\ o.event = e}

\* The process is gone, with what was in its memory.
Gone ==
  /\ proc' = "down" /\ turns' = turns + 1 /\ lost' = lost \cup LinesOf(Underway)
  /\ queue' = <<>> /\ taken' = <<>> /\ putting' = [p \in Producer |-> <<>>] /\ writer' = "stopped"
  /\ heard' = <<>> /\ waited' = {} /\ late' = {} /\ UNCHANGED <<log, dropped, runs>>

\* The writer's task is over, then the databases are closed.
Exit ==
  /\ proc = "draining" /\ job.at = "none" /\ writer = "stopped"
  /\ Gone /\ UNCHANGED <<paused, job, waiting>>

\* Killed: the runtime queues the running job again when it starts.
Killed ==
  /\ proc # "down" /\ turns < MaxTurns
  /\ Gone /\ job' = NoJob
  /\ IF job.at = "none" THEN UNCHANGED waiting ELSE Stopped
  /\ UNCHANGED paused

\* run() starts: the writer, the provider, and queue_startup.
Boot ==
  /\ proc = "down" /\ proc' = "up" /\ writer' = "taking" /\ paused' = FALSE
  /\ \/ UNCHANGED waiting
     \/ OpenGaps # {} /\ waiting' = TRUE
  /\ UNCHANGED <<queue, taken, putting, heard, waited, late, log, dropped, job, runs, lost, turns>>

WriterAlone == proc # "down" /\ WriterStep /\ UNCHANGED fillVars

PutAlone(p) == proc # "down" /\ PutMore(p) /\ UNCHANGED fillVars

BackfillNext ==
  \/ QueueGaps \/ Cancel \/ StartJob \/ JobStep \/ NewDay
  \/ \E e \in Live : HearEvent(e)
  \/ WriterAlone \/ \E p \in Producer : PutAlone(p)
  \/ Stop_ \/ StopWriter \/ Exit \/ Killed \/ Boot

BackfillSpec == BackfillInit /\ [][BackfillNext]_backfillVars

\* The event loop goes on: the writer, the producers that find room, and the job with its
\* requests (which have a timeout) and then the rest of a stop.
BackfillFairness ==
  /\ WF_backfillVars(WriterAlone) /\ WF_backfillVars(\E p \in Producer : PutAlone(p))
  /\ WF_backfillVars(JobStep \/ StopWriter \/ Exit)

BackfillFairSpec == BackfillSpec /\ BackfillFairness

-----------------------------------------------------------------------------

\* A line of the archive is in the log, on its way there, or gone with a process or a row
\* that the database refused.
InLog(e) == IF e.kind = "message" THEN log.messages[e.msg] # NoRow ELSE e \in log.mods
Kept(e) == InLog(e) \/ e \in LinesOf(Underway \cup dropped) \cup lost

\* What a fill has recorded is what it stored: a gap is only noted as complete when every
\* line of it was stored, and where the next fill resumes everything before was.
FilledMeansKept ==
  \A g \in DOMAIN runs : \A i \in DOMAIN Archive :
    LET e == Archive[i]
    IN (g.from <= TimeOf(e) /\ TimeOf(e) <= IF runs[g].complete THEN g.to ELSE runs[g].reached - 1) => Kept(e)

Heard(e) == CHOOSE i \in DOMAIN heard : heard[i] = e

\* A live deletion finds its message: once both are written, the row says it was deleted,
\* unless a handler had to wait for room (then the two interleave) or a row was lost.
ModerationApplied ==
  \A d \in Live : \A m \in Message :
    LET message == [kind |-> "message", msg |-> m]
        ops == ToSet(Ops(message, "eventsub")) \cup ToSet(Ops(d, "eventsub"))
    IN (/\ d.kind = "delete" /\ d.msg = m /\ {d, message} \subseteq ToSet(heard)
        /\ Heard(message) < Heard(d) /\ {d, message} \cap waited = {}
        /\ ops \cap (Underway \cup dropped) = {})
       => log.messages[m] # NoRow /\ log.messages[m].deleted

\* What is asked to stop does: a cancelled job, also one that waits out a pause of the
\* provider, and a process, whose job comes to its next request however full the queue is
\* that its lines go to, and whose writer ends only then.
StopsEnd == StopAsked ~> job.at = "none" /\ proc \in {"up", "down"}

=============================================================================
