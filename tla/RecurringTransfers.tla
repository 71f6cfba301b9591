------------------------- MODULE RecurringTransfers -------------------------
(***************************************************************************)
(* plugins/scheduler_plugin.py with the /api/transfers endpoints of        *)
(* server.py and the notices of plugins/notification_plugin.py.            *)
(*                                                                         *)
(* The jobs are kept twice, in the dictionary jobs and as jobs of          *)
(* APScheduler (timers), and on disk from one clean shutdown to the next   *)
(* start.  Every handler runs without a suspension, but a job that is due  *)
(* runs as a task of its own, after whatever comes in between.  The        *)
(* process may stop cleanly, with shutdown(), or crash.                    *)
(*                                                                         *)
(* Hosted says whether a host calls initialize() and shutdown() of the     *)
(* plugin; the tests start the scheduler by hand.  Amounts and currencies  *)
(* are left out, and so is the text of notices.                            *)
(***************************************************************************)
EXTENDS Naturals, Sequences, SequencesExt, FiniteSets

CONSTANTS Users, Recipients,
          Phones,        \* the recipients that begin with "+"
          Frequencies,   \* "daily", "every 5 minutes", ...: what schedules may ask for
          Scheduled,     \* those schedule_transfer_action knows
          Rebuilt,       \* those _build_trigger knows
          Hosted,
          Missing, Torn, \* no file, a file json cannot parse
          MaxClock, MaxJobs, MaxRuns, MaxStarts  \* bounds

Ids == Users \X (0 .. MaxClock)    \* transfer_{user}_{second}
Job == [id : Ids, recipient : Recipients, frequency : Frequencies]

ASSUME RecurringAssumption ==
    /\ Phones \subseteq Recipients
    /\ Scheduled \subseteq Frequencies
    /\ Hosted \in BOOLEAN
    /\ {MaxClock, MaxJobs, MaxRuns, MaxStarts} \subseteq Nat
    /\ {Missing, Torn} \cap Seq(Job) = {}

VARIABLES jobs,     \* self.jobs, in the order of the dictionary
          timers,   \* the jobs of the scheduler
          due,      \* runs submitted and not begun
          history,  \* _execution_history: key -> recipients of the runs, in order
          file,     \* scheduled_jobs.json: Missing, Torn or the jobs
          notice,   \* the channels that took the last notice
          up,       \* the process runs
          clock,      \* int(datetime.now().timestamp())
          starts

recurringVars == <<jobs, timers, due, history, file, notice, up, clock, starts>>

NoJob(u) == <<u>>                 \* transfer_{user}, the fallback
HistoryKeys == Ids \cup {NoJob(u) : u \in Users}
UserOf(job) == job.id[1]

RecurringInit ==
    /\ jobs = <<>> /\ timers = {} /\ due = <<>>
    /\ history = [k \in HistoryKeys |-> <<>>]
    /\ file = Missing
    /\ notice = {}
    /\ up = TRUE
    /\ clock = 0 /\ starts = 0

-----------------------------------------------------------------------------
(* Schedules *)

Listed(id) == \E i \in DOMAIN jobs : jobs[i].id = id
Known == {jobs[i].id : i \in DOMAIN jobs}

(* What s has of a set, in its order; recursive as a function, so that it  *)
(* can be reasoned about.                                                  *)
Only(s, wanted) ==
    LET kept[n \in 0 .. Len(s)] ==
            IF n = 0 THEN <<>>
            ELSE IF s[n] \in wanted THEN Append(kept[n - 1], s[n]) ELSE kept[n - 1]
    IN  kept[Len(s)]

Unnamed(id) == {job \in ToSet(jobs) : job.id # id}

(* A dictionary keeps the place of a key it has.                           *)
Assigned(s, job) ==
    IF \E i \in DOMAIN s : s[i].id = job.id
    THEN [i \in DOMAIN s |-> IF s[i].id = job.id THEN job ELSE s[i]]
    ELSE Append(s, job)

(* add_job with replace_existing.                                          *)
AddJob(ts, job) == {t \in ts : t.id # job.id} \cup {job}

(* schedule_transfer_action.  A scheduler that was never started has no    *)
(* next_run_time for the job: the handler fails behind add_job.            *)
Schedule(u, recipient, frequency) ==
    LET job == [id |-> <<u, clock>>, recipient |-> recipient, frequency |-> frequency] IN
    /\ up
    /\ Len(jobs) < MaxJobs
    /\ frequency \in Scheduled
    /\ timers' = AddJob(timers, job)
    /\ jobs' = IF Hosted THEN Assigned(jobs, job) ELSE jobs
    /\ UNCHANGED <<due, history, file, notice, up, clock, starts>>

(* Mutant: the scheduler keeps the job.                                    *)
ForgetJob(id) ==
    /\ jobs' = Only(jobs, Unnamed(id))
    /\ UNCHANGED timers

(* remove_job, then del self.jobs[...].                                    *)
RemoveJob(id) ==
    /\ jobs' = Only(jobs, Unnamed(id))
    /\ timers' = {t \in timers : t.id # id}

(* cancel_transfer_action: of a job that is listed.                        *)
Cancel(id) ==
    /\ up
    /\ Listed(id)
    /\ RemoveJob(id)
    /\ UNCHANGED <<due, history, file, notice, up, clock, starts>>

-----------------------------------------------------------------------------
(* Runs *)

(* The trigger of a job fires: the executor makes a task of it, unless the *)
(* last one has not run yet (max_instances).                               *)
Fire(t) ==
    /\ up /\ Hosted
    /\ \A i \in DOMAIN due : due[i].id # t.id
    /\ Len(due) + FoldFunction(+, 0, [k \in HistoryKeys |-> Len(history[k])]) < MaxRuns
    /\ due' = Append(due, t)
    /\ UNCHANGED <<jobs, timers, history, file, notice, up, clock, starts>>

(* The first listed job of the same user and recipient, or the fallback.   *)
RecordedUnder(job) ==
    LET same == {i \in DOMAIN jobs : /\ UserOf(jobs[i]) = UserOf(job)
                                     /\ jobs[i].recipient = job.recipient}
    IN  IF same = {} THEN NoJob(UserOf(job))
        ELSE jobs[CHOOSE i \in same : \A k \in same : i <= k].id

(* notify_transfer_complete: WhatsApp, else SMS, for a phone number;       *)
(* Telegram where a chat is configured.  Any channel may be off or fail.   *)
Notices(recipient) ==
    IF recipient \in Phones
    THEN SUBSET {"whatsapp", "telegram"} \cup SUBSET {"sms", "telegram"}
    ELSE SUBSET {"telegram"}

(* Mutant: a run whose job was cancelled is not recorded.                  *)
RecordListed(job) ==
    history' = IF Listed(RecordedUnder(job))
               THEN [history EXCEPT ![RecordedUnder(job)] = Append(@, job.recipient)]
               ELSE history

RecordRun(job) ==
    history' = [history EXCEPT ![RecordedUnder(job)] = Append(@, job.recipient)]

(* _execute_recurring_transfer: it records and notifies, and moves nothing.*)
Run ==
    /\ up
    /\ due # <<>>
    /\ due' = Tail(due)
    /\ RecordRun(Head(due))
    /\ notice' \in Notices(Head(due).recipient)
    /\ UNCHANGED <<jobs, timers, file, up, clock, starts>>

-----------------------------------------------------------------------------
(* Stop and start *)

(* _save_jobs truncates the file and then writes it; what goes wrong is    *)
(* swallowed, before or behind the truncation.                             *)
SaveJobs == file' = jobs \/ file' = Torn \/ UNCHANGED file

Down ==
    /\ up' = FALSE
    /\ jobs' = <<>> /\ timers' = {} /\ due' = <<>>
    /\ history' = [k \in HistoryKeys |-> <<>>]
    /\ notice' = {}
    /\ UNCHANGED <<clock, starts>>

Stop == up /\ Hosted /\ SaveJobs /\ Down

Crash == up /\ UNCHANGED file /\ Down

(* _build_trigger: a frequency it does not know yields no trigger.         *)
Rebuildable(s) == {job \in s : job.frequency \in Rebuilt}

(* Mutant: the newest job is left out.                                     *)
LoadAllButLast(saved) == Only(Front(saved), Rebuildable(ToSet(saved)))

(* What _load_jobs takes from the file.                                    *)
Loaded(saved) == Only(saved, Rebuildable(ToSet(saved)))

(* initialize: the file may be missing or torn, then there are no jobs.    *)
Start ==
    /\ ~up
    /\ starts < MaxStarts
    /\ starts' = starts + 1
    /\ up' = TRUE
    /\ jobs' = IF Hosted /\ file \notin {Missing, Torn, <<>>} THEN Loaded(file) ELSE <<>>
    /\ timers' = ToSet(jobs')
    /\ UNCHANGED <<due, history, file, notice, clock>>

ClockTicks ==
    /\ clock < MaxClock
    /\ clock' = clock + 1
    /\ UNCHANGED <<jobs, timers, due, history, file, notice, up, starts>>

RecurringNext ==
    \/ \E u \in Users, recipient \in Recipients, frequency \in Frequencies :
          Schedule(u, recipient, frequency)
    \/ \E id \in Known : Cancel(id)
    \/ \E t \in timers : Fire(t)
    \/ Run
    \/ Stop
    \/ Crash
    \/ Start
    \/ ClockTicks

RecurringSpec == RecurringInit /\ [][RecurringNext]_recurringVars

-----------------------------------------------------------------------------
(* The table of jobs users see and cancel from and the jobs that fire are  *)
(* the same, through schedules that replace one another, cancellations,    *)
(* crashes and recovery from the file.                                     *)
JobsMatchScheduler == timers = ToSet(jobs)

=============================================================================
