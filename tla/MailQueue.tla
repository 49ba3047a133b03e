----------------------------- MODULE MailQueue -----------------------------
(***************************************************************************)
(* From the tickets of an order to the e-mails with their QR codes.        *)
(*                                                                         *)
(* A batch is one call of CreateTicketUseCase.  It inserts its tickets in  *)
(* one transaction and then, outside of it, adds one job per ticket to     *)
(* mail-queue.  The worker of the queue takes one job at a time.  Rows may *)
(* be deleted and the process may restart between any two awaits.          *)
(***************************************************************************)
EXTENDS Naturals

CONSTANTS
    Batches,        \* calls of CreateTicketUseCase
    Tickets,        \* the tickets they insert
    BatchOf,        \* BatchOf[t] : the call that inserts t
    MaxAttempts,    \* attempts of a job
    MaxCrashes,     \* bound: restarts of the process
    NoTicket        \* the worker has no job

ASSUME BatchAssumption == BatchOf \in [Tickets -> Batches]
ASSUME AttemptsAssumption == MaxAttempts \in Nat \ {0} /\ MaxCrashes \in Nat
ASSUME NoTicketAssumption == NoTicket \notin Tickets

VARIABLES
    batch,      \* batch[b] : where the call stands
    todo,       \* issued tickets whose job the loop has yet to add
    unqueued,   \* history: issued tickets whose job will never be added
    job,        \* job[t] : the job of ticket t in Redis
    worker,     \* the ticket whose job is active
    step,       \* the worker's next await
    sent,       \* sent[t] : how often the mail service took the e-mail of t
    ownerGone,  \* batches whose user has deleted_at
    eventGone,  \* batches whose event or lot has deleted_at
    crashes     \* restarts so far

calls == <<batch, todo, unqueued>>
gone == <<ownerGone, eventGone>>
vars == <<calls, job, worker, step, sent, gone, crashes>>

JobStates == {"none", "waiting", "active", "completed", "failed"}

\* "broken": the row came without its lot or event.
WorkerSteps == {"idle", "find", "send", "broken", "sent"}

TypeOK ==
    /\ batch \in [Batches -> {"new", "queueing", "done", "error", "lost"}]
    /\ todo \subseteq {t \in Tickets : batch[BatchOf[t]] = "queueing"}
    /\ unqueued \subseteq {t \in Tickets : job[t].state = "none"}
    /\ job \in [Tickets -> [state : JobStates, made : 0 .. MaxAttempts, stalled : BOOLEAN]]
    /\ worker \in Tickets \union {NoTicket}
    /\ step \in WorkerSteps
    /\ worker = NoTicket <=> step = "idle"
    /\ \A t \in Tickets : job[t].state = "active" <=> worker = t
    /\ sent \in [Tickets -> Nat]
    /\ ownerGone \subseteq Batches /\ eventGone \subseteq Batches
    /\ crashes \in 0 .. MaxCrashes

Init ==
    /\ batch = [b \in Batches |-> "new"]
    /\ todo = {}
    /\ unqueued = {}
    /\ job = [t \in Tickets |-> [state |-> "none", made |-> 0, stalled |-> FALSE]]
    /\ worker = NoTicket
    /\ step = "idle"
    /\ sent = [t \in Tickets |-> 0]
    /\ ownerGone = {}
    /\ eventGone = {}
    /\ crashes = 0

-----------------------------------------------------------------------------
(* CreateTicketUseCase and DispatchTicketEmailUseCase *)

TicketsOf(b) == {t \in Tickets : BatchOf[t] = b}

\* The transaction: it needs the lot and its event.
SaveTickets(b) ==
    /\ batch[b] = "new"
    /\ b \notin eventGone
    /\ batch' = [batch EXCEPT ![b] = "queueing"]
    /\ todo' = todo \union TicketsOf(b)
    /\ UNCHANGED <<unqueued, job, worker, step, sent, gone, crashes>>

\* Any exception rolls the transaction back.
SaveFails(b) ==
    /\ batch[b] = "new"
    /\ batch' = [batch EXCEPT ![b] = "error"]
    /\ UNCHANGED <<todo, unqueued, job, worker, step, sent, gone, crashes>>

\* add().  It may report an error although the job is there: this step, too.
QueueMail(t) ==
    /\ t \in todo
    /\ todo' = todo \ {t}
    /\ job' = [job EXCEPT ![t].state = "waiting"]
    /\ UNCHANGED <<batch, unqueued, worker, step, sent, gone, crashes>>

\* (bug) the error is not caught and ends the loop.
QueueFailsLoop(t) ==
    /\ t \in todo
    /\ todo' = todo \ TicketsOf(BatchOf[t])
    /\ batch' = [batch EXCEPT ![BatchOf[t]] = "error"]
    /\ unqueued' = unqueued \union {t}
    /\ UNCHANGED <<job, worker, step, sent, gone, crashes>>
\* add() fails: the error is logged and the loop goes on.
QueueFails(t) ==
    /\ t \in todo
    /\ todo' = todo \ {t}
    /\ unqueued' = unqueued \union {t}
    /\ UNCHANGED <<batch, job, worker, step, sent, gone, crashes>>

\* (bug) the adds are not awaited.
ReturnEarly(b) ==
    /\ batch[b] = "queueing"
    /\ batch' = [batch EXCEPT ![b] = "done"]
    /\ UNCHANGED <<todo, unqueued, job, worker, step, sent, gone, crashes>>
\* The loop is over when each add was answered.
Return(b) ==
    /\ batch[b] = "queueing"
    /\ todo \cap TicketsOf(b) = {}
    /\ batch' = [batch EXCEPT ![b] = "done"]
    /\ UNCHANGED <<todo, unqueued, job, worker, step, sent, gone, crashes>>

-----------------------------------------------------------------------------
(* TicketEmailProcessor and MailService *)

Idle == worker' = NoTicket /\ step' = "idle"

TakeMail(t) ==
    /\ worker = NoTicket
    /\ job[t].state = "waiting"
    /\ job' = [job EXCEPT ![t].state = "active"]
    /\ worker' = t
    /\ step' = "find"
    /\ UNCHANGED <<calls, sent, gone, crashes>>

Complete == job' = [job EXCEPT ![worker].state = "completed"] /\ Idle

\* findByIdWithRelations leaves deleted relations out.  Without a user the job
\* is completed at once; without a lot or an event its title cannot be read.
FindTicket ==
    LET b == BatchOf[worker]
    IN  /\ step = "find"
        /\ IF b \in ownerGone THEN Complete
           ELSE /\ step' = IF b \in eventGone THEN "broken" ELSE "send"
                /\ UNCHANGED <<job, worker>>
        /\ UNCHANGED <<calls, sent, gone, crashes>>

\* sendTicketEmail: the service takes the e-mail.
SendMail ==
    /\ step = "send"
    /\ sent' = [sent EXCEPT ![worker] = @ + 1]
    /\ step' = "sent"
    /\ UNCHANGED <<calls, job, worker, gone, crashes>>

FinishMail ==
    /\ step = "sent"
    /\ Complete
    /\ UNCHANGED <<calls, sent, gone, crashes>>

\* The exception goes to BullMQ, which counts the attempt.
FailJob(t) ==
    job' = [job EXCEPT ![t].made = @ + 1,
                       ![t].state = IF job[t].made + 1 < MaxAttempts THEN "waiting"
                                    ELSE "failed"]

\* (bug) the exception is logged and not thrown again.
MailFailsSwallowed ==
    /\ step \in {"find", "send", "sent"}
    /\ Complete
    /\ UNCHANGED <<calls, sent, gone, crashes>>
\* (bug) the catch tries again by itself.
MailFailsRetries ==
    /\ step \in {"find", "send", "sent"}
    /\ step' = "find"
    /\ UNCHANGED <<calls, job, worker, sent, gone, crashes>>
\* A query, the PDF or the service fails; the service may have taken the
\* e-mail before its answer was lost.
MailFails ==
    /\ step \in {"find", "send", "sent"}
    /\ FailJob(worker)
    /\ Idle
    /\ UNCHANGED <<calls, sent, gone, crashes>>

\* ticket.ticketType.event.title of a row without one of the two.
MailBroken ==
    /\ step = "broken"
    /\ FailJob(worker)
    /\ Idle
    /\ UNCHANGED <<calls, sent, gone, crashes>>

-----------------------------------------------------------------------------

\* DELETE /users/:id.
DeleteOwner(b) ==
    /\ b \notin ownerGone
    /\ ownerGone' = ownerGone \union {b}
    /\ UNCHANGED <<calls, job, worker, step, sent, eventGone, crashes>>

\* DELETE /events/:id; the lot goes with a deletion that raced the sale.
DeleteEvent(b) ==
    /\ b \notin eventGone
    /\ eventGone' = eventGone \union {b}
    /\ UNCHANGED <<calls, job, worker, step, sent, ownerGone, crashes>>

\* A stalled job is put back once and given up the second time.
Stall ==
    job' = [job EXCEPT ![worker].stalled = TRUE,
                       ![worker].state = IF job[worker].stalled THEN "failed" ELSE "waiting"]

\* The process restarts: the loops are gone, and so is what they had to add.
Crash ==
    /\ crashes < MaxCrashes
    /\ crashes' = crashes + 1
    /\ batch' = [b \in Batches |-> IF batch[b] = "queueing" THEN "lost" ELSE batch[b]]
    /\ todo' = {}
    /\ unqueued' = unqueued \union todo
    /\ IF worker = NoTicket THEN job' = job ELSE Stall
    /\ Idle
    /\ UNCHANGED <<sent, gone>>

CallStep == \/ \E t \in Tickets : QueueMail(t) \/ QueueFails(t)
            \/ \E b \in Batches : Return(b)

WorkerStep == FindTicket \/ SendMail \/ FinishMail \/ MailBroken \/ MailFails

Next ==
    \/ \E b \in Batches :
          SaveTickets(b) \/ SaveFails(b) \/ DeleteOwner(b) \/ DeleteEvent(b)
    \/ CallStep
    \/ \E t \in Tickets : TakeMail(t)
    \/ WorkerStep
    \/ Crash

\* The loop of a call goes on, and the worker takes and runs waiting jobs.
Fairness ==
    /\ WF_vars(CallStep)
    /\ WF_vars(\E t \in Tickets : TakeMail(t))
    /\ WF_vars(WorkerStep)

Spec == Init /\ [][Next]_vars
FairSpec == Spec /\ Fairness

-----------------------------------------------------------------------------
(* Properties *)

\* However sends, retries, lost answers and restarts mix, a ticket is mailed
\* at most once per attempt and once more for its one stall (attempts of
\* DispatchTicketEmailUseCase, rethrow of TicketEmailProcessor).
MailsBounded == \A t \in Tickets : sent[t] <= MaxAttempts + 1

\* A completed job means that its e-mail was taken, unless the owner is gone;
\* every failure on the way shows as a failed job or a retry
\* (TicketEmailProcessor.process, its early return and its rethrow).
CompletedIsMailed ==
    \A t \in Tickets :
        job[t].state = "completed" => sent[t] > 0 \/ BatchOf[t] \in ownerGone

\* The strengthening that makes the two inductive: a ticket before its add has
\* no job, and each e-mail sent is paid for by a counted attempt, by the stall
\* or by the attempt under way.
FreshInv ==
    \A t \in Tickets :
        batch[BatchOf[t]] = "new" \/ t \in todo
            => job[t].state = "none" /\ t \notin unqueued

Spent(t) ==
    job[t].made + (IF job[t].stalled THEN 1 ELSE 0)
                + (IF worker = t /\ step = "sent" THEN 1 ELSE 0)

BudgetInv ==
    \A t \in Tickets :
        /\ job[t].state \in {"none", "waiting", "active"}
              => job[t].made < MaxAttempts /\ sent[t] <= Spent(t)
        /\ worker = t /\ step = "sent" => sent[t] > 0

\* Every issued ticket comes to a settled job, through failing adds for its
\* siblings, retries, restarts and deleted rows; the exceptions are its own
\* add failing and a restart before it (the loop of CreateTicketUseCase, the
\* catch of DispatchTicketEmailUseCase, the retries of TicketEmailProcessor).
TicketsSettle ==
    \A t \in Tickets :
        t \in todo ~> job[t].state \in {"completed", "failed"} \/ t \in unqueued
=============================================================================
