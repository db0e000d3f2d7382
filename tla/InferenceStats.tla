---------------------------- MODULE InferenceStats ----------------------------
(***************************************************************************)
(* The statistics of the policy runs of each visit to a motion             *)
(* (AcController.cpp:978-1058).  Slots of atomics, indexed by the epoch,   *)
(* are shared without a lock by the control loop, which begins and ends a  *)
(* visit, the inference thread, which adds a run, and the publisher, which *)
(* reports a visit that has ended and frees its slot.  The main thread     *)
(* publishes as well, on shutdown, while the publisher is still running.   *)
(*                                                                         *)
(* One action per access that another thread may come between, all in one  *)
(* order, as the locked increments of x86 give it.  A run's time is one    *)
(* unit; the policy, the start and the end of the visit are left out of    *)
(* the summary.  WALK is not counted (cumulativeInferenceStats): it is the *)
(* same as no policy here.  Runs inside update() are a special case.       *)
(***************************************************************************)
EXTENDS Naturals

CONSTANTS
  Slots,       \* kPolicyInferenceStatsSlots
  Motions,     \* the policies that are counted
  MaxEpoch,    \* bound on the epochs
  MaxRuns,     \* bound on the policy runs
  Width        \* the writer counts are modulo Width (2^32 in the code)

NONE == "NONE"

\* The code's constants: more values than threads, and slots to take in turn.
ASSUME StatsAssumption ==
  /\ Slots \in Nat \ {0} /\ Width \in Nat /\ Width > 1
  /\ MaxEpoch \in Nat /\ MaxRuns \in Nat
  /\ NONE \notin Motions

Epochs == 1..MaxEpoch
Publishers == {"timer", "main"}
Slot(epoch) == epoch % Slots

Books == [total: Nat, samples: Nat, failures: Nat]
NoRuns == [total |-> 0, samples |-> 0, failures |-> 0]

VARIABLES
  stats,       \* policyInferenceStats_
  policyEpoch, active,     \* policyEpoch, activePolicy_
  loopAt, looping,         \* the control loop's next access; FALSE once joined
  observed,    \* the observation for the inference thread, {} if none
  worker,      \* the inference thread: next access, its observation, failed run?
  runs,        \* runs started
  publisher,   \* each publishing thread: next access, its slot, what it has read
  mainAt,      \* stopInferenceThread(): what it has reached
  reported,    \* history: epochs with a summary
  finished,    \* history: what was added for an epoch, by writers that have left
  closed,      \* history: what was admitted when the epoch was ended, {} before
  crowded      \* history: epochs that did not have their slot to themselves

vars == <<stats, policyEpoch, active, loopAt, looping, observed, worker, runs,
          publisher, mainAt, reported, finished, closed, crowded>>
loopVars == <<policyEpoch, active, loopAt, looping, closed>>
workerVars == <<worker, finished>>
publisherVars == <<publisher, mainAt, reported>>

Free == [ended |-> FALSE, writers |-> 0, policy |-> NONE, epoch |-> 0, books |-> NoRuns]
Idle == [at |-> "idle", policy |-> NONE, epoch |-> 0, failed |-> FALSE, counts |-> FALSE]
Pass == [at |-> "ended", slot |-> 0, epoch |-> 0, read |-> NoRuns]

Init ==
  /\ stats = [s \in 0..Slots - 1 |-> Free]
  /\ policyEpoch = 0 /\ active = NONE /\ loopAt = "idle" /\ looping = TRUE
  /\ observed = {} /\ worker = Idle /\ runs = 0
  /\ publisher = [p \in Publishers |-> Pass]
  /\ mainAt = "up"
  /\ reported = {} /\ crowded = {}
  /\ finished = [e \in Epochs |-> NoRuns]
  /\ closed = [e \in Epochs |-> {}]

\* The threads that have begun with a slot, or with the epoch it was taken for.
Writing(s) == worker.at \notin {"idle", "run"} /\ Slot(worker.epoch) = s
Publishing(s) ==
  \E p \in Publishers :
    publisher[p].slot = s /\ publisher[p].at \in {"epoch", "total", "samples", "failures", "report"}
Looking(s) ==
  Publishing(s) \/ \E p \in Publishers :
                     publisher[p].slot = s /\ publisher[p].at \in {"writers", "take"}

\* What an epoch has been sent: the runs added, and one that has been let in.
Plus(books, failed) ==
  [total |-> books.total + 1, samples |-> books.samples + 1,
   failures |-> books.failures + IF failed THEN 1 ELSE 0]

Admitted(epoch) ==
  IF worker.epoch = epoch /\ (worker.at \in {"total", "samples", "failures"} \/ worker.counts)
  THEN Plus(finished[epoch], worker.failed) ELSE finished[epoch]

-----------------------------------------------------------------------------
(* The control loop. *)

\* enterPolicyMode(): a new epoch; a motion is entered with no motion active.
Enter(policy) ==
  /\ looping /\ loopAt = "idle" /\ active = NONE
  /\ policyEpoch < MaxEpoch
  /\ active' = policy
  /\ policyEpoch' = policyEpoch + 1
  /\ loopAt' = "reopen"
  /\ UNCHANGED <<stats, looping, closed, observed, workerVars, runs, publisherVars, crowded>>

\* beginPolicyInferenceStats(), store by store.  What was not reported yet of the
\* slot's last epoch is lost, and a thread still inside will meddle with the new:
\* a publisher too that has seen the last one ended, and takes the new one when it
\* ends without waiting for its writers.
Reopen ==
  LET s == Slot(policyEpoch) IN
  /\ loopAt = "reopen"
  /\ stats' = [stats EXCEPT ![s].ended = FALSE]
  /\ loopAt' = "clear"
  /\ crowded' = crowded \cup (IF stats[s].ended \/ Publishing(s) THEN {stats[s].epoch} ELSE {})
                        \cup (IF Writing(s) \/ Looking(s) THEN {policyEpoch} ELSE {})
  /\ UNCHANGED <<policyEpoch, active, looping, closed, observed, workerVars, runs, publisherVars>>

ClearBooks ==
  /\ loopAt = "clear"
  /\ stats' = [stats EXCEPT ![Slot(policyEpoch)].books = NoRuns]
  /\ loopAt' = "no writers"
  /\ UNCHANGED <<policyEpoch, active, looping, closed, observed, workerVars, runs, publisherVars, crowded>>

ClearWriters ==
  /\ loopAt = "no writers"
  /\ stats' = [stats EXCEPT ![Slot(policyEpoch)].writers = 0]
  /\ loopAt' = "policy"
  /\ UNCHANGED <<policyEpoch, active, looping, closed, observed, workerVars, runs, publisherVars, crowded>>

StorePolicy ==
  /\ loopAt = "policy"
  /\ stats' = [stats EXCEPT ![Slot(policyEpoch)].policy = active]
  /\ loopAt' = "epoch"
  /\ UNCHANGED <<policyEpoch, active, looping, closed, observed, workerVars, runs, publisherVars, crowded>>

StoreEpoch ==
  /\ loopAt = "epoch"
  /\ stats' = [stats EXCEPT ![Slot(policyEpoch)].epoch = policyEpoch]
  /\ loopAt' = "idle"
  /\ UNCHANGED <<policyEpoch, active, looping, closed, observed, workerVars, runs, publisherVars, crowded>>

\* submitObservation() of the active policy.
Submit ==
  /\ looping /\ loopAt = "idle" /\ active # NONE
  /\ observed' = {[policy |-> active, epoch |-> policyEpoch]}
  /\ UNCHANGED <<stats, loopVars, workerVars, runs, publisherVars, crowded>>

\* leavePolicyMode() and stopping(), up to the check of endPolicyInferenceStats().
Leave ==
  LET slot == stats[Slot(policyEpoch)] IN
  /\ looping /\ loopAt = "idle" /\ active # NONE
  /\ policyEpoch < MaxEpoch
  /\ loopAt' = IF slot.epoch = policyEpoch /\ slot.policy = active THEN "end" ELSE "leave"
  /\ UNCHANGED <<stats, policyEpoch, active, looping, closed, observed, workerVars, runs,
                 publisherVars, crowded>>

End ==
  /\ loopAt = "end"
  /\ stats' = [stats EXCEPT ![Slot(policyEpoch)].ended = TRUE]
  /\ closed' = [closed EXCEPT ![policyEpoch] = {Admitted(policyEpoch)}]
  /\ loopAt' = "leave"
  /\ UNCHANGED <<policyEpoch, active, looping, observed, workerVars, runs, publisherVars, crowded>>

\* The end of leaving a policy; of starting(), stopping() and a visit to WALK it
\* is all there is.
NextEpoch ==
  /\ \/ loopAt = "leave"
     \/ looping /\ loopAt = "idle" /\ active = NONE /\ policyEpoch < MaxEpoch
  /\ policyEpoch' = policyEpoch + 1
  /\ active' = NONE
  /\ loopAt' = "idle"
  /\ UNCHANGED <<stats, looping, closed, observed, workerVars, runs, publisherVars, crowded>>

-----------------------------------------------------------------------------
(* The inference thread. *)

\* The gate on the epoch, and the run: it may outlive its epoch.
StartRun ==
  /\ worker.at = "idle" /\ mainAt = "up"
  /\ runs < MaxRuns
  /\ \E o \in observed :
       /\ o.epoch = policyEpoch
       /\ worker' = [Idle EXCEPT !.at = "run", !.policy = o.policy, !.epoch = o.epoch]
  /\ observed' = {}
  /\ runs' = runs + 1
  /\ UNCHANGED <<stats, loopVars, finished, publisherVars, crowded>>

WorkerGoes(at) == worker' = [worker EXCEPT !.at = at]

\* The run returns or fails, and accumulatePolicyInferenceStats() increments
\* activeWriters.
EnterSlot(failed) ==
  LET s == Slot(worker.epoch) IN
  /\ worker.at = "run"
  /\ stats' = [stats EXCEPT ![s].writers = (@ + 1) % Width]
  /\ worker' = [worker EXCEPT !.at = "visit", !.failed = failed]
  /\ crowded' = IF loopAt \in {"clear", "no writers", "policy", "epoch"} /\ Slot(policyEpoch) = s
                THEN crowded \cup {policyEpoch} ELSE crowded
  /\ UNCHANGED <<loopVars, observed, finished, runs, publisherVars>>

\* Two loads in one step: both words change only while the slot is reopened.
CheckVisit ==
  LET slot == stats[Slot(worker.epoch)] IN
  /\ worker.at = "visit"
  /\ WorkerGoes(IF slot.epoch = worker.epoch /\ slot.policy = worker.policy
                THEN "ended" ELSE "leave")
  /\ UNCHANGED <<stats, loopVars, observed, finished, runs, publisherVars, crowded>>

CheckEnded ==
  /\ worker.at = "ended"
  /\ WorkerGoes(IF stats[Slot(worker.epoch)].ended THEN "leave" ELSE "total")
  /\ UNCHANGED <<stats, loopVars, observed, finished, runs, publisherVars, crowded>>

AddTotal ==
  /\ worker.at = "total"
  /\ stats' = [stats EXCEPT ![Slot(worker.epoch)].books.total = @ + 1]
  /\ WorkerGoes("samples")
  /\ UNCHANGED <<loopVars, observed, finished, runs, publisherVars, crowded>>

AddSample ==
  /\ worker.at = "samples"
  /\ stats' = [stats EXCEPT ![Slot(worker.epoch)].books.samples = @ + 1]
  /\ worker' = [worker EXCEPT !.at = IF worker.failed THEN "failures" ELSE "leave",
                              !.counts = TRUE]
  /\ UNCHANGED <<loopVars, observed, finished, runs, publisherVars, crowded>>

AddFailure ==
  /\ worker.at = "failures"
  /\ stats' = [stats EXCEPT ![Slot(worker.epoch)].books.failures = @ + 1]
  /\ WorkerGoes("leave")
  /\ UNCHANGED <<loopVars, observed, finished, runs, publisherVars, crowded>>

LeaveSlot ==
  /\ worker.at = "leave"
  /\ stats' = [stats EXCEPT ![Slot(worker.epoch)].writers = (@ + Width - 1) % Width]
  /\ worker' = Idle
  /\ finished' = IF worker.counts THEN [finished EXCEPT ![worker.epoch] = Plus(@, worker.failed)]
                 ELSE finished
  /\ UNCHANGED <<loopVars, observed, runs, publisherVars, crowded>>

-----------------------------------------------------------------------------
(* publishCompletedPolicyInferenceStats(), in either thread. *)

May(p, at) ==
  /\ publisher[p].at = at
  /\ p = "timer" \/ mainAt = "flush"
PublisherGoes(p, at) == publisher' = [publisher EXCEPT ![p].at = at]

\* A mutant: the slots are counted from one.
BugMoreSlots(slot) == slot < Slots
MoreSlots(slot) == slot + 1 < Slots

\* The next slot, or after the last one the end of the pass.
NextSlot(p) ==
  publisher' = [publisher EXCEPT ![p] =
    IF MoreSlots(@.slot) THEN [Pass EXCEPT !.slot = publisher[p].slot + 1]
    ELSE [Pass EXCEPT !.at = "done"]]

LookAtEnded(p) ==
  /\ May(p, "ended")
  /\ IF stats[publisher[p].slot].ended THEN PublisherGoes(p, "writers") ELSE NextSlot(p)
  /\ UNCHANGED <<stats, loopVars, observed, workerVars, runs, mainAt, reported, crowded>>

\* A mutant: the writers inside are not waited for.
BugNoWriters(slot) == TRUE
NoWriters(slot) == stats[slot].writers = 0

LookAtWriters(p) ==
  /\ May(p, "writers")
  /\ IF NoWriters(publisher[p].slot) THEN PublisherGoes(p, "take") ELSE NextSlot(p)
  /\ UNCHANGED <<stats, loopVars, observed, workerVars, runs, mainAt, reported, crowded>>

\* A mutant: the flag is cleared by a store.
BugIsMine(slot) == TRUE
IsMine(slot) == stats[slot].ended

\* The compare-exchange of `ended'.
Take(p) ==
  /\ May(p, "take")
  /\ stats' = [stats EXCEPT ![publisher[p].slot].ended = FALSE]
  /\ IF IsMine(publisher[p].slot) THEN PublisherGoes(p, "epoch") ELSE NextSlot(p)
  /\ UNCHANGED <<loopVars, observed, workerVars, runs, mainAt, reported, crowded>>

ReadEpoch(p) ==
  LET epoch == stats[publisher[p].slot].epoch IN
  /\ May(p, "epoch")
  /\ IF epoch # 0
     THEN publisher' = [publisher EXCEPT ![p].at = "total", ![p].epoch = epoch]
     ELSE NextSlot(p)
  /\ UNCHANGED <<stats, loopVars, observed, workerVars, runs, mainAt, reported, crowded>>

\* The three numbers, one load each.
Read(p, number, next) ==
  /\ May(p, number)
  /\ publisher' = [publisher EXCEPT ![p].at = next,
                     ![p].read[number] = stats[publisher[p].slot].books[number]]
  /\ UNCHANGED <<stats, loopVars, observed, workerVars, runs, mainAt, reported, crowded>>

\* The summary is logged and the slot is free.
Report(p) ==
  /\ May(p, "report")
  /\ reported' = reported \cup {publisher[p].epoch}
  /\ stats' = [stats EXCEPT ![publisher[p].slot].epoch = 0]
  /\ NextSlot(p)
  /\ UNCHANGED <<loopVars, observed, workerVars, runs, mainAt, crowded>>

Publish(p) ==
  \/ LookAtEnded(p) \/ LookAtWriters(p) \/ Take(p) \/ ReadEpoch(p)
  \/ Read(p, "total", "samples") \/ Read(p, "samples", "failures") \/ Read(p, "failures", "report")
  \/ Report(p)

\* timingPublisherLoop() starts over until it is told to stop.
NextPass ==
  /\ publisher["timer"].at = "done"
  /\ mainAt \notin {"join timer", "down"}
  /\ publisher' = [publisher EXCEPT !["timer"] = Pass]
  /\ UNCHANGED <<stats, loopVars, observed, workerVars, runs, mainAt, reported, crowded>>

-----------------------------------------------------------------------------
(* Shutdown: the loop is joined before stopInferenceThread() runs. *)

StopLoop ==
  /\ mainAt = "up" /\ loopAt = "idle"
  /\ looping' = FALSE
  /\ mainAt' = "join worker"
  /\ UNCHANGED <<stats, policyEpoch, active, loopAt, closed, observed, workerVars, runs, publisher,
                 reported, crowded>>

\* A mutant: shutdown leaves the last summaries to the timer thread.
BugAfterWorker == "join timer"
AfterWorker == "flush"

\* The worker has returned from its last run and is joined.
JoinWorker ==
  /\ mainAt = "join worker" /\ worker.at = "idle"
  /\ mainAt' = AfterWorker
  /\ UNCHANGED <<stats, loopVars, observed, workerVars, runs, publisher, reported, crowded>>

\* The flush is done: the timer thread is told to stop.
StopTimer ==
  /\ mainAt = "flush" /\ publisher["main"].at = "done"
  /\ mainAt' = "join timer"
  /\ UNCHANGED <<stats, loopVars, observed, workerVars, runs, publisher, reported, crowded>>

JoinTimer ==
  /\ mainAt = "join timer" /\ publisher["timer"].at = "done"
  /\ mainAt' = "down"
  /\ UNCHANGED <<stats, loopVars, observed, workerVars, runs, publisher, reported, crowded>>

Terminated == mainAt = "down" /\ UNCHANGED vars

-----------------------------------------------------------------------------
LoopStep == Reopen \/ ClearBooks \/ ClearWriters \/ StorePolicy \/ StoreEpoch \/ End
            \/ (loopAt = "leave" /\ NextEpoch)
Accumulate == (\E failed \in BOOLEAN : EnterSlot(failed)) \/ CheckVisit \/ CheckEnded
              \/ AddTotal \/ AddSample \/ AddFailure \/ LeaveSlot
MainStep == JoinWorker \/ Publish("main") \/ StopTimer \/ JoinTimer
TimerStep == Publish("timer") \/ NextPass

Next ==
  \/ \E policy \in Motions : Enter(policy)
  \/ Reopen \/ ClearBooks \/ ClearWriters \/ StorePolicy \/ StoreEpoch
  \/ Submit \/ Leave \/ End \/ NextEpoch
  \/ StartRun \/ Accumulate
  \/ \E p \in Publishers : Publish(p)
  \/ NextPass
  \/ StopLoop \/ JoinWorker \/ StopTimer \/ JoinTimer
  \/ Terminated

Spec == Init /\ [][Next]_vars

\* Every thread is scheduled, none of these steps blocks, and a run returns: by
\* itself, or because shutdown terminates it.
FairSpec ==
  Spec /\ WF_vars(LoopStep) /\ WF_vars(Accumulate) /\ WF_vars(MainStep) /\ WF_vars(TimerStep)

-----------------------------------------------------------------------------
(* Properties. *)

\* Every variable keeps its type.
TypeOK ==
  /\ stats \in [0..Slots - 1 ->
       [ended: BOOLEAN, writers: 0..Width - 1, policy: Motions \cup {NONE},
        epoch: 0..MaxEpoch, books: Books]]
  /\ policyEpoch \in 0..MaxEpoch /\ active \in Motions \cup {NONE}
  /\ loopAt \in {"idle", "reopen", "clear", "no writers", "policy", "epoch", "end", "leave"}
  /\ looping \in BOOLEAN
  /\ observed \subseteq [policy: Motions, epoch: Epochs]
  /\ worker \in [at: {"idle", "run", "visit", "ended", "total", "samples",
                      "failures", "leave"},
                 policy: Motions \cup {NONE}, epoch: 0..MaxEpoch,
                 failed: BOOLEAN, counts: BOOLEAN]
  /\ runs \in 0..MaxRuns
  /\ publisher \in [Publishers ->
       [at: {"ended", "writers", "take", "epoch", "total", "samples", "failures", "report", "done"},
        slot: 0..Slots - 1, epoch: 0..MaxEpoch, read: Books]]
  /\ mainAt \in {"up", "join worker", "flush", "join timer", "down"}
  /\ reported \subseteq Epochs /\ crowded \subseteq 0..MaxEpoch
  /\ finished \in [Epochs -> Books] /\ closed \in [Epochs -> SUBSET Books]

Reports(p) == publisher[p].at = "report" /\ publisher'[p].at # "report"

\* Each visit is reported once, by one of the two publishing threads, and only
\* after it has ended, unless its slot was crowded.
ReportedOnce ==
  [][\A p \in Publishers :
       Reports(p) /\ publisher[p].epoch \notin crowded =>
         closed[publisher[p].epoch] # {} /\ publisher[p].epoch \notin reported]_vars

AtMost(less, more) == \A number \in DOMAIN NoRuns : less[number] <= more[number]

\* The inference thread's run that may be in the numbers of an epoch already.
Counting(epoch) ==
  IF worker.epoch = epoch /\ worker.at \notin {"idle", "run"}
  THEN Plus(finished[epoch], worker.failed) ELSE finished[epoch]

\* A summary has all three numbers of every run that was let in before its visit
\* ended, and counts none that was not made.  Only a run that comes later can be in
\* some of the numbers, when it adds itself while they are read.
SummariesAreTrue ==
  \A p \in Publishers :
    LET e == publisher[p].epoch IN
    publisher[p].at = "report" /\ e \notin crowded =>
      /\ \A atEnd \in closed[e] : AtMost(atEnd, publisher[p].read)
      /\ AtMost(publisher[p].read, Counting(e))

\* Every visit that has ended is reported, by the flush if need be, unless its
\* slot is needed again before.
SummariesArrive ==
  []<>(\A e \in Epochs : closed[e] # {} => e \in reported \cup crowded)
=============================================================================
