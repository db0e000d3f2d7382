------------------------------- MODULE MotorLog -------------------------------
(***************************************************************************)
(* The log of the motors' faults (can_protocol_func.cpp).  The real-time   *)
(* thread looks at the error code of every motor in a valid image and      *)
(* queues a record when a fault begins, changes, has lasted or is over.    *)
(* The logger's worker writes the records and, when some did not fit in    *)
(* the queue, a line that says so.  The queue is the BoundedQueue that     *)
(* SpscRingBuffer implements.                                              *)
(*                                                                         *)
(* A reader of the log is part of the model: what he takes to be each      *)
(* motor's state.  A line about dropped records makes him unsure of all    *)
(* motors, and of the records on their way: they may be older than the     *)
(* dropped ones, although they are written below the line.                 *)
(*                                                                         *)
(* All motors are INKEXBOTs, as E2HW::read() has it, and the logging of    *)
(* faults is on.  Temperatures and the snapshots of them are left out.     *)
(***************************************************************************)
EXTENDS Naturals, Sequences

CONSTANTS
  NumJoints,     \* motors, in the order of the process data
  Faults,        \* the codes of IsKnownInkexMotorFault()
  Places,        \* kMotorErrorLogCapacity - 1
  BatchSize,     \* kMotorErrorLogBatchSize
  Stride,        \* kMotorFaultTimeCheckStride
  Period,        \* kMotorFaultSummaryPeriod and the second between two STATUS, in units
  Settings       \* enable_motor_non_error_log

\* Any code that is no fault, and a reader who cannot tell.
OK == "OK"
UNSURE == "UNSURE"

ASSUME MotorLogAssumption ==
  /\ NumJoints \in Nat \ {0} /\ Places \in Nat \ {0} /\ BatchSize \in Nat \ {0}
  /\ Stride \in Nat \ {0} /\ Period \in Nat \ {0}
  /\ Settings \subseteq BOOLEAN /\ OK \notin Faults /\ UNSURE \notin Faults

Joints == 1..NumJoints
Codes == Faults \cup {OK}

VARIABLES
  logStatus,    \* g_log_motor_non_error
  cycling,      \* the real-time loop runs; it is joined before the logger stops
  next,         \* the next motor of the image
  fault,        \* g_motor_fault_log_states: error_code, OK while it is not active;
                \* samples_since_log, modulo Stride; age of last_log_time
  statusAge,    \* age of g_last_motor_non_error_log_ns; Period before the first
  queue,        \* records_
  dropped,      \* dropped_count_ is not zero
  stop,         \* stop_
  workerAt,     \* Run()'s next step
  batch,        \* Run(): the records taken in this round
  reader,       \* what the log says of each motor
  older         \* the records that may be older than the announced ones

loggerVars == <<workerAt, batch, reader, older>>
logVars == <<logStatus, cycling, next, fault, statusAge, queue, dropped, stop, loggerVars>>

NoFault == [code |-> OK, samples |-> 0, age |-> 0]

LogInit ==
  /\ logStatus \in Settings
  /\ cycling = TRUE /\ next = 1
  /\ fault = [j \in Joints |-> NoFault]
  /\ statusAge = [j \in Joints |-> Period]
  /\ queue = <<>> /\ dropped = FALSE
  /\ stop = FALSE
  /\ workerAt = "write" /\ batch = <<>>
  /\ reader = [j \in Joints |-> OK] /\ older = 0

-----------------------------------------------------------------------------
(* The real-time thread. *)

\* A mutant: a refused record is not counted.
BugRefused == dropped
\* Enqueue() counts what the queue refuses.
Refused == TRUE

Enqueue(j, event, code) ==
  IF Len(queue) < Places
  THEN queue' = Append(queue, [joint |-> j, event |-> event, code |-> code])
       /\ UNCHANGED dropped
  ELSE dropped' = Refused /\ UNCHANGED queue

\* UpdateMotorFaultLog() with a fault that is not the one it knows.
FaultBegins(j, c) ==
  /\ c \in Faults /\ fault[j].code # c
  /\ fault' = [fault EXCEPT ![j] = [code |-> c, samples |-> 0, age |-> 0]]
  /\ Enqueue(j, IF fault[j].code = OK THEN "FAULT" ELSE "FAULT_CHANGED", c)
  /\ UNCHANGED statusAge

\* A mutant: the count saturates before the stride is reached.
BugCounted(samples) == IF samples = Stride - 1 THEN samples ELSE samples + 1
\* Only every so many samples the clock is read.
Counted(samples) == (samples + 1) % Stride

\* ... with the fault it knows.
FaultLasts(j, c) ==
  /\ c \in Faults /\ fault[j].code = c
  /\ IF Counted(fault[j].samples) = 0 /\ fault[j].age = Period
     THEN /\ fault' = [fault EXCEPT ![j] = [code |-> c, samples |-> 0, age |-> 0]]
          /\ Enqueue(j, "FAULT_REPEAT", c)
     ELSE /\ fault' = [fault EXCEPT ![j].samples = Counted(@)]
          /\ UNCHANGED <<queue, dropped>>
  /\ UNCHANGED statusAge

\* A mutant: the fault stays active.
BugRecovered(j) == fault[j]
\* What is left of a fault that is over.
Recovered(j) == NoFault

\* ... without a fault, after one.
FaultEnds(j, c) ==
  /\ c = OK /\ fault[j].code # OK
  /\ fault' = [fault EXCEPT ![j] = Recovered(j)]
  /\ Enqueue(j, "RECOVERED", OK)
  /\ UNCHANGED statusAge

\* A motor without a fault may have its status logged, once in a period.
NoFaultSeen(j, c) ==
  /\ c = OK /\ fault[j].code = OK
  /\ IF logStatus /\ statusAge[j] = Period
     THEN /\ statusAge' = [statusAge EXCEPT ![j] = 0]
          /\ Enqueue(j, "STATUS", OK)
     ELSE UNCHANGED <<statusAge, queue, dropped>>
  /\ UNCHANGED fault

\* unpack_pvt_data_ex() for the next motor of a valid image.
UnpackMotor ==
  /\ cycling
  /\ \E c \in Codes :
       FaultBegins(next, c) \/ FaultLasts(next, c) \/ FaultEnds(next, c) \/ NoFaultSeen(next, c)
  /\ next' = (next % NumJoints) + 1
  /\ UNCHANGED <<logStatus, cycling, stop, loggerVars>>

\* The loop ends between two images and is joined; then Stop() runs, at the exit.
EndLoop ==
  /\ cycling /\ next = 1
  /\ cycling' = FALSE
  /\ UNCHANGED <<logStatus, next, fault, statusAge, queue, dropped, stop, loggerVars>>

Stop ==
  /\ ~cycling /\ ~stop
  /\ stop' = TRUE
  /\ UNCHANGED <<logStatus, cycling, next, fault, statusAge, queue, dropped, loggerVars>>

-----------------------------------------------------------------------------
(* The logger's worker, Run(). *)

producerVars == <<logStatus, cycling, next, fault, statusAge, stop>>

TakeRecord ==
  /\ workerAt = "take"
  /\ Len(batch) < BatchSize /\ queue # <<>>
  /\ batch' = Append(batch, Head(queue))
  /\ queue' = Tail(queue)
  /\ UNCHANGED <<producerVars, dropped, workerAt, reader, older>>

\* The batch is full or the queue empty.
TakeEnds ==
  /\ workerAt = "take"
  /\ Len(batch) = BatchSize \/ queue = <<>>
  /\ workerAt' = "announce"
  /\ UNCHANGED <<producerVars, queue, dropped, batch, reader, older>>

\* dropped_count_.exchange(0), after the records have been taken and before they are
\* written.
AnnounceDropped ==
  /\ workerAt = "announce"
  /\ workerAt' = "write"
  /\ dropped' = FALSE
  /\ IF dropped
     THEN reader' = [j \in Joints |-> UNSURE] /\ older' = Len(batch) + Len(queue)
     ELSE UNCHANGED <<reader, older>>
  /\ UNCHANGED <<producerVars, queue, batch>>

Written(r) ==
  IF older = 0
  THEN reader' = [reader EXCEPT ![r.joint] = r.code] /\ UNCHANGED older
  ELSE older' = older - 1 /\ UNCHANGED reader

WriteRecord ==
  /\ workerAt = "write" /\ batch # <<>>
  /\ Written(Head(batch))
  /\ batch' = Tail(batch)
  /\ UNCHANGED <<producerVars, queue, dropped, workerAt>>

\* A round ends with a look at stop_; the first look is at the start.
EndRound ==
  /\ workerAt = "write" /\ batch = <<>>
  /\ workerAt' = IF stop THEN "drain" ELSE "take"
  /\ UNCHANGED <<producerVars, queue, dropped, batch, reader, older>>

\* After the last round what is left in the queue is written one by one.
DrainRecord ==
  /\ workerAt = "drain" /\ queue # <<>>
  /\ Written(Head(queue))
  /\ queue' = Tail(queue)
  /\ UNCHANGED <<producerVars, dropped, workerAt, batch>>

EndRun ==
  /\ workerAt = "drain" /\ queue = <<>>
  /\ workerAt' = "ended"
  /\ UNCHANGED <<producerVars, queue, dropped, batch, reader, older>>

Run ==
  \/ TakeRecord \/ TakeEnds \/ AnnounceDropped \/ WriteRecord \/ EndRound
  \/ DrainRecord \/ EndRun

-----------------------------------------------------------------------------

Older(age) == IF age < Period THEN age + 1 ELSE Period

\* A unit is a hundred pauses of the worker: what was queued in one is written before
\* the next.
PassTime ==
  /\ cycling
  /\ queue = <<>> /\ batch = <<>> /\ ~dropped
  /\ fault' = [j \in Joints |-> IF fault[j].code = OK THEN NoFault
                                ELSE [fault[j] EXCEPT !.age = Older(@)]]
  /\ statusAge' = [j \in Joints |-> IF logStatus THEN Older(statusAge[j]) ELSE Period]
  /\ UNCHANGED <<logStatus, cycling, next, queue, dropped, stop, workerAt, batch, reader, older>>

\* stop has been joined.
Exited == workerAt = "ended" /\ UNCHANGED logVars

LogNext == UnpackMotor \/ EndLoop \/ Stop \/ Run \/ PassTime \/ Exited

LogSpec == LogInit /\ [][LogNext]_logVars
\* The threads are scheduled, and time passes; nothing is said of the images.
FairLogSpec == LogSpec /\ WF_logVars(Run) /\ WF_logVars(Stop) /\ WF_logVars(PassTime)

-----------------------------------------------------------------------------
(* Properties. *)

\* The record continues what the reader knows of its motor.
Continues(r) ==
  LET known == reader[r.joint] IN
  \/ known = UNSURE
  \/ r.event \in {"FAULT", "STATUS"} /\ known = OK
  \/ r.event = "FAULT_CHANGED" /\ known \notin {OK, r.code}
  \/ r.event = "FAULT_REPEAT" /\ known = r.code
  \/ r.event = "RECOVERED" /\ known # OK

\* What is dropped leaves no gap in a motor's story that the log does not announce above
\* the record after it (as long as the logger has not been stopped: what is dropped
\* after its last round is not announced).
GapsAreAnnounced == [][WriteRecord => Continues(Head(batch))]_logVars

InFlight(j) == \E s \in {queue, batch} : \E i \in DOMAIN s : s[i].joint = j

\* Once all that was queued for a motor is written, and at the end in any case, the log
\* says what the motor last said, or that it may be missing something, unless the
\* count of what was dropped is still to be announced.
LastWordIsTrue ==
  /\ \A j \in Joints :
       ~InFlight(j) /\ ~dropped /\ reader[j] # UNSURE => reader[j] = fault[j].code
  /\ workerAt = "ended" => \A j \in Joints : ~InFlight(j)

\* Images keep coming, and from some point on no motor's state changes.
Settled ==
  /\ []<><<UnpackMotor>>_logVars
  /\ <>[][\A j \in Joints : fault'[j].code = fault[j].code]_logVars

\* Then every fault that lasts is in the log in the end and stays its last word, also
\* when its first record was dropped.
FaultsBecomeKnown ==
  Settled => <>[](\A j \in Joints : fault[j].code # OK => reader[j] = fault[j].code)
=============================================================================
