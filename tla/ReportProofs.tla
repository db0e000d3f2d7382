----------------------------- MODULE ReportProofs -----------------------------
(***************************************************************************)
(* What the robot reports of itself is true: the summary of the policy     *)
(* runs of a visit (InferenceStats), for any number of slots, visits, runs *)
(* and any width of the writer counts, and the log of the motors' faults   *)
(* (MotorLog), for any number of motors, faults, places and records.       *)
(*                                                                         *)
(* None of the four properties is inductive.  The summaries are told from  *)
(* the history by what a visit keeps that has its slot to itself (Home):   *)
(* its slot counts the writer inside (BooksKept), so that a publisher that *)
(* has seen none has all that was admitted (AdmittedAdded), and its end    *)
(* stands for one publisher only (PublishedOnce).  The loop may take the   *)
(* slot back at any time; what is lost then is crowded, and Reopened says  *)
(* why the next visit begins with a clean slot.  The log is told from the  *)
(* records on their way: every one continues what stands before it on its  *)
(* motor (Linked), the last one says what the motor last said (LastIs).    *)
(***************************************************************************)
EXTENDS InferenceStats, MotorLog, TLAPS

-----------------------------------------------------------------------------
(* Slots, books and threads. *)

SlotNumbers == 0..Slots - 1
SlotRecord ==
  [ended: BOOLEAN, writers: 0..Width - 1, policy: Motions \cup {NONE}, epoch: 0..MaxEpoch,
   books: Books]
WorkerRecord ==
  [at: {"idle", "run", "visit", "ended", "total", "samples", "failures", "leave"},
   policy: Motions \cup {NONE}, epoch: 0..MaxEpoch, failed: BOOLEAN, counts: BOOLEAN]
PublisherRecord ==
  [at: {"ended", "writers", "take", "epoch", "total", "samples", "failures", "report", "done"},
   slot: SlotNumbers, epoch: 0..MaxEpoch, read: Books]

\* policyEpoch % kPolicyInferenceStatsSlots is a slot.
LEMMA SlotsHaveNumbers == /\ \A e \in Nat : Slot(e) \in SlotNumbers
                          /\ 0 \in SlotNumbers /\ Epochs \subseteq Nat /\ 0 \notin Epochs
                          /\ Epochs \subseteq 0..MaxEpoch /\ 0 \in 0..MaxEpoch
  BY StatsAssumption DEF Slot, SlotNumbers, Epochs

LEMMA NothingAdded == /\ NoRuns \in Books
                      /\ NoRuns.total = 0 /\ NoRuns.samples = 0 /\ NoRuns.failures = 0
  BY DEF NoRuns, Books

\* The order on the books, number by number.
LEMMA AtMostByNumber ==
  ASSUME NEW a, NEW b
  PROVE  AtMost(a, b) <=> a.total <= b.total /\ a.samples <= b.samples /\ a.failures <= b.failures
<1>1. DOMAIN NoRuns = {"total", "samples", "failures"}
  BY DEF NoRuns
<1>2. QED
  BY <1>1 DEF AtMost

LEMMA AtMostIsAnOrder ==
  ASSUME NEW a \in Books, NEW b \in Books, NEW c \in Books
  PROVE  /\ AtMost(a, a) /\ AtMost(NoRuns, a)
         /\ AtMost(a, b) /\ AtMost(b, c) => AtMost(a, c)
<1>1. /\ a.total \in Nat /\ a.samples \in Nat /\ a.failures \in Nat
      /\ b.total \in Nat /\ b.samples \in Nat /\ b.failures \in Nat
      /\ c.total \in Nat /\ c.samples \in Nat /\ c.failures \in Nat
  BY DEF Books
<1>2. QED
  BY <1>1, AtMostByNumber, NothingAdded

\* What a run adds.
LEMMA OneMore ==
  ASSUME NEW books \in Books, NEW failed \in BOOLEAN
  PROVE  /\ Plus(books, failed) \in Books
         /\ Plus(books, failed).total = books.total + 1
         /\ Plus(books, failed).samples = books.samples + 1
         /\ Plus(books, failed).failures = books.failures + IF failed THEN 1 ELSE 0
  BY DEF Plus, Books

\* What a store to one of its words makes of a slot.
SlotBecomes(s, ended, writers, epoch, books) ==
  /\ \A t \in SlotNumbers \ {s} : stats'[t] = stats[t]
  /\ stats'[s].ended = ended /\ stats'[s].writers = writers /\ stats'[s].epoch = epoch
  /\ stats'[s].books = books

\* The words of a slot.
LEMMA SlotIsARecord ==
  ASSUME NEW slot \in SlotRecord
  PROVE  /\ slot.ended \in BOOLEAN /\ slot.writers \in 0..Width - 1
         /\ slot.epoch \in 0..MaxEpoch /\ slot.books \in Books
  BY DEF SlotRecord

\* The stores to the five words of a slot.
LEMMA StoreEnded ==
  ASSUME stats \in [SlotNumbers -> SlotRecord], NEW s \in SlotNumbers, NEW x \in BOOLEAN,
         stats' = [stats EXCEPT ![s].ended = x]
  PROVE  /\ stats' \in [SlotNumbers -> SlotRecord]
         /\ SlotBecomes(s, x, stats[s].writers, stats[s].epoch, stats[s].books)
<1>1. [stats[s] EXCEPT !.ended = x] \in SlotRecord
  BY DEF SlotRecord
<1>2. stats' = [stats EXCEPT ![s] = [stats[s] EXCEPT !.ended = x]]
  OBVIOUS
<1>3. stats' \in [SlotNumbers -> SlotRecord] /\ \A t \in SlotNumbers \ {s} : stats'[t] = stats[t]
  BY <1>1, <1>2
<1>4. stats'[s] = [stats[s] EXCEPT !.ended = x]
  BY <1>2
<1>5. QED
  BY <1>3, <1>4 DEF SlotBecomes, SlotRecord

LEMMA StoreWriters ==
  ASSUME stats \in [SlotNumbers -> SlotRecord], NEW s \in SlotNumbers, NEW x \in 0..Width - 1,
         stats' = [stats EXCEPT ![s].writers = x]
  PROVE  /\ stats' \in [SlotNumbers -> SlotRecord]
         /\ SlotBecomes(s, stats[s].ended, x, stats[s].epoch, stats[s].books)
<1>1. [stats[s] EXCEPT !.writers = x] \in SlotRecord
  BY DEF SlotRecord
<1>2. stats' = [stats EXCEPT ![s] = [stats[s] EXCEPT !.writers = x]]
  OBVIOUS
<1>3. stats' \in [SlotNumbers -> SlotRecord] /\ \A t \in SlotNumbers \ {s} : stats'[t] = stats[t]
  BY <1>1, <1>2
<1>4. stats'[s] = [stats[s] EXCEPT !.writers = x]
  BY <1>2
<1>5. QED
  BY <1>3, <1>4 DEF SlotBecomes, SlotRecord

LEMMA StorePolicyWord ==
  ASSUME stats \in [SlotNumbers -> SlotRecord], NEW s \in SlotNumbers, NEW x \in Motions \cup {NONE},
         stats' = [stats EXCEPT ![s].policy = x]
  PROVE  /\ stats' \in [SlotNumbers -> SlotRecord]
         /\ SlotBecomes(s, stats[s].ended, stats[s].writers, stats[s].epoch, stats[s].books)
<1>1. [stats[s] EXCEPT !.policy = x] \in SlotRecord
  BY DEF SlotRecord
<1>2. stats' = [stats EXCEPT ![s] = [stats[s] EXCEPT !.policy = x]]
  OBVIOUS
<1>3. stats' \in [SlotNumbers -> SlotRecord] /\ \A t \in SlotNumbers \ {s} : stats'[t] = stats[t]
  BY <1>1, <1>2
<1>4. stats'[s] = [stats[s] EXCEPT !.policy = x]
  BY <1>2
<1>5. QED
  BY <1>3, <1>4 DEF SlotBecomes, SlotRecord

LEMMA StoreEpochWord ==
  ASSUME stats \in [SlotNumbers -> SlotRecord], NEW s \in SlotNumbers, NEW x \in 0..MaxEpoch,
         stats' = [stats EXCEPT ![s].epoch = x]
  PROVE  /\ stats' \in [SlotNumbers -> SlotRecord]
         /\ SlotBecomes(s, stats[s].ended, stats[s].writers, x, stats[s].books)
<1>1. [stats[s] EXCEPT !.epoch = x] \in SlotRecord
  BY DEF SlotRecord
<1>2. stats' = [stats EXCEPT ![s] = [stats[s] EXCEPT !.epoch = x]]
  OBVIOUS
<1>3. stats' \in [SlotNumbers -> SlotRecord] /\ \A t \in SlotNumbers \ {s} : stats'[t] = stats[t]
  BY <1>1, <1>2
<1>4. stats'[s] = [stats[s] EXCEPT !.epoch = x]
  BY <1>2
<1>5. QED
  BY <1>3, <1>4 DEF SlotBecomes, SlotRecord

LEMMA StoreBooks ==
  ASSUME stats \in [SlotNumbers -> SlotRecord], NEW s \in SlotNumbers, NEW x \in Books,
         stats' = [stats EXCEPT ![s].books = x]
  PROVE  /\ stats' \in [SlotNumbers -> SlotRecord]
         /\ SlotBecomes(s, stats[s].ended, stats[s].writers, stats[s].epoch, x)
<1>1. [stats[s] EXCEPT !.books = x] \in SlotRecord
  BY DEF SlotRecord
<1>2. stats' = [stats EXCEPT ![s] = [stats[s] EXCEPT !.books = x]]
  OBVIOUS
<1>3. stats' \in [SlotNumbers -> SlotRecord] /\ \A t \in SlotNumbers \ {s} : stats'[t] = stats[t]
  BY <1>1, <1>2
<1>4. stats'[s] = [stats[s] EXCEPT !.books = x]
  BY <1>2
<1>5. QED
  BY <1>3, <1>4 DEF SlotBecomes, SlotRecord

\* The three increments.
LEMMA Increments ==
  ASSUME stats \in [SlotNumbers -> SlotRecord], NEW s \in SlotNumbers,
         NEW books, books = stats[s].books,
         \/ stats' = [stats EXCEPT ![s].books.total = @ + 1]
         \/ stats' = [stats EXCEPT ![s].books.samples = @ + 1]
         \/ stats' = [stats EXCEPT ![s].books.failures = @ + 1]
  PROVE  /\ stats' \in [SlotNumbers -> SlotRecord]
         /\ SlotBecomes(s, stats[s].ended, stats[s].writers, stats[s].epoch, stats'[s].books)
         /\ AtMost(books, stats'[s].books)
         /\ stats' = [stats EXCEPT ![s].books.total = @ + 1] =>
              /\ stats'[s].books.total = books.total + 1
              /\ stats'[s].books.samples = books.samples
              /\ stats'[s].books.failures = books.failures
         /\ stats' = [stats EXCEPT ![s].books.samples = @ + 1] =>
              /\ stats'[s].books.total = books.total
              /\ stats'[s].books.samples = books.samples + 1
              /\ stats'[s].books.failures = books.failures
         /\ stats' = [stats EXCEPT ![s].books.failures = @ + 1] =>
              /\ stats'[s].books.total = books.total
              /\ stats'[s].books.samples = books.samples
              /\ stats'[s].books.failures = books.failures + 1
<1> DEFINE T == [books EXCEPT !.total = @ + 1]
           M == [books EXCEPT !.samples = @ + 1]
           F == [books EXCEPT !.failures = @ + 1]
<1>1. books \in Books
  BY SlotIsARecord
<1>2. T \in Books /\ M \in Books /\ F \in Books
  BY <1>1 DEF Books
<1>3. /\ T.total = books.total + 1 /\ T.samples = books.samples /\ T.failures = books.failures
      /\ M.total = books.total /\ M.samples = books.samples + 1 /\ M.failures = books.failures
      /\ F.total = books.total /\ F.samples = books.samples /\ F.failures = books.failures + 1
  BY <1>1 DEF Books
<1>4. AtMost(books, T) /\ AtMost(books, M) /\ AtMost(books, F)
  <2>1. books.total \in Nat /\ books.samples \in Nat /\ books.failures \in Nat
    BY <1>1 DEF Books
  <2> HIDE DEF T, M, F
  <2>2. QED
    BY <2>1, <1>3, AtMostByNumber
<1>5. /\ stats' = [stats EXCEPT ![s].books.total = @ + 1] => stats' = [stats EXCEPT ![s].books = T]
      /\ stats' = [stats EXCEPT ![s].books.samples = @ + 1] => stats' = [stats EXCEPT ![s].books = M]
      /\ stats' = [stats EXCEPT ![s].books.failures = @ + 1] => stats' = [stats EXCEPT ![s].books = F]
  OBVIOUS
<1> HIDE DEF T, M, F
<1>6. ASSUME NEW x \in {T, M, F}, stats' = [stats EXCEPT ![s].books = x]
      PROVE  /\ stats' \in [SlotNumbers -> SlotRecord] /\ stats'[s].books = x
             /\ SlotBecomes(s, stats[s].ended, stats[s].writers, stats[s].epoch, stats'[s].books)
  BY <1>2, <1>6, StoreBooks DEF SlotBecomes
<1>7. QED
  BY <1>3, <1>4, <1>5, <1>6

\* What becomes of a publishing thread.
PublisherBecomes(p, at, slot, epoch, read) ==
  /\ \A q \in Publishers \ {p} : publisher'[q] = publisher[q]
  /\ publisher'[p].at = at /\ publisher'[p].slot = slot
  /\ publisher'[p].epoch = epoch /\ publisher'[p].read = read

PublisherAt ==
  {"ended", "writers", "take", "epoch", "total", "samples", "failures", "report", "done"}

\* The words of a publishing thread, and what its steps make of them.
LEMMA PublisherIsARecord ==
  ASSUME publisher \in [Publishers -> PublisherRecord], NEW p \in Publishers
  PROVE  /\ publisher[p].at \in PublisherAt /\ publisher[p].slot \in SlotNumbers
         /\ publisher[p].epoch \in 0..MaxEpoch /\ publisher[p].read \in Books
<1>1. publisher[p] \in PublisherRecord
  OBVIOUS
<1>2. QED
  BY <1>1 DEF PublisherRecord, PublisherAt

LEMMA PublisherMoves ==
  ASSUME publisher \in [Publishers -> PublisherRecord], NEW p \in Publishers,
         NEW at \in PublisherAt, PublisherGoes(p, at)
  PROVE  /\ publisher' \in [Publishers -> PublisherRecord]
         /\ PublisherBecomes(p, at, publisher[p].slot, publisher[p].epoch, publisher[p].read)
<1>1. publisher[p] \in PublisherRecord
  OBVIOUS
<1>2. [publisher[p] EXCEPT !.at = at] \in PublisherRecord
  BY <1>1 DEF PublisherRecord, PublisherAt
<1>3. publisher' = [publisher EXCEPT ![p] = [publisher[p] EXCEPT !.at = at]]
  BY DEF PublisherGoes
<1>4. /\ publisher' \in [Publishers -> PublisherRecord]
      /\ \A q \in Publishers \ {p} : publisher'[q] = publisher[q]
  BY <1>2, <1>3
<1>5. publisher'[p] = [publisher[p] EXCEPT !.at = at]
  BY <1>3
<1>6. QED
  BY <1>1, <1>4, <1>5 DEF PublisherBecomes, PublisherRecord

LEMMA PublisherGoesOn ==
  ASSUME publisher \in [Publishers -> PublisherRecord], NEW p \in Publishers, NextSlot(p)
  PROVE  /\ publisher' \in [Publishers -> PublisherRecord]
         /\ \E at \in {"ended", "done"}, slot \in SlotNumbers :
              PublisherBecomes(p, at, slot, 0, NoRuns)
<1>1. publisher[p].slot \in SlotNumbers
  BY PublisherIsARecord
<1>2. PICK at \in {"ended", "done"}, slot \in SlotNumbers :
        publisher' = [publisher EXCEPT ![p] = [at |-> at, slot |-> slot, epoch |-> 0, read |-> NoRuns]]
  <2>1. CASE MoreSlots(publisher[p].slot)
    <3>1. publisher[p].slot + 1 \in SlotNumbers
      BY <1>1, <2>1, StatsAssumption DEF MoreSlots, SlotNumbers
    <3>2. publisher' = [publisher EXCEPT ![p] = [at |-> "ended", slot |-> publisher[p].slot + 1,
                                                 epoch |-> 0, read |-> NoRuns]]
      <4>1. \A n : [Pass EXCEPT !.slot = n] = [at |-> "ended", slot |-> n, epoch |-> 0, read |-> NoRuns]
        BY DEF Pass
      <4>2. publisher' = [publisher EXCEPT ![p] = [Pass EXCEPT !.slot = publisher[p].slot + 1]]
        BY <2>1 DEF NextSlot
      <4>3. QED
        BY <4>1, <4>2
    <3>3. QED
      BY <3>1, <3>2
  <2>2. CASE ~MoreSlots(publisher[p].slot)
    <3>1. publisher' = [publisher EXCEPT ![p] = [at |-> "done", slot |-> 0,
                                                 epoch |-> 0, read |-> NoRuns]]
      <4>1. [Pass EXCEPT !.at = "done"] = [at |-> "done", slot |-> 0, epoch |-> 0, read |-> NoRuns]
        BY DEF Pass
      <4>2. publisher' = [publisher EXCEPT ![p] = [Pass EXCEPT !.at = "done"]]
        BY <2>2 DEF NextSlot
      <4>3. QED
        BY <4>1, <4>2
    <3>2. QED
      BY <3>1, SlotsHaveNumbers
  <2>3. QED
    BY <2>1, <2>2
<1> DEFINE r == [at |-> at, slot |-> slot, epoch |-> 0, read |-> NoRuns]
<1>3. r \in PublisherRecord
  BY SlotsHaveNumbers, NothingAdded DEF PublisherRecord
<1>4. r.at = at /\ r.slot = slot /\ r.epoch = 0 /\ r.read = NoRuns
  OBVIOUS
<1> HIDE DEF r
<1>5. /\ publisher' \in [Publishers -> PublisherRecord] /\ publisher'[p] = r
      /\ \A q \in Publishers \ {p} : publisher'[q] = publisher[q]
  BY <1>2, <1>3 DEF r
<1>6. PublisherBecomes(p, at, slot, 0, NoRuns)
  BY <1>4, <1>5 DEF PublisherBecomes
<1>7. QED
  BY <1>5, <1>6

-----------------------------------------------------------------------------
(* The invariant of the statistics. *)

ReadingAt == {"total", "samples", "failures", "report"}
PublishingAt == {"epoch"} \cup ReadingAt
LookingAt == {"writers", "take"} \cup PublishingAt
Reading(p) == publisher[p].at \in ReadingAt
On(p, s) == publisher[p].slot = s
Reopening == {"clear", "no writers", "policy", "epoch"}
LoopAt == {"idle", "reopen", "end", "leave"} \cup Reopening
One(b) == IF b THEN 1 ELSE 0

\* The types, and where each thread can be with what.
Types ==
  /\ stats \in [SlotNumbers -> SlotRecord]
  /\ policyEpoch \in 0..MaxEpoch /\ active \in Motions \cup {NONE}
  /\ loopAt \in LoopAt /\ looping \in BOOLEAN
  /\ observed \subseteq [policy: Motions, epoch: Epochs]
  /\ worker \in WorkerRecord
  /\ runs \in 0..MaxRuns
  /\ publisher \in [Publishers -> PublisherRecord]
  /\ mainAt \in {"up", "join worker", "flush", "join timer", "down"}
  /\ reported \subseteq Epochs /\ crowded \subseteq 0..MaxEpoch
  /\ finished \in [Epochs -> Books] /\ closed \in [Epochs -> SUBSET Books]

Threads ==
  /\ loopAt \in {"end", "leave"} => policyEpoch < MaxEpoch
  /\ loopAt # "idle" \/ active # NONE => policyEpoch \in Epochs
  /\ worker.at # "idle" => worker.epoch \in Epochs
  /\ worker.at = "idle" => worker.epoch = 0 /\ ~worker.counts
  /\ worker.counts => worker.at \in {"failures", "leave"}
  /\ worker.at = "failures" => worker.counts /\ worker.failed
  /\ \A p \in Publishers :
       IF Reading(p) THEN publisher[p].epoch \in Epochs
       ELSE publisher[p].epoch = 0 /\ publisher[p].read = NoRuns
  /\ \A s \in SlotNumbers : stats[s].epoch # 0 => Slot(stats[s].epoch) = s

\* Nothing has heard of an epoch before its slot is stored.
Fresh(e) == e > policyEpoch \/ (e = policyEpoch /\ loopAt \in {"reopen"} \cup Reopening)
FreshEpochs ==
  \A e \in Epochs : Fresh(e) =>
    /\ \A s \in SlotNumbers : stats[s].epoch # e
    /\ worker.epoch # e /\ \A o \in observed : o.epoch # e
    /\ \A p \in Publishers : publisher[p].epoch # e
    /\ closed[e] = {} /\ e \notin reported /\ finished[e] = NoRuns

\* The visit has its slot to itself: it is under way, or ended and not reported yet.
Home(e) ==
  /\ e \notin crowded /\ stats[Slot(e)].epoch = e
  /\ e = policyEpoch \/ closed[e] # {}

\* Only one thread publishes the visit, once, and only when it has ended.
PublishedOnce ==
  \A e \in Epochs : Home(e) =>
    /\ closed[e] = {} => ~stats[Slot(e)].ended /\ ~Looking(Slot(e))
    /\ stats[Slot(e)].ended => ~Publishing(Slot(e))
    /\ closed[e] # {} => stats[Slot(e)].ended \/ Publishing(Slot(e))
    /\ e \notin reported
    /\ \A p, q \in Publishers :
         On(p, Slot(e)) /\ publisher[p].at \in PublishingAt
           /\ On(q, Slot(e)) /\ publisher[q].at \in PublishingAt => p = q
    /\ \A p \in Publishers : On(p, Slot(e)) /\ Reading(p) => publisher[p].epoch = e

\* The slot counts its writer, and its books hold what was added of the visit.
BooksKept ==
  \A e \in Epochs : Home(e) =>
    /\ stats[Slot(e)].writers = One(Writing(Slot(e)))
    /\ Writing(Slot(e)) /\ (worker.at \in {"ended", "total", "samples", "failures"} \/ worker.counts)
         => worker.epoch = e
    /\ stats[Slot(e)].books.total = finished[e].total
         + One(worker.epoch = e /\ (worker.at \in {"samples", "failures"} \/ worker.counts))
    /\ stats[Slot(e)].books.samples = finished[e].samples + One(worker.epoch = e /\ worker.counts)
    /\ stats[Slot(e)].books.failures = finished[e].failures
         + One(worker.epoch = e /\ worker.counts /\ worker.failed /\ worker.at = "leave")

\* What was admitted at the end is added, when a publisher has seen no writer inside.
AdmittedAdded ==
  \A e \in Epochs : \A atEnd \in closed[e] :
    /\ AtMost(atEnd, Admitted(e))
    /\ Home(e) => \A p \in Publishers :
         On(p, Slot(e)) /\ publisher[p].at \in {"take"} \cup PublishingAt
           => AtMost(atEnd, finished[e])

\* What a publisher has read of it.
ReadersRight ==
  \A p \in Publishers : \A e \in Epochs \ crowded :
    /\ Reading(p) /\ publisher[p].epoch = e =>
         /\ Home(e) /\ On(p, Slot(e)) /\ closed[e] # {}
         /\ AtMost(publisher[p].read, stats[Slot(e)].books)
         /\ \A atEnd \in closed[e] :
              /\ publisher[p].at # "total" => atEnd.total <= publisher[p].read.total
              /\ publisher[p].at \in {"failures", "report"}
                   => atEnd.samples <= publisher[p].read.samples
              /\ publisher[p].at = "report" => atEnd.failures <= publisher[p].read.failures
    /\ publisher[p].at = "epoch" /\ stats[publisher[p].slot].epoch = e => closed[e] # {}

EndedVisits ==
  \A s \in SlotNumbers : \A e \in Epochs \ crowded :
    stats[s].ended /\ stats[s].epoch = e => closed[e] # {}

\* A slot that is being cleared for a visit that is alone in it stays clear.
Reopened ==
  loopAt \in Reopening =>
    LET s == Slot(policyEpoch) IN
    /\ \A e \in Epochs \ crowded : stats[s].epoch = e => closed[e] = {}
    /\ policyEpoch \notin crowded =>
         /\ ~stats[s].ended /\ ~Looking(s) /\ ~Writing(s)
         /\ loopAt # "clear" => stats[s].books = NoRuns
         /\ loopAt \in {"policy", "epoch"} => stats[s].writers = 0

Ends ==
  /\ loopAt = "end" => stats[Slot(policyEpoch)].epoch \in {policyEpoch, 0}
  /\ loopAt # "leave" /\ policyEpoch # 0 => closed[policyEpoch] = {}

Visits == /\ FreshEpochs /\ PublishedOnce /\ BooksKept /\ AdmittedAdded
          /\ ReadersRight /\ EndedVisits /\ Reopened /\ Ends
StatsIInv == Types /\ Threads /\ Visits

WorkerAt == {"idle", "run", "visit", "ended", "total", "samples", "failures", "leave"}
\* What the steps need of the invariant, with the types taken apart.
LEMMA StatsFacts ==
  ASSUME StatsIInv
  PROVE  /\ FreshEpochs /\ PublishedOnce /\ BooksKept /\ AdmittedAdded
         /\ ReadersRight /\ EndedVisits /\ Reopened /\ Ends
         /\ policyEpoch \in Nat /\ policyEpoch \in 0..MaxEpoch /\ Slot(policyEpoch) \in SlotNumbers
         /\ \A e \in Epochs : /\ e \in Nat /\ e # 0 /\ Slot(e) \in SlotNumbers /\ closed[e] \subseteq Books
                              /\ finished[e] \in Books
         /\ stats \in [SlotNumbers -> SlotRecord]
         /\ publisher \in [Publishers -> PublisherRecord]
         /\ worker.at \in WorkerAt /\ worker.epoch \in Nat /\ Slot(worker.epoch) \in SlotNumbers
         /\ worker.failed \in BOOLEAN /\ worker.counts \in BOOLEAN
<1>1. Visits /\ Types
  BY DEF StatsIInv
<1>2. policyEpoch \in Nat /\ policyEpoch \in 0..MaxEpoch /\ Slot(policyEpoch) \in SlotNumbers
  <2>1. policyEpoch \in 0..MaxEpoch
    BY <1>1 DEF Types
  <2>2. QED
    BY <2>1, SlotsHaveNumbers, StatsAssumption
<1>3. worker \in WorkerRecord
  BY <1>1 DEF Types
<1>4. /\ worker.at \in WorkerAt /\ worker.epoch \in 0..MaxEpoch
      /\ worker.failed \in BOOLEAN /\ worker.counts \in BOOLEAN
  BY <1>3 DEF WorkerRecord, WorkerAt
<1>5. worker.epoch \in Nat /\ Slot(worker.epoch) \in SlotNumbers
  BY <1>4, SlotsHaveNumbers, StatsAssumption
<1>6. finished \in [Epochs -> Books] /\ closed \in [Epochs -> SUBSET Books]
      /\ stats \in [SlotNumbers -> SlotRecord] /\ publisher \in [Publishers -> PublisherRecord]
  BY <1>1 DEF Types
<1>7. ASSUME NEW e \in Epochs
      PROVE  /\ e \in Nat /\ e # 0 /\ Slot(e) \in SlotNumbers /\ closed[e] \subseteq Books
             /\ finished[e] \in Books
  BY <1>6, SlotsHaveNumbers
<1>8. QED
  BY <1>1, <1>2, <1>4, <1>5, <1>6, <1>7 DEF Visits

\* What Admitted is in numbers.
Within(e) ==
  worker.epoch = e /\ (worker.at \in {"total", "samples", "failures"} \/ worker.counts)
LEMMA AdmittedIs ==
  ASSUME NEW e, finished[e] \in Books, worker.failed \in BOOLEAN
  PROVE  /\ Admitted(e) \in Books
         /\ Admitted(e).total = finished[e].total + One(Within(e))
         /\ Admitted(e).samples = finished[e].samples + One(Within(e))
         /\ Admitted(e).failures = finished[e].failures + One(Within(e) /\ worker.failed)
<1>1. finished[e].total \in Nat /\ finished[e].samples \in Nat /\ finished[e].failures \in Nat
  BY DEF Books
<1>2. Admitted(e) = IF Within(e) THEN Plus(finished[e], worker.failed) ELSE finished[e]
  BY DEF Admitted, Within
<1>3. CASE Within(e)
  BY <1>1, <1>2, <1>3, OneMore DEF One
<1>4. CASE ~Within(e)
  BY <1>1, <1>2, <1>4 DEF One
<1>5. QED
  BY <1>3, <1>4

\* A visit keeps its slot to itself at most as long as nothing crowds it.
LEMMA HomeLasts ==
  ASSUME \A s \in SlotNumbers : stats'[s].epoch = stats[s].epoch,
         closed' = closed, policyEpoch' = policyEpoch, crowded \subseteq crowded',
         NEW e \in Epochs, Slot(e) \in SlotNumbers
  PROVE  /\ Home(e)' => Home(e)
         /\ Home(e) /\ e \notin crowded' => Home(e)'
  BY DEF Home

PastWriters == {"take"} \cup PublishingAt

\* Nothing is asked of the admitted runs when no publisher goes past the writers.
LEMMA AdmittedStays ==
  ASSUME StatsIInv, closed' = closed,
         \A e \in Epochs : Home(e)' => Home(e),
         \A e \in Epochs : /\ Admitted(e)' \in Books /\ AtMost(Admitted(e), Admitted(e)')
                           /\ finished'[e] \in Books /\ AtMost(finished[e], finished'[e]),
         \A q \in Publishers :
           publisher'[q].at \in PastWriters =>
             publisher[q].at \in PastWriters /\ publisher'[q].slot = publisher[q].slot
  PROVE  AdmittedAdded'
<1>1. AdmittedAdded /\ worker.failed \in BOOLEAN
      /\ \A e \in Epochs : closed[e] \subseteq Books /\ finished[e] \in Books /\ Admitted(e) \in Books
  BY StatsFacts, AdmittedIs
<1> SUFFICES ASSUME NEW e \in Epochs, NEW atEnd \in closed[e]
             PROVE  /\ AtMost(atEnd, Admitted(e)')
                    /\ Home(e)' => \A p \in Publishers :
                         On(p, Slot(e))' /\ publisher'[p].at \in PastWriters
                           => AtMost(atEnd, finished'[e])
  BY DEF AdmittedAdded, AtMost, PastWriters
<1>2. AtMost(atEnd, Admitted(e)) /\ atEnd \in Books
  BY <1>1 DEF AdmittedAdded
<1>3. AtMost(atEnd, Admitted(e)')
  BY <1>1, <1>2, AtMostIsAnOrder
<1>4. ASSUME Home(e)', NEW p \in Publishers, On(p, Slot(e))', publisher'[p].at \in PastWriters
      PROVE  AtMost(atEnd, finished'[e])
  <2>1. On(p, Slot(e)) /\ publisher[p].at \in PastWriters /\ Home(e)
    BY <1>4 DEF On
  <2>2. AtMost(atEnd, finished[e])
    BY <1>1, <2>1 DEF AdmittedAdded, PastWriters
  <2>3. QED
    BY <1>1, <1>2, <2>2, AtMostIsAnOrder
<1>5. QED
  BY <1>3, <1>4

\* Nothing is asked of a publisher's numbers when it reads no further.
LEMMA ReadersStay ==
  ASSUME StatsIInv, closed' = closed, crowded \subseteq crowded',
         \A q \in Publishers :
           \/ publisher'[q] = publisher[q]
           \/ ~Reading(q)' /\ (publisher'[q].at = "epoch" =>
                \A e \in Epochs \ crowded' : stats'[publisher'[q].slot].epoch = e => closed[e] # {}),
         \A s \in SlotNumbers :
           /\ stats'[s].epoch \in {stats[s].epoch, 0}
           /\ stats'[s].books \in Books /\ AtMost(stats[s].books, stats'[s].books),
         \A q \in Publishers : \A e \in Epochs \ crowded' :
           Reading(q)' /\ publisher'[q].epoch = e /\ Home(e) => Home(e)'
  PROVE  ReadersRight'
<1>1. /\ ReadersRight /\ \A e \in Epochs : Slot(e) \in SlotNumbers /\ e # 0
      /\ \A q \in Publishers : publisher[q].slot \in SlotNumbers /\ publisher[q].read \in Books
      /\ \A s \in SlotNumbers : stats[s].books \in Books
  BY StatsFacts, PublisherIsARecord, SlotIsARecord
<1> SUFFICES ASSUME NEW p \in Publishers, NEW e \in Epochs \ crowded'
             PROVE
    /\ Reading(p)' /\ publisher'[p].epoch = e =>
         /\ Home(e)' /\ On(p, Slot(e))' /\ closed[e] # {}
         /\ AtMost(publisher'[p].read, stats'[Slot(e)].books)
         /\ \A atEnd \in closed[e] :
              /\ publisher'[p].at # "total" => atEnd.total <= publisher'[p].read.total
              /\ publisher'[p].at \in {"failures", "report"}
                   => atEnd.samples <= publisher'[p].read.samples
              /\ publisher'[p].at = "report" => atEnd.failures <= publisher'[p].read.failures
    /\ publisher'[p].at = "epoch" /\ stats'[publisher'[p].slot].epoch = e => closed[e] # {}
  BY DEF ReadersRight, AtMost
<1>2. e \in Epochs \ crowded
  OBVIOUS
<1>3. ASSUME Reading(p)', publisher'[p].epoch = e
      PROVE  /\ Home(e)' /\ On(p, Slot(e))' /\ closed[e] # {}
             /\ AtMost(publisher'[p].read, stats'[Slot(e)].books)
             /\ \A atEnd \in closed[e] :
                  /\ publisher'[p].at # "total" => atEnd.total <= publisher'[p].read.total
                  /\ publisher'[p].at \in {"failures", "report"}
                       => atEnd.samples <= publisher'[p].read.samples
                  /\ publisher'[p].at = "report" => atEnd.failures <= publisher'[p].read.failures
  <2>1. publisher'[p] = publisher[p] /\ Reading(p) /\ publisher[p].epoch = e
    BY <1>3 DEF Reading
  <2>2. /\ Home(e) /\ On(p, Slot(e)) /\ closed[e] # {}
        /\ AtMost(publisher[p].read, stats[Slot(e)].books)
        /\ \A atEnd \in closed[e] :
             /\ publisher[p].at # "total" => atEnd.total <= publisher[p].read.total
             /\ publisher[p].at \in {"failures", "report"}
                  => atEnd.samples <= publisher[p].read.samples
             /\ publisher[p].at = "report" => atEnd.failures <= publisher[p].read.failures
    BY <1>1, <1>2, <2>1 DEF ReadersRight
  <2>3. AtMost(publisher[p].read, stats'[Slot(e)].books)
    BY <1>1, <2>2, AtMostIsAnOrder
  <2>4. Home(e)' /\ On(p, Slot(e))'
    BY <1>3, <2>1, <2>2 DEF On
  <2>5. QED
    BY <2>1, <2>2, <2>3, <2>4
<1>4. publisher'[p].at = "epoch" /\ stats'[publisher'[p].slot].epoch = e => closed[e] # {}
  BY <1>1, <1>2 DEF ReadersRight
<1>5. QED
  BY <1>3, <1>4

\* A slot that is being cleared is not disturbed by those who have not begun with it.
LEMMA ReopenedStays ==
  ASSUME StatsIInv, closed' = closed, policyEpoch' = policyEpoch, loopAt' = loopAt,
         crowded \subseteq crowded', NEW s \in SlotNumbers, s = Slot(policyEpoch),
         stats'[s].epoch \in {stats[s].epoch, 0},
         /\ loopAt \in Reopening /\ policyEpoch \notin crowded'
         /\ ~stats[s].ended /\ ~Looking(s) /\ ~Writing(s)
         => /\ ~stats'[s].ended /\ ~Looking(s)' /\ ~Writing(s)'
            /\ stats'[s].books = stats[s].books /\ stats'[s].writers = stats[s].writers
  PROVE  Reopened'
<1>1. Reopened /\ \A e \in Epochs : e # 0
  BY StatsFacts
<1> SUFFICES ASSUME loopAt \in Reopening
             PROVE
    /\ \A e \in Epochs \ crowded' : stats'[s].epoch = e => closed[e] = {}
    /\ policyEpoch \notin crowded' =>
         /\ ~stats'[s].ended /\ ~Looking(s)' /\ ~Writing(s)'
         /\ loopAt # "clear" => stats'[s].books = NoRuns
         /\ loopAt \in {"policy", "epoch"} => stats'[s].writers = 0
  <2>1. Slot(policyEpoch') = s
    OBVIOUS
  <2>2. QED
    BY <2>1 DEF Reopened, Looking, Publishing, Writing
<1>2. /\ \A e \in Epochs \ crowded : stats[s].epoch = e => closed[e] = {}
      /\ policyEpoch \notin crowded =>
           /\ ~stats[s].ended /\ ~Looking(s) /\ ~Writing(s)
           /\ loopAt # "clear" => stats[s].books = NoRuns
           /\ loopAt \in {"policy", "epoch"} => stats[s].writers = 0
  BY <1>1 DEF Reopened
<1>3. QED
  BY <1>1, <1>2

-----------------------------------------------------------------------------
(* The publishing threads keep it. *)

\* The compare-exchange of `ended': the visit has ended, or nobody can tell.
LEMMA TakeKeeps ==
  ASSUME StatsIInv, NEW p \in Publishers, Take(p)
  PROVE  StatsIInv'
<1>1. PICK t \in SlotNumbers : t = publisher[p].slot
  BY StatsFacts, PublisherIsARecord
<1>2. UNCHANGED <<policyEpoch, active, loopAt, looping, closed, observed, worker, finished,
                  runs, mainAt, reported, crowded>>
  BY DEF Take, loopVars, workerVars
<1>3. /\ publisher[p].at = "take" /\ ~Reading(p)
      /\ publisher[p].epoch = 0 /\ publisher[p].read = NoRuns
  BY DEF StatsIInv, Threads, Take, May, Reading, ReadingAt
<1>4. /\ stats' \in [SlotNumbers -> SlotRecord]
      /\ SlotBecomes(t, FALSE, stats[t].writers, stats[t].epoch, stats[t].books)
  <2>1. stats' = [stats EXCEPT ![t].ended = FALSE]
    BY <1>1 DEF Take
  <2>2. QED
    BY <2>1, StatsFacts, StoreEnded
<1>5. /\ publisher' \in [Publishers -> PublisherRecord]
      /\ IF stats[t].ended THEN PublisherBecomes(p, "epoch", t, 0, NoRuns)
         ELSE \E at \in {"ended", "done"}, slot \in SlotNumbers :
                PublisherBecomes(p, at, slot, 0, NoRuns)
  <2>1. CASE stats[t].ended
    <3>1. PublisherGoes(p, "epoch")
      BY <1>1, <2>1 DEF Take, IsMine
    <3>2. QED
      BY <3>1, <2>1, <1>1, <1>3, StatsFacts, PublisherMoves DEF PublisherAt
  <2>2. CASE ~stats[t].ended
    <3>1. NextSlot(p)
      BY <1>1, <2>2 DEF Take, IsMine
    <3>2. QED
      BY <3>1, <2>2, StatsFacts, PublisherGoesOn
  <2>3. QED
    BY <2>1, <2>2
<1>6. Types'
  BY <1>2, <1>4, <1>5 DEF StatsIInv, Types
<1>7. Threads'
  BY <1>2, <1>4, <1>5 DEF StatsIInv, Threads, SlotBecomes, PublisherBecomes, Reading, ReadingAt
<1>8. \A r \in SlotNumbers :
        /\ stats'[r].epoch = stats[r].epoch /\ stats'[r].writers = stats[r].writers
        /\ stats'[r].books = stats[r].books /\ (stats'[r].ended => stats[r].ended /\ r # t)
  BY <1>4 DEF SlotBecomes
<1>9. /\ \A q \in Publishers \ {p} : publisher'[q] = publisher[q]
      /\ publisher'[p].epoch = 0 /\ ~Reading(p)'
      /\ publisher'[p].at \in LookingAt => publisher'[p].at = "epoch" /\ publisher'[p].slot = t /\ stats[t].ended
  BY <1>5 DEF PublisherBecomes, Reading, ReadingAt, LookingAt, PublishingAt
<1>10. FreshEpochs'
  BY <1>2, <1>8, <1>9, StatsFacts DEF FreshEpochs, Fresh
<1>11. \A e \in Epochs : Home(e)' <=> Home(e)
  BY <1>2, <1>8, StatsFacts DEF Home
<1>12. PublishedOnce'
  <2>1. ASSUME NEW r \in SlotNumbers
        PROVE  /\ Looking(r)' => Looking(r)
               /\ Publishing(r)' => Publishing(r) \/ (r = t /\ stats[t].ended)
               /\ Publishing(r) => Publishing(r)'
               /\ r = t /\ stats[t].ended => Publishing(r)'
    BY <1>1, <1>3, <1>5, <1>9 DEF Looking, Publishing, LookingAt, PublishingAt, ReadingAt, PublisherBecomes
  <2>2. \A r \in SlotNumbers : stats[r].ended /\ r # t => stats'[r].ended
    BY <1>4 DEF SlotBecomes
  <2> SUFFICES ASSUME NEW e \in Epochs, Home(e), NEW r \in SlotNumbers, r = Slot(e)
               PROVE
      /\ closed[e] = {} => ~stats'[r].ended /\ ~Looking(r)'
      /\ stats'[r].ended => ~Publishing(r)'
      /\ closed[e] # {} => stats'[r].ended \/ Publishing(r)'
      /\ e \notin reported
      /\ \A q, u \in Publishers :
           On(q, r)' /\ publisher'[q].at \in PublishingAt
             /\ On(u, r)' /\ publisher'[u].at \in PublishingAt => q = u
      /\ \A q \in Publishers : On(q, r)' /\ Reading(q)' => publisher'[q].epoch = e
    BY <1>2, <1>11, StatsFacts DEF PublishedOnce
  <2>3. /\ closed[e] = {} => ~stats[r].ended /\ ~Looking(r)
        /\ stats[r].ended => ~Publishing(r)
        /\ closed[e] # {} => stats[r].ended \/ Publishing(r)
        /\ e \notin reported
        /\ \A q, u \in Publishers :
             On(q, r) /\ publisher[q].at \in PublishingAt
               /\ On(u, r) /\ publisher[u].at \in PublishingAt => q = u
        /\ \A q \in Publishers : On(q, r) /\ Reading(q) => publisher[q].epoch = e
    BY StatsFacts DEF PublishedOnce
  <2>4. \A q, u \in Publishers :
          On(q, r)' /\ publisher'[q].at \in PublishingAt
            /\ On(u, r)' /\ publisher'[u].at \in PublishingAt => q = u
    <3>1. \A q \in Publishers : On(q, r) /\ publisher[q].at \in PublishingAt => Publishing(r)
      BY DEF On, Publishing, PublishingAt, ReadingAt
    <3>2. QED
      BY <1>1, <1>9, <2>3, <3>1 DEF On, LookingAt
  <2>5. \A q \in Publishers : On(q, r)' /\ Reading(q)' => publisher'[q].epoch = e
    BY <1>9, <2>3 DEF On, Reading
  <2>6. QED
    BY <1>8, <2>1, <2>2, <2>3, <2>4, <2>5
<1>13. BooksKept'
  BY <1>2, <1>8, <1>11, StatsFacts DEF BooksKept, Writing
<1>14. AdmittedAdded'
  <2>1. \A e \in Epochs : Admitted(e)' = Admitted(e)
    BY <1>2 DEF Admitted
  <2>2. \A e \in Epochs : Admitted(e) \in Books /\ AtMost(Admitted(e), Admitted(e))
                          /\ finished[e] \in Books /\ AtMost(finished[e], finished[e])
    BY StatsFacts, AdmittedIs, AtMostIsAnOrder
  <2>3. \A q \in Publishers : publisher'[q].at \in PastWriters =>
          publisher[q].at \in PastWriters /\ publisher'[q].slot = publisher[q].slot
    BY <1>1, <1>3, <1>5, <1>9 DEF PastWriters, PublishingAt, ReadingAt, PublisherBecomes
  <2>4. QED
    BY <1>2, <1>11, <2>1, <2>2, <2>3, AdmittedStays
<1>15. ReadersRight'
  <2>1. \A q \in Publishers : \A e \in Epochs \ crowded' :
          Reading(q)' /\ publisher'[q].epoch = e /\ Home(e) => Home(e)'
    BY <1>11
  <2>2. \A r \in SlotNumbers :
          /\ stats'[r].epoch \in {stats[r].epoch, 0}
          /\ stats'[r].books \in Books /\ AtMost(stats[r].books, stats'[r].books)
    BY <1>8, StatsFacts, SlotIsARecord, AtMostIsAnOrder
  <2>3. publisher'[p].at = "epoch" =>
          \A e \in Epochs \ crowded' : stats'[publisher'[p].slot].epoch = e => closed[e] # {}
    BY <1>2, <1>8, <1>9, StatsFacts DEF EndedVisits, LookingAt, PublishingAt
  <2>4. QED
    BY <1>2, <1>9, <2>1, <2>2, <2>3, ReadersStay
<1>16. EndedVisits'
  BY <1>2, <1>8, StatsFacts DEF EndedVisits
<1>17. Reopened'
  <2>1. PICK s \in SlotNumbers : s = Slot(policyEpoch)
    BY StatsFacts
  <2>2. Looking(t)
    BY <1>1, <1>3 DEF Looking
  <2>3. Looking(s)' => Looking(s)
    BY <1>9, <2>2 DEF Looking, Publishing, LookingAt, PublishingAt, ReadingAt
  <2>4. Writing(s)' => Writing(s)
    BY <1>2 DEF Writing
  <2>5. QED
    BY <1>2, <1>8, <2>1, <2>3, <2>4, ReopenedStays
<1>18. Ends'
  BY <1>2, <1>8, StatsFacts DEF Ends
<1>19. QED
  BY <1>6, <1>7, <1>10, <1>12, <1>13, <1>14, <1>15, <1>16, <1>17, <1>18 DEF StatsIInv, Visits

\* A step of a publisher that only looks.  It goes on to a slot that has ended, past the
\* writers when there are none, and it gives a visit up only when its slot is free.
LEMMA LookingKeeps ==
  ASSUME StatsIInv, NEW p \in Publishers, NEW t \in SlotNumbers, t = publisher[p].slot,
         UNCHANGED <<stats, policyEpoch, active, loopAt, looping, closed, observed, worker,
                     finished, runs, mainAt, reported, crowded>>,
         publisher' \in [Publishers -> PublisherRecord],
         \A q \in Publishers \ {p} : publisher'[q] = publisher[q],
         publisher'[p].at \in LookingAt =>
           publisher'[p].slot = t /\ (publisher[p].at \in LookingAt \/ stats[t].ended),
         publisher'[p].at \in PublishingAt => publisher[p].at \in PublishingAt,
         publisher[p].at \in PublishingAt =>
           publisher'[p].at \in PublishingAt \/ stats[t].epoch = 0,
         publisher'[p].at \in PastWriters =>
           publisher[p].at \in PastWriters \/ stats[t].writers = 0,
         IF Reading(p)' THEN /\ publisher'[p].epoch # 0
                             /\ \/ publisher'[p].epoch = stats[t].epoch
                                \/ Reading(p) /\ publisher'[p].epoch = publisher[p].epoch
         ELSE publisher'[p].epoch = 0 /\ publisher'[p].read = NoRuns,
         ReadersRight'
  PROVE  StatsIInv'
<1>1. Types'
  BY DEF StatsIInv, Types
<1>2. \A e \in Epochs : Home(e)' <=> Home(e)
  BY DEF Home
<1>3. publisher'[p].epoch # 0 =>
        publisher'[p].epoch = stats[t].epoch \/ publisher'[p].epoch = publisher[p].epoch
  OBVIOUS
<1>4. Threads'
  <2>1. Reading(p)' => publisher'[p].epoch \in Epochs
    <3>1. Reading(p) => publisher[p].epoch \in Epochs
      BY DEF StatsIInv, Threads
    <3>2. stats[t].epoch # 0 => stats[t].epoch \in Epochs
      BY StatsFacts, SlotIsARecord, StatsAssumption DEF Epochs
    <3>3. QED
      BY <3>1, <3>2
  <2>2. \A q \in Publishers : Reading(q)' /\ q # p => Reading(q)
    BY DEF Reading
  <2>3. QED
    BY <2>1, <2>2 DEF StatsIInv, Threads, Reading
<1>5. FreshEpochs'
  BY <1>3, StatsFacts DEF FreshEpochs, Fresh
<1>6. PublishedOnce'
  <2>1. ASSUME NEW r \in SlotNumbers
        PROVE  /\ Looking(r)' => Looking(r) \/ (r = t /\ stats[t].ended)
               /\ Publishing(r)' => Publishing(r)
               /\ Publishing(r) => Publishing(r)' \/ stats[r].epoch = 0
    BY DEF Looking, Publishing, LookingAt, PublishingAt, ReadingAt
  <2> SUFFICES ASSUME NEW e \in Epochs, Home(e), NEW r \in SlotNumbers, r = Slot(e)
               PROVE
      /\ closed[e] = {} => ~stats[r].ended /\ ~Looking(r)'
      /\ stats[r].ended => ~Publishing(r)'
      /\ closed[e] # {} => stats[r].ended \/ Publishing(r)'
      /\ e \notin reported
      /\ \A q, u \in Publishers :
           On(q, r)' /\ publisher'[q].at \in PublishingAt
             /\ On(u, r)' /\ publisher'[u].at \in PublishingAt => q = u
      /\ \A q \in Publishers : On(q, r)' /\ Reading(q)' => publisher'[q].epoch = e
    BY <1>2, StatsFacts DEF PublishedOnce
  <2>2. /\ closed[e] = {} => ~stats[r].ended /\ ~Looking(r)
        /\ stats[r].ended => ~Publishing(r)
        /\ closed[e] # {} => stats[r].ended \/ Publishing(r)
        /\ e \notin reported /\ e # 0 /\ stats[r].epoch = e
        /\ \A q, u \in Publishers :
             On(q, r) /\ publisher[q].at \in PublishingAt
               /\ On(u, r) /\ publisher[u].at \in PublishingAt => q = u
        /\ \A q \in Publishers : On(q, r) /\ Reading(q) => publisher[q].epoch = e
    BY StatsFacts DEF PublishedOnce, Home
  <2>3. \A q \in Publishers :
          On(q, r)' /\ publisher'[q].at \in PublishingAt
            => On(q, r) /\ publisher[q].at \in PublishingAt
    BY DEF On, LookingAt
  <2>4. \A q \in Publishers : On(q, r)' /\ Reading(q)' => publisher'[q].epoch = e
    BY <2>2, <2>3 DEF On, Reading, PublishingAt
  <2>5. QED
    BY <2>1, <2>2, <2>3, <2>4
<1>7. BooksKept'
  BY <1>2, StatsFacts DEF BooksKept, Writing
<1>8. AdmittedAdded'
  <2> SUFFICES ASSUME NEW e \in Epochs, NEW atEnd \in closed[e]
               PROVE  /\ AtMost(atEnd, Admitted(e))
                      /\ Home(e) => \A q \in Publishers :
                           On(q, Slot(e))' /\ publisher'[q].at \in PastWriters
                             => AtMost(atEnd, finished[e])
    <3>1. \A e \in Epochs : Admitted(e)' = Admitted(e)
      BY DEF Admitted
    <3>2. QED
      BY <1>2, <3>1 DEF AdmittedAdded, PastWriters, AtMost
  <2>1. AtMost(atEnd, Admitted(e))
    BY StatsFacts DEF AdmittedAdded
  <2>2. ASSUME Home(e), NEW q \in Publishers, On(q, Slot(e))', publisher'[q].at \in PastWriters
        PROVE  AtMost(atEnd, finished[e])
    <3>1. CASE On(q, Slot(e)) /\ publisher[q].at \in PastWriters
      BY <2>2, <3>1, StatsFacts DEF AdmittedAdded, PastWriters
    <3>2. CASE stats[Slot(e)].writers = 0
      <4>1. ~Writing(Slot(e))
        BY <2>2, <3>2, StatsFacts DEF BooksKept, One
      <4>2. Admitted(e) = finished[e]
        BY <4>1 DEF Writing, Admitted, StatsIInv, Threads
      <4>3. QED
        BY <2>1, <4>2
    <3>3. QED
      BY <2>2, <3>1, <3>2 DEF On, PastWriters, LookingAt
  <2>3. QED
    BY <2>1, <2>2
<1>9. EndedVisits'
  BY StatsFacts DEF EndedVisits
<1>10. Reopened'
  <2>1. PICK s \in SlotNumbers : s = Slot(policyEpoch)
    BY StatsFacts
  <2>2. Looking(s)' => Looking(s) \/ stats[s].ended
    BY DEF Looking, Publishing, LookingAt, PublishingAt, ReadingAt
  <2>3. Writing(s)' => Writing(s)
    BY DEF Writing
  <2>4. QED
    BY <2>1, <2>2, <2>3, ReopenedStays
<1>11. Ends'
  BY StatsFacts DEF Ends
<1>12. QED
  BY <1>1, <1>4, <1>5, <1>6, <1>7, <1>8, <1>9, <1>10, <1>11 DEF StatsIInv, Visits

LEMMA LooksKeep ==
  ASSUME StatsIInv, NEW p \in Publishers, LookAtEnded(p) \/ LookAtWriters(p)
  PROVE  StatsIInv'
<1>1. PICK t \in SlotNumbers : t = publisher[p].slot
  BY StatsFacts, PublisherIsARecord
<1>2. UNCHANGED <<stats, policyEpoch, active, loopAt, looping, closed, observed, worker,
                  finished, runs, mainAt, reported, crowded>>
  BY DEF LookAtEnded, LookAtWriters, loopVars, workerVars
<1>3. /\ publisher[p].at \in {"ended", "writers"} /\ ~Reading(p)
      /\ publisher[p].epoch = 0 /\ publisher[p].read = NoRuns
  BY DEF StatsIInv, Threads, LookAtEnded, LookAtWriters, May, Reading, ReadingAt
<1>4. \/ NextSlot(p)
      \/ PublisherGoes(p, "writers") /\ stats[t].ended
      \/ PublisherGoes(p, "take") /\ stats[t].writers = 0 /\ publisher[p].at = "writers"
  BY <1>1 DEF LookAtEnded, LookAtWriters, NoWriters, May
<1>5. /\ publisher' \in [Publishers -> PublisherRecord]
      /\ \E at \in {"ended", "done", "writers", "take"}, slot \in SlotNumbers :
           /\ PublisherBecomes(p, at, slot, 0, NoRuns)
           /\ at = "writers" => slot = t /\ stats[t].ended
           /\ at = "take" => slot = t /\ stats[t].writers = 0 /\ publisher[p].at = "writers"
  <2>1. CASE NextSlot(p)
    BY <2>1, StatsFacts, PublisherGoesOn
  <2>2. CASE PublisherGoes(p, "writers") /\ stats[t].ended
    BY <2>2, <1>1, <1>3, StatsFacts, PublisherMoves DEF PublisherAt
  <2>3. CASE PublisherGoes(p, "take") /\ stats[t].writers = 0 /\ publisher[p].at = "writers"
    BY <2>3, <1>1, <1>3, StatsFacts, PublisherMoves DEF PublisherAt
  <2>4. QED
    BY <1>4, <2>1, <2>2, <2>3
<1>6. ReadersRight'
  <2>1. \A e \in Epochs : Home(e)' <=> Home(e)
    BY <1>2 DEF Home
  <2>2. ~Reading(p)' /\ publisher'[p].at # "epoch"
    BY <1>5 DEF PublisherBecomes, Reading, ReadingAt
  <2>3. \A r \in SlotNumbers :
          stats'[r].books \in Books /\ AtMost(stats[r].books, stats'[r].books)
    BY <1>2, StatsFacts, SlotIsARecord, AtMostIsAnOrder
  <2>4. QED
    BY <1>2, <1>5, <2>1, <2>2, <2>3, ReadersStay DEF PublisherBecomes
<1>7. QED
  BY <1>1, <1>2, <1>3, <1>5, <1>6, LookingKeeps
     DEF PublisherBecomes, LookingAt, PublishingAt, PastWriters, Reading, ReadingAt

LEMMA NextPassKeeps == StatsIInv /\ NextPass => StatsIInv'
<1> SUFFICES ASSUME StatsIInv, NextPass PROVE StatsIInv'
  OBVIOUS
<1>1. PICK p \in Publishers : p = "timer"
  BY DEF Publishers
<1>2. PICK t \in SlotNumbers : t = publisher[p].slot
  BY StatsFacts, PublisherIsARecord
<1>3. UNCHANGED <<stats, policyEpoch, active, loopAt, looping, closed, observed, worker,
                  finished, runs, mainAt, reported, crowded>>
  BY DEF NextPass, loopVars, workerVars
<1>4. publisher[p].at = "done" /\ publisher' = [publisher EXCEPT ![p] = Pass]
  BY <1>1 DEF NextPass
<1>5. /\ Pass \in PublisherRecord
      /\ Pass.at = "ended" /\ Pass.epoch = 0 /\ Pass.read = NoRuns
  BY SlotsHaveNumbers, NothingAdded DEF Pass, PublisherRecord
<1>6. /\ publisher' \in [Publishers -> PublisherRecord]
      /\ publisher'[p].at = "ended" /\ publisher'[p].epoch = 0 /\ publisher'[p].read = NoRuns
      /\ \A q \in Publishers \ {p} : publisher'[q] = publisher[q]
  BY <1>4, <1>5, StatsFacts
<1>7. ReadersRight'
  <2>1. \A e \in Epochs : Home(e)' <=> Home(e)
    BY <1>3 DEF Home
  <2>2. \A r \in SlotNumbers :
          stats'[r].books \in Books /\ AtMost(stats[r].books, stats'[r].books)
    BY <1>3, StatsFacts, SlotIsARecord, AtMostIsAnOrder
  <2>3. QED
    BY <1>3, <1>6, <2>1, <2>2, ReadersStay DEF Reading, ReadingAt
<1>8. QED
  BY <1>2, <1>3, <1>4, <1>6, <1>7, LookingKeeps
     DEF LookingAt, PublishingAt, PastWriters, Reading, ReadingAt

\* The epoch is that of a visit that has ended, or nobody can tell.
LEMMA ReadEpochKeeps ==
  ASSUME StatsIInv, NEW p \in Publishers, ReadEpoch(p)
  PROVE  StatsIInv'
<1>1. PICK t \in SlotNumbers : t = publisher[p].slot
  BY StatsFacts, PublisherIsARecord
<1>2. UNCHANGED <<stats, policyEpoch, active, loopAt, looping, closed, observed, worker,
                  finished, runs, mainAt, reported, crowded>>
  BY DEF ReadEpoch, loopVars, workerVars
<1>3. /\ publisher[p].at = "epoch" /\ ~Reading(p)
      /\ publisher[p].epoch = 0 /\ publisher[p].read = NoRuns
  BY DEF StatsIInv, Threads, ReadEpoch, May, Reading, ReadingAt
<1>4. /\ publisher' \in [Publishers -> PublisherRecord]
      /\ IF stats[t].epoch # 0 THEN PublisherBecomes(p, "total", t, stats[t].epoch, NoRuns)
         ELSE \E at \in {"ended", "done"}, slot \in SlotNumbers :
                PublisherBecomes(p, at, slot, 0, NoRuns)
  <2>1. CASE stats[t].epoch # 0
    <3>1. publisher' = [publisher EXCEPT ![p] = [publisher[p] EXCEPT !.at = "total", !.epoch = stats[t].epoch]]
      BY <1>1, <2>1, StatsFacts DEF ReadEpoch
    <3>2. PICK e \in 0..MaxEpoch : e = stats[t].epoch
      BY StatsFacts, SlotIsARecord
    <3>3. publisher[p] \in PublisherRecord
      BY StatsFacts
    <3> DEFINE r == [publisher[p] EXCEPT !.at = "total", !.epoch = e]
    <3>4. /\ r \in PublisherRecord
          /\ r.at = "total" /\ r.slot = t /\ r.epoch = e /\ r.read = NoRuns
      BY <1>1, <1>3, <3>3 DEF PublisherRecord
    <3>5. publisher' = [publisher EXCEPT ![p] = r]
      BY <3>1, <3>2
    <3> HIDE DEF r
    <3>6. QED
      BY <2>1, <3>2, <3>4, <3>5, StatsFacts DEF PublisherBecomes
  <2>2. CASE stats[t].epoch = 0
    <3>1. NextSlot(p)
      BY <1>1, <2>2 DEF ReadEpoch
    <3>2. QED
      BY <3>1, <2>2, StatsFacts, PublisherGoesOn
  <2>3. QED
    BY <2>1, <2>2
<1>5. ReadersRight'
  <2>1. \A e \in Epochs : Home(e)' <=> Home(e)
    BY <1>2 DEF Home
  <2>2. CASE stats[t].epoch = 0
    <3>1. ~Reading(p)' /\ publisher'[p].at # "epoch"
      BY <1>4, <2>2 DEF PublisherBecomes, Reading, ReadingAt
    <3>2. \A r \in SlotNumbers :
            stats'[r].books \in Books /\ AtMost(stats[r].books, stats'[r].books)
      BY <1>2, StatsFacts, SlotIsARecord, AtMostIsAnOrder
    <3>3. QED
      BY <1>2, <1>4, <2>1, <2>2, <3>1, <3>2, ReadersStay DEF PublisherBecomes
  <2>3. CASE stats[t].epoch # 0
    <3>1. PublisherBecomes(p, "total", t, stats[t].epoch, NoRuns)
      BY <1>4, <2>3
    <3>2. ASSUME NEW e \in Epochs \ crowded, stats[t].epoch = e
          PROVE  /\ Home(e) /\ Slot(e) = t /\ closed[e] # {}
                 /\ AtMost(NoRuns, stats[Slot(e)].books)
      <4>1. Slot(e) = t
        BY <2>3, <3>2 DEF StatsIInv, Threads
      <4>2. closed[e] # {}
        BY <1>1, <1>3, <3>2, StatsFacts DEF ReadersRight
      <4>3. QED
        BY <3>2, <4>1, <4>2, StatsFacts, SlotIsARecord, AtMostIsAnOrder DEF Home
    <3> SUFFICES ASSUME NEW q \in Publishers, NEW e \in Epochs \ crowded
                 PROVE
        /\ Reading(q)' /\ publisher'[q].epoch = e =>
             /\ Home(e) /\ On(q, Slot(e))' /\ closed[e] # {}
             /\ AtMost(publisher'[q].read, stats[Slot(e)].books)
             /\ \A atEnd \in closed[e] :
                  /\ publisher'[q].at # "total" => atEnd.total <= publisher'[q].read.total
                  /\ publisher'[q].at \in {"failures", "report"}
                       => atEnd.samples <= publisher'[q].read.samples
                  /\ publisher'[q].at = "report" => atEnd.failures <= publisher'[q].read.failures
        /\ publisher'[q].at = "epoch" /\ stats[publisher'[q].slot].epoch = e => closed[e] # {}
      BY <1>2, <2>1 DEF ReadersRight, AtMost
    <3>3. CASE q = p
      BY <3>1, <3>2, <3>3 DEF PublisherBecomes, On
    <3>4. CASE q # p
      BY <3>1, <3>4, StatsFacts DEF PublisherBecomes, ReadersRight, Reading, On
    <3>5. QED
      BY <3>3, <3>4
  <2>4. QED
    BY <2>2, <2>3
<1>6. QED
  BY <1>1, <1>2, <1>3, <1>4, <1>5, LookingKeeps
     DEF PublisherBecomes, LookingAt, PublishingAt, PastWriters, Reading, ReadingAt

\* The three loads: no number read is less than what was admitted before the end.
LEMMA LoadOfANumber ==
  ASSUME NEW read \in Books, NEW x \in Nat
  PROVE  /\ LET r == [read EXCEPT !["total"] = x]
            IN  r \in Books /\ r.total = x /\ r.samples = read.samples /\ r.failures = read.failures
         /\ LET r == [read EXCEPT !["samples"] = x]
            IN  r \in Books /\ r.total = read.total /\ r.samples = x /\ r.failures = read.failures
         /\ LET r == [read EXCEPT !["failures"] = x]
            IN  r \in Books /\ r.total = read.total /\ r.samples = read.samples /\ r.failures = x
  BY DEF Books

LEMMA ReadKeeps ==
  ASSUME StatsIInv, NEW p \in Publishers,
         Read(p, "total", "samples") \/ Read(p, "samples", "failures") \/ Read(p, "failures", "report")
  PROVE  StatsIInv'
<1>1. PICK t \in SlotNumbers : t = publisher[p].slot
  BY StatsFacts, PublisherIsARecord
<1>2. UNCHANGED <<stats, policyEpoch, active, loopAt, looping, closed, observed, worker,
                  finished, runs, mainAt, reported, crowded>>
  BY DEF Read, loopVars, workerVars
<1>3. PICK books \in Books : books = stats[t].books
  BY StatsFacts, SlotIsARecord
<1>4. books.total \in Nat /\ books.samples \in Nat /\ books.failures \in Nat
  BY DEF Books
<1>5. /\ Reading(p) /\ publisher[p].at \in ReadingAt /\ publisher[p].epoch \in Epochs
      /\ publisher[p] \in PublisherRecord /\ publisher[p].read \in Books
  BY StatsFacts, PublisherIsARecord DEF StatsIInv, Threads, Read, May, Reading, ReadingAt
<1> DEFINE old == publisher[p].read
<1>6. PICK r \in Books, after \in ReadingAt :
        /\ publisher' = [publisher EXCEPT ![p] = [publisher[p] EXCEPT !.at = after, !.read = r]]
        /\ \/ /\ publisher[p].at = "total" /\ after = "samples"
              /\ r.total = books.total /\ r.samples = old.samples /\ r.failures = old.failures
           \/ /\ publisher[p].at = "samples" /\ after = "failures"
              /\ r.total = old.total /\ r.samples = books.samples /\ r.failures = old.failures
           \/ /\ publisher[p].at = "failures" /\ after = "report"
              /\ r.total = old.total /\ r.samples = old.samples /\ r.failures = books.failures
  <2>1. CASE Read(p, "total", "samples")
    <3>1. publisher[p].at = "total" /\ books["total"] = books.total
      BY <2>1 DEF Read, May
    <3>2. publisher' = [publisher EXCEPT ![p].at = "samples",
                          ![p].read["total"] = stats[publisher[p].slot].books["total"]]
      BY <2>1 DEF Read
    <3>3. publisher' = [publisher EXCEPT ![p].at = "samples", ![p].read["total"] = books.total]
      BY <1>1, <1>3, <3>1, <3>2
    <3>4. publisher' = [publisher EXCEPT ![p] = [publisher[p] EXCEPT !.at = "samples", !.read["total"] = books.total]]
      BY <3>3
    <3>5. [publisher[p] EXCEPT !.at = "samples", !.read["total"] = books.total]
            = [publisher[p] EXCEPT !.at = "samples", !.read = [old EXCEPT !["total"] = books.total]]
      OBVIOUS
    <3>6. PICK r \in Books :
            /\ r = [old EXCEPT !["total"] = books.total] /\ r.total = books.total
            /\ r.samples = old.samples
            /\ r.failures = old.failures
      BY <1>4, <1>5, LoadOfANumber
    <3>7. "samples" \in ReadingAt
      BY DEF ReadingAt
    <3>8. publisher' = [publisher EXCEPT ![p] = [publisher[p] EXCEPT !.at = "samples", !.read = r]]
      BY <3>4, <3>5, <3>6
    <3>9. QED
      BY <3>1, <3>6, <3>7, <3>8
  <2>2. CASE Read(p, "samples", "failures")
    <3>1. publisher[p].at = "samples" /\ books["samples"] = books.samples
      BY <2>2 DEF Read, May
    <3>2. publisher' = [publisher EXCEPT ![p].at = "failures",
                          ![p].read["samples"] = stats[publisher[p].slot].books["samples"]]
      BY <2>2 DEF Read
    <3>3. publisher' = [publisher EXCEPT ![p].at = "failures", ![p].read["samples"] = books.samples]
      BY <1>1, <1>3, <3>1, <3>2
    <3>4. publisher' = [publisher EXCEPT ![p] = [publisher[p] EXCEPT !.at = "failures", !.read["samples"] = books.samples]]
      BY <3>3
    <3>5. [publisher[p] EXCEPT !.at = "failures", !.read["samples"] = books.samples]
            = [publisher[p] EXCEPT !.at = "failures", !.read = [old EXCEPT !["samples"] = books.samples]]
      OBVIOUS
    <3>6. PICK r \in Books :
            /\ r = [old EXCEPT !["samples"] = books.samples] /\ r.samples = books.samples
            /\ r.total = old.total
            /\ r.failures = old.failures
      BY <1>4, <1>5, LoadOfANumber
    <3>7. "failures" \in ReadingAt
      BY DEF ReadingAt
    <3>8. publisher' = [publisher EXCEPT ![p] = [publisher[p] EXCEPT !.at = "failures", !.read = r]]
      BY <3>4, <3>5, <3>6
    <3>9. QED
      BY <3>1, <3>6, <3>7, <3>8
  <2>3. CASE Read(p, "failures", "report")
    <3>1. publisher[p].at = "failures" /\ books["failures"] = books.failures
      BY <2>3 DEF Read, May
    <3>2. publisher' = [publisher EXCEPT ![p].at = "report",
                          ![p].read["failures"] = stats[publisher[p].slot].books["failures"]]
      BY <2>3 DEF Read
    <3>3. publisher' = [publisher EXCEPT ![p].at = "report", ![p].read["failures"] = books.failures]
      BY <1>1, <1>3, <3>1, <3>2
    <3>4. publisher' = [publisher EXCEPT ![p] = [publisher[p] EXCEPT !.at = "report", !.read["failures"] = books.failures]]
      BY <3>3
    <3>5. [publisher[p] EXCEPT !.at = "report", !.read["failures"] = books.failures]
            = [publisher[p] EXCEPT !.at = "report", !.read = [old EXCEPT !["failures"] = books.failures]]
      OBVIOUS
    <3>6. PICK r \in Books :
            /\ r = [old EXCEPT !["failures"] = books.failures] /\ r.failures = books.failures
            /\ r.total = old.total
            /\ r.samples = old.samples
      BY <1>4, <1>5, LoadOfANumber
    <3>7. "report" \in ReadingAt
      BY DEF ReadingAt
    <3>8. publisher' = [publisher EXCEPT ![p] = [publisher[p] EXCEPT !.at = "report", !.read = r]]
      BY <3>4, <3>5, <3>6
    <3>9. QED
      BY <3>1, <3>6, <3>7, <3>8
  <2>4. QED
    BY <2>1, <2>2, <2>3
<1>7. LET new == [publisher[p] EXCEPT !.at = after, !.read = r]
      IN  /\ new \in PublisherRecord /\ new.at = after /\ new.read = r
          /\ new.slot = publisher[p].slot /\ new.epoch = publisher[p].epoch
  BY <1>5 DEF PublisherRecord, ReadingAt
<1>8. /\ PublisherBecomes(p, after, t, publisher[p].epoch, r)
      /\ publisher' \in [Publishers -> PublisherRecord]
  BY <1>1, <1>6, <1>7, StatsFacts DEF PublisherBecomes
<1>9. \A e \in Epochs : Home(e)' <=> Home(e)
  BY <1>2 DEF Home
<1>10. ReadersRight'
  <2> SUFFICES ASSUME NEW q \in Publishers, NEW e \in Epochs \ crowded
               PROVE
      /\ Reading(q)' /\ publisher'[q].epoch = e =>
           /\ Home(e) /\ On(q, Slot(e))' /\ closed[e] # {}
           /\ AtMost(publisher'[q].read, stats[Slot(e)].books)
           /\ \A atEnd \in closed[e] :
                /\ publisher'[q].at # "total" => atEnd.total <= publisher'[q].read.total
                /\ publisher'[q].at \in {"failures", "report"}
                     => atEnd.samples <= publisher'[q].read.samples
                /\ publisher'[q].at = "report" => atEnd.failures <= publisher'[q].read.failures
      /\ publisher'[q].at = "epoch" /\ stats[publisher'[q].slot].epoch = e => closed[e] # {}
    BY <1>2, <1>9 DEF ReadersRight, AtMost
  <2>1. CASE q # p
    BY <1>8, <2>1, StatsFacts DEF PublisherBecomes, ReadersRight, Reading, On
  <2>2. CASE q = p
    <3>1. ASSUME publisher'[p].epoch = e
          PROVE  /\ Home(e) /\ t = Slot(e) /\ closed[e] # {}
                 /\ AtMost(r, books)
                 /\ \A atEnd \in closed[e] :
                      /\ after # "total" => atEnd.total <= r.total
                      /\ after \in {"failures", "report"} => atEnd.samples <= r.samples
                      /\ after = "report" => atEnd.failures <= r.failures
      <4>1. publisher[p].epoch = e
        BY <1>8, <3>1 DEF PublisherBecomes
      <4>2. /\ Home(e) /\ t = Slot(e) /\ closed[e] # {} /\ AtMost(old, books)
            /\ \A atEnd \in closed[e] :
                 /\ publisher[p].at # "total" => atEnd.total <= old.total
                 /\ publisher[p].at \in {"failures", "report"} => atEnd.samples <= old.samples
                 /\ publisher[p].at = "report" => atEnd.failures <= old.failures
        BY <1>1, <1>3, <1>5, <4>1, StatsFacts DEF ReadersRight, On
      <4>3. AtMost(finished[e], books)
        <5>1. /\ finished[e].total \in Nat /\ finished[e].samples \in Nat
              /\ finished[e].failures \in Nat
          BY StatsFacts DEF Books
        <5>2. QED
          BY <1>3, <4>2, <5>1, StatsFacts, AtMostByNumber DEF BooksKept, One
      <4>4. ASSUME NEW atEnd \in closed[e]
            PROVE  /\ atEnd.total <= books.total /\ atEnd.samples <= books.samples
                   /\ atEnd.failures <= books.failures
        <5>1. AtMost(atEnd, finished[e]) /\ atEnd \in Books /\ finished[e] \in Books
          BY <1>1, <1>5, <4>2, StatsFacts DEF AdmittedAdded, On, PublishingAt
        <5>2. QED
          BY <4>3, <5>1, AtMostIsAnOrder, AtMostByNumber
      <4>5. /\ old.total <= books.total /\ old.samples <= books.samples
            /\ old.failures <= books.failures
        BY <4>2, AtMostByNumber
      <4>6. AtMost(r, books)
        BY <1>4, <1>6, <4>5, AtMostByNumber
      <4>7. QED
        BY <1>6, <4>2, <4>4, <4>6
    <3>2. publisher'[p].at = after /\ publisher'[p].slot = t /\ publisher'[p].read = r
      BY <1>8 DEF PublisherBecomes
    <3>3. QED
      BY <1>3, <2>2, <3>1, <3>2 DEF On, ReadingAt
  <2>3. QED
    BY <2>1, <2>2
<1>11. QED
  <2>1. /\ publisher'[p].at \in ReadingAt /\ Reading(p)' /\ publisher'[p].slot = t
        /\ publisher'[p].epoch = publisher[p].epoch /\ publisher'[p].epoch # 0
    BY <1>5, <1>8, SlotsHaveNumbers DEF PublisherBecomes, Reading
  <2>2. publisher[p].at \in LookingAt /\ publisher[p].at \in PublishingAt
        /\ publisher[p].at \in PastWriters /\ publisher'[p].at \in PublishingAt
    BY <1>5, <2>1 DEF LookingAt, PublishingAt, PastWriters
  <2>3. QED
    BY <1>1, <1>2, <1>5, <1>8, <1>10, <2>1, <2>2, LookingKeeps DEF PublisherBecomes

\* The summary is out, and the slot is free: no other publisher is at this visit.
LEMMA ReportKeeps ==
  ASSUME StatsIInv, NEW p \in Publishers, Report(p)
  PROVE  StatsIInv'
<1>1. PICK t \in SlotNumbers : t = publisher[p].slot
  BY StatsFacts, PublisherIsARecord
<1>2. UNCHANGED <<policyEpoch, active, loopAt, looping, closed, observed, worker, finished,
                  runs, mainAt, crowded>>
  BY DEF Report, loopVars, workerVars
<1>3. PICK n \in Epochs : /\ publisher[p].epoch = n /\ publisher[p].at = "report" /\ Reading(p)
                          /\ reported' = reported \cup {n}
  BY DEF StatsIInv, Threads, Report, May, Reading, ReadingAt
<1>4. /\ stats' \in [SlotNumbers -> SlotRecord]
      /\ SlotBecomes(t, stats[t].ended, stats[t].writers, 0, stats[t].books)
  <2>1. stats' = [stats EXCEPT ![t].epoch = 0] /\ 0 \in 0..MaxEpoch
    BY <1>1, SlotsHaveNumbers DEF Report
  <2>2. QED
    BY <2>1, StatsFacts, StoreEpochWord
<1>5. /\ publisher' \in [Publishers -> PublisherRecord]
      /\ \E at \in {"ended", "done"}, slot \in SlotNumbers :
           PublisherBecomes(p, at, slot, 0, NoRuns)
  BY StatsFacts, PublisherGoesOn DEF Report
<1>6. Types'
  BY <1>2, <1>3, <1>4, <1>5 DEF StatsIInv, Types
<1>7. Threads'
  BY <1>2, <1>4, <1>5 DEF StatsIInv, Threads, SlotBecomes, PublisherBecomes, Reading, ReadingAt
<1>8. \A r \in SlotNumbers :
        /\ stats'[r].ended = stats[r].ended /\ stats'[r].writers = stats[r].writers
        /\ stats'[r].books = stats[r].books
        /\ stats'[r].epoch = IF r = t THEN 0 ELSE stats[r].epoch
  BY <1>4 DEF SlotBecomes
<1>9. /\ \A q \in Publishers \ {p} : publisher'[q] = publisher[q]
      /\ publisher'[p].epoch = 0 /\ ~Reading(p)' /\ publisher'[p].at \notin LookingAt
  BY <1>5 DEF PublisherBecomes, Reading, ReadingAt, LookingAt, PublishingAt
<1>10. FreshEpochs'
  BY <1>2, <1>3, <1>8, <1>9, StatsFacts DEF FreshEpochs, Fresh
<1>11. \A e \in Epochs : Home(e)' <=> Home(e) /\ Slot(e) # t
  BY <1>2, <1>8, StatsFacts DEF Home
<1>12. Publishing(t) /\ On(p, t) /\ publisher[p].at \in PublishingAt
  BY <1>1, <1>3 DEF Publishing, On, PublishingAt, ReadingAt
<1>13. PublishedOnce'
  <2>1. ASSUME NEW r \in SlotNumbers
        PROVE  /\ Looking(r)' => Looking(r)
               /\ Publishing(r)' => Publishing(r)
               /\ r # t => (Publishing(r) => Publishing(r)')
    BY <1>1, <1>9 DEF Looking, Publishing, LookingAt, PublishingAt, ReadingAt
  <2> SUFFICES ASSUME NEW e \in Epochs, Home(e), NEW r \in SlotNumbers, r = Slot(e), r # t
               PROVE
      /\ closed[e] = {} => ~stats'[r].ended /\ ~Looking(r)'
      /\ stats'[r].ended => ~Publishing(r)'
      /\ closed[e] # {} => stats'[r].ended \/ Publishing(r)'
      /\ e \notin reported'
      /\ \A q, u \in Publishers :
           On(q, r)' /\ publisher'[q].at \in PublishingAt
             /\ On(u, r)' /\ publisher'[u].at \in PublishingAt => q = u
      /\ \A q \in Publishers : On(q, r)' /\ Reading(q)' => publisher'[q].epoch = e
    BY <1>2, <1>11, StatsFacts DEF PublishedOnce
  <2>2. /\ closed[e] = {} => ~stats[r].ended /\ ~Looking(r)
        /\ stats[r].ended => ~Publishing(r)
        /\ closed[e] # {} => stats[r].ended \/ Publishing(r)
        /\ e \notin reported
        /\ \A q, u \in Publishers :
             On(q, r) /\ publisher[q].at \in PublishingAt
               /\ On(u, r) /\ publisher[u].at \in PublishingAt => q = u
        /\ \A q \in Publishers : On(q, r) /\ Reading(q) => publisher[q].epoch = e
    BY StatsFacts DEF PublishedOnce
  <2>3. e # n
    BY <1>1, <1>3, StatsFacts DEF ReadersRight, On, Home
  <2>4. \A q \in Publishers :
          On(q, r)' /\ publisher'[q].at \in PublishingAt
            => On(q, r) /\ publisher[q].at \in PublishingAt /\ publisher'[q] = publisher[q]
    BY <1>9 DEF On, LookingAt
  <2>5. \A q \in Publishers : On(q, r)' /\ Reading(q)' => publisher'[q].epoch = e
    BY <2>2, <2>4, <1>9 DEF On, Reading
  <2>6. QED
    BY <1>3, <1>8, <2>1, <2>2, <2>3, <2>4, <2>5
<1>14. BooksKept'
  BY <1>2, <1>8, <1>11, StatsFacts DEF BooksKept, Writing
<1>15. AdmittedAdded'
  <2>1. \A e \in Epochs : Admitted(e)' = Admitted(e)
    BY <1>2 DEF Admitted
  <2>2. \A e \in Epochs : Admitted(e) \in Books /\ AtMost(Admitted(e), Admitted(e))
                          /\ finished[e] \in Books /\ AtMost(finished[e], finished[e])
    BY StatsFacts, AdmittedIs, AtMostIsAnOrder
  <2>3. \A q \in Publishers : publisher'[q].at \in PastWriters =>
          publisher[q].at \in PastWriters /\ publisher'[q].slot = publisher[q].slot
    BY <1>9 DEF PastWriters, LookingAt
  <2>4. QED
    BY <1>2, <1>11, <2>1, <2>2, <2>3, AdmittedStays
<1>16. ReadersRight'
  <2>1. ASSUME NEW q \in Publishers, NEW e \in Epochs \ crowded, q # p,
               Reading(q), publisher[q].epoch = e, Home(e)
        PROVE  Home(e)'
    <3>1. On(q, Slot(e)) /\ publisher[q].at \in PublishingAt
      BY <2>1, StatsFacts DEF ReadersRight, Reading, PublishingAt
    <3>2. Slot(e) # t
      BY <2>1, <3>1, <1>12, StatsFacts DEF PublishedOnce
    <3>3. QED
      BY <2>1, <3>2, <1>11
  <2>2. \A r \in SlotNumbers :
          /\ stats'[r].epoch \in {stats[r].epoch, 0}
          /\ stats'[r].books \in Books /\ AtMost(stats[r].books, stats'[r].books)
    BY <1>8, StatsFacts, SlotIsARecord, AtMostIsAnOrder
  <2>3. publisher'[p].at # "epoch"
    BY <1>9 DEF LookingAt, PublishingAt
  <2>4. \A q \in Publishers : \A e \in Epochs \ crowded' :
          Reading(q)' /\ publisher'[q].epoch = e /\ Home(e) => Home(e)'
    BY <1>2, <1>9, <2>1 DEF Reading
  <2>5. QED
    BY <1>2, <1>9, <2>2, <2>3, <2>4, ReadersStay
<1>17. EndedVisits'
  BY <1>2, <1>8, StatsFacts DEF EndedVisits
<1>18. Reopened'
  <2>1. PICK s \in SlotNumbers : s = Slot(policyEpoch)
    BY StatsFacts
  <2>2. Looking(s)' => Looking(s)
    BY <1>9 DEF Looking, Publishing, LookingAt, PublishingAt, ReadingAt
  <2>3. Writing(s)' => Writing(s)
    BY <1>2 DEF Writing
  <2>4. QED
    BY <1>2, <1>8, <2>1, <2>2, <2>3, ReopenedStays
<1>19. Ends'
  BY <1>2, <1>8, StatsFacts DEF Ends
<1>20. QED
  BY <1>6, <1>7, <1>10, <1>13, <1>14, <1>15, <1>16, <1>17, <1>18, <1>19 DEF StatsIInv, Visits

-----------------------------------------------------------------------------
(* The inference thread keeps it. *)

\* A step of the inference thread: it may crowd the slot that is being cleared, it adds and
\* takes nothing back.
LEMMA WorkerKeeps ==
  ASSUME StatsIInv,
         UNCHANGED <<policyEpoch, active, loopAt, looping, closed, publisher, mainAt, reported>>,
         stats' \in [SlotNumbers -> SlotRecord], worker' \in WorkerRecord, runs' \in 0..MaxRuns,
         finished' \in [Epochs -> Books], observed' \subseteq observed,
         crowded' \in {crowded, crowded \cup {policyEpoch}},
         \A s \in SlotNumbers :
           /\ stats'[s].ended = stats[s].ended /\ stats'[s].epoch = stats[s].epoch
           /\ AtMost(stats[s].books, stats'[s].books),
         worker'.at = "idle" => worker'.epoch = 0 /\ ~worker'.counts,
         worker'.at # "idle" => worker'.epoch \in Epochs,
         worker'.counts => worker'.at \in {"failures", "leave"},
         worker'.at = "failures" => worker'.counts /\ worker'.failed,
         \A e \in Epochs : Fresh(e) => worker'.epoch # e /\ finished'[e] = finished[e],
         \A e \in Epochs : AtMost(Admitted(e), Admitted(e)') /\ AtMost(finished[e], finished'[e]),
         BooksKept',
         NEW s \in SlotNumbers, s = Slot(policyEpoch),
         loopAt \in Reopening /\ policyEpoch \notin crowded' /\ ~Writing(s)
           => ~Writing(s)' /\ stats'[s].books = stats[s].books /\ stats'[s].writers = stats[s].writers
  PROVE  StatsIInv'
<1>1. Types'
  BY StatsFacts DEF StatsIInv, Types
<1>2. Threads'
  <2>1. \A p \in Publishers : Reading(p)' <=> Reading(p)
    BY DEF Reading
  <2>2. \A p \in Publishers : IF Reading(p)' THEN publisher'[p].epoch \in Epochs
                              ELSE publisher'[p].epoch = 0 /\ publisher'[p].read = NoRuns
    BY <2>1 DEF StatsIInv, Threads
  <2>3. \A t \in SlotNumbers : stats'[t].epoch # 0 => Slot(stats'[t].epoch) = t
    BY DEF StatsIInv, Threads
  <2>4. /\ loopAt \in {"end", "leave"} => policyEpoch < MaxEpoch
        /\ loopAt # "idle" \/ active # NONE => policyEpoch \in Epochs
    BY DEF StatsIInv, Threads
  <2>5. QED
    BY <2>2, <2>3, <2>4 DEF Threads
<1>3. crowded \subseteq crowded'
  OBVIOUS
<1>4. \A e \in Epochs : /\ Home(e)' => Home(e)
                        /\ Home(e) /\ e \notin crowded' => Home(e)'
  BY <1>3, StatsFacts, HomeLasts
<1>5. FreshEpochs'
  BY StatsFacts DEF FreshEpochs, Fresh
<1>6. PublishedOnce'
  <2>1. \A r \in SlotNumbers : (Looking(r)' <=> Looking(r)) /\ (Publishing(r)' <=> Publishing(r))
    BY DEF Looking, Publishing
  <2>2. QED
    BY <1>4, <2>1, StatsFacts DEF PublishedOnce, On, Reading
<1>7. AdmittedAdded'
  <2>1. \A e \in Epochs : Admitted(e)' \in Books
    <3>1. worker'.failed \in BOOLEAN
      BY DEF WorkerRecord
    <3>2. QED
      BY <3>1, OneMore DEF Admitted
  <2>2. QED
    BY <1>4, <2>1, AdmittedStays
<1>8. ReadersRight'
  <2>1. \A r \in SlotNumbers : stats'[r].books \in Books
    BY DEF SlotRecord
  <2>2. \A q \in Publishers : \A e \in Epochs \ crowded' :
          Reading(q)' /\ publisher'[q].epoch = e /\ Home(e) => Home(e)'
    BY <1>4
  <2>3. QED
    BY <1>3, <2>1, <2>2, ReadersStay
<1>9. EndedVisits'
  BY <1>3, StatsFacts DEF EndedVisits
<1>10. Reopened'
  <2>1. Looking(s)' => Looking(s)
    BY DEF Looking, Publishing
  <2>2. QED
    BY <1>3, <2>1, ReopenedStays
<1>11. Ends'
  BY StatsFacts DEF Ends
<1>12. QED
  BY <1>1, <1>2, <1>5, <1>6, <1>7, <1>8, <1>9, <1>10, <1>11 DEF StatsIInv, Visits

\* What the steps of the inference thread make of its words.
LEMMA WorkerMoves ==
  ASSUME worker \in WorkerRecord, NEW at \in WorkerAt, NEW counts \in BOOLEAN,
         worker' = [worker EXCEPT !.at = at, !.counts = counts]
  PROVE  /\ worker' \in WorkerRecord /\ worker'.at = at /\ worker'.epoch = worker.epoch
         /\ worker'.failed = worker.failed /\ worker'.counts = counts
  BY DEF WorkerRecord, WorkerAt

LEMMA WorkerGoesOn ==
  ASSUME worker \in WorkerRecord, NEW at \in WorkerAt, WorkerGoes(at)
  PROVE  /\ worker' \in WorkerRecord /\ worker'.at = at /\ worker'.epoch = worker.epoch
         /\ worker'.failed = worker.failed /\ worker'.counts = worker.counts
  BY DEF WorkerRecord, WorkerAt, WorkerGoes

\* A run added is not less.
LEMMA PlusIsMore ==
  ASSUME NEW books \in Books, NEW failed \in BOOLEAN
  PROVE  AtMost(books, Plus(books, failed)) /\ AtMost(books, books) /\ Plus(books, failed) \in Books
<1>1. books.total \in Nat /\ books.samples \in Nat /\ books.failures \in Nat
  BY DEF Books
<1>2. AtMost(books, Plus(books, failed))
  BY <1>1, OneMore, AtMostByNumber
<1>3. QED
  BY <1>2, OneMore, AtMostIsAnOrder

\* The gate lets an observation of the epoch through; no slot knows of it yet.
LEMMA StartRunKeeps == StatsIInv /\ StartRun => StatsIInv'
<1> SUFFICES ASSUME StatsIInv, StartRun PROVE StatsIInv'
  OBVIOUS
<1>1. /\ worker.at = "idle" /\ worker.epoch = 0 /\ ~worker.counts
      /\ observed' = {} /\ runs' = runs + 1 /\ runs < MaxRuns
      /\ UNCHANGED <<stats, policyEpoch, active, loopAt, looping, closed, publisher, mainAt,
                     reported, finished, crowded>>
  BY DEF StartRun, StatsIInv, Threads, loopVars, publisherVars
<1>2. PICK o \in observed : worker' = [Idle EXCEPT !.at = "run", !.policy = o.policy, !.epoch = o.epoch]
  BY DEF StartRun
<1>3. o \in [policy: Motions, epoch: Epochs]
  BY DEF StatsIInv, Types
<1>4. /\ worker' \in WorkerRecord /\ worker'.at = "run" /\ worker'.epoch = o.epoch
      /\ o.epoch \in Epochs /\ ~worker'.counts
  BY <1>2, <1>3, SlotsHaveNumbers DEF Idle, WorkerRecord
<1>5. runs' \in 0..MaxRuns
  <2>1. runs \in 0..MaxRuns
    BY DEF StatsIInv, Types
  <2>2. QED
    BY <1>1, <2>1, StatsAssumption
<1>6. \A e \in Epochs : Fresh(e) => worker'.epoch # e
  BY <1>4, StatsFacts DEF FreshEpochs
<1>7. \A e \in Epochs : Admitted(e)' = finished[e] /\ Admitted(e) = finished[e]
                        /\ AtMost(finished[e], finished[e])
  BY <1>1, <1>4, StatsFacts, PlusIsMore DEF Admitted
<1>8. \A s \in SlotNumbers : AtMost(stats[s].books, stats[s].books) /\ ~Writing(s) /\ ~Writing(s)'
  BY <1>1, <1>4, StatsFacts, SlotIsARecord, AtMostIsAnOrder DEF Writing
<1>9. BooksKept'
  <2>1. \A e \in Epochs : Home(e)' => Home(e)
    BY <1>1 DEF Home
  <2>2. QED
    BY <1>1, <1>4, <1>8, <2>1, StatsFacts DEF BooksKept, One
<1>10. stats' \in [SlotNumbers -> SlotRecord] /\ finished' \in [Epochs -> Books]
  BY <1>1 DEF StatsIInv, Types
<1>11. QED
  BY <1>1, <1>4, <1>5, <1>6, <1>7, <1>8, <1>9, <1>10, StatsFacts, WorkerKeeps

\* The writer is counted before it looks at the slot, and crowds one that is being cleared.
LEMMA EnterSlotKeeps ==
  ASSUME StatsIInv, NEW failed \in BOOLEAN, EnterSlot(failed)
  PROVE  StatsIInv'
<1>1. /\ worker.at = "run" /\ worker.epoch \in Epochs /\ ~worker.counts
      /\ UNCHANGED <<policyEpoch, active, loopAt, looping, closed, publisher, mainAt,
                     reported, finished, observed, runs>>
  BY DEF EnterSlot, StatsIInv, Threads, loopVars, publisherVars
<1>2. PICK w \in SlotNumbers : w = Slot(worker.epoch)
  BY StatsFacts
<1>3. /\ worker' \in WorkerRecord /\ worker'.at = "visit" /\ worker'.epoch = worker.epoch
      /\ ~worker'.counts
  BY <1>1 DEF EnterSlot, StatsIInv, Types, WorkerRecord
<1>4. stats[w].writers \in 0..Width - 1 /\ (stats[w].writers + 1) % Width \in 0..Width - 1
      /\ (stats[w].writers = 0 => (stats[w].writers + 1) % Width = 1)
  <2>1. stats[w].writers \in 0..Width - 1
    BY StatsFacts, SlotIsARecord
  <2>2. \A n \in 0..Width - 1 : (n + 1) % Width \in 0..Width - 1
    BY StatsAssumption
  <2>3. 1 % Width = 1
    BY StatsAssumption
  <2>4. QED
    BY <2>1, <2>2, <2>3
<1>5. /\ stats' \in [SlotNumbers -> SlotRecord]
      /\ SlotBecomes(w, stats[w].ended, (stats[w].writers + 1) % Width, stats[w].epoch, stats[w].books)
  <2>1. PICK x \in 0..Width - 1 : x = (stats[w].writers + 1) % Width
    BY <1>4
  <2>2. stats' = [stats EXCEPT ![w].writers = x]
    BY <1>2, <2>1 DEF EnterSlot
  <2>3. QED
    BY <2>1, <2>2, StatsFacts, StoreWriters
<1>6. crowded' \in {crowded, crowded \cup {policyEpoch}}
      /\ (loopAt \in Reopening /\ Slot(policyEpoch) = w => policyEpoch \in crowded')
  BY <1>2 DEF EnterSlot, Reopening
<1>7. \A s \in SlotNumbers :
        /\ stats'[s].ended = stats[s].ended /\ stats'[s].epoch = stats[s].epoch
        /\ stats'[s].books = stats[s].books /\ AtMost(stats[s].books, stats[s].books)
        /\ ~Writing(s) /\ (Writing(s)' <=> s = w)
        /\ stats'[s].writers = IF s = w THEN (stats[w].writers + 1) % Width ELSE stats[s].writers
  BY <1>1, <1>2, <1>3, <1>5, StatsFacts, SlotIsARecord, AtMostIsAnOrder DEF SlotBecomes, Writing
<1>8. \A e \in Epochs : /\ Fresh(e) => worker'.epoch # e
                        /\ Admitted(e)' = finished[e] /\ Admitted(e) = finished[e]
                        /\ AtMost(finished[e], finished[e])
  BY <1>1, <1>3, StatsFacts, PlusIsMore DEF Admitted, FreshEpochs
<1>9. BooksKept'
  <2>1. \A e \in Epochs : Home(e)' => Home(e)
    BY <1>1, <1>6, <1>7, StatsFacts DEF Home
  <2>2. QED
    BY <1>1, <1>3, <1>4, <1>7, <2>1, StatsFacts DEF BooksKept, One
<1>10. finished' \in [Epochs -> Books] /\ runs' \in 0..MaxRuns
  BY <1>1 DEF StatsIInv, Types
<1>11. QED
  BY <1>1, <1>2, <1>3, <1>5, <1>6, <1>7, <1>8, <1>9, <1>10, StatsFacts, WorkerKeeps

\* Whose slot it is: from here on the worker is of the visit, or it leaves.
LEMMA CheckVisitKeeps == StatsIInv /\ CheckVisit => StatsIInv'
<1> SUFFICES ASSUME StatsIInv, CheckVisit PROVE StatsIInv'
  OBVIOUS
<1>1. /\ worker.at = "visit" /\ worker.epoch \in Epochs /\ ~worker.counts
      /\ UNCHANGED <<stats, policyEpoch, active, loopAt, looping, closed, publisher, mainAt,
                     reported, finished, observed, runs, crowded>>
  BY DEF CheckVisit, StatsIInv, Threads, loopVars, publisherVars
<1>2. PICK w \in SlotNumbers : w = Slot(worker.epoch)
  BY StatsFacts
<1>3. PICK at \in {"ended", "leave"} :
        WorkerGoes(at) /\ (at = "ended" => stats[w].epoch = worker.epoch)
  BY <1>2 DEF CheckVisit
<1>4. /\ worker' \in WorkerRecord /\ worker'.at \in {"ended", "leave"} /\ worker'.at = at
      /\ worker'.epoch = worker.epoch /\ ~worker'.counts
  <2>1. worker \in WorkerRecord /\ at \in WorkerAt
    BY DEF StatsIInv, Types, WorkerAt
  <2>2. QED
    BY <1>1, <1>3, <2>1, WorkerGoesOn
<1>5. \A s \in SlotNumbers : /\ AtMost(stats[s].books, stats[s].books)
                             /\ (Writing(s)' <=> Writing(s)) /\ (Writing(s) => s = w)
  BY <1>1, <1>2, <1>4, StatsFacts, SlotIsARecord, AtMostIsAnOrder DEF Writing
<1>6. \A e \in Epochs : /\ Fresh(e) => worker'.epoch # e
                        /\ Admitted(e)' = finished[e] /\ Admitted(e) = finished[e]
                        /\ AtMost(finished[e], finished[e])
  BY <1>1, <1>4, StatsFacts, PlusIsMore DEF Admitted, FreshEpochs
<1>7. BooksKept'
  <2>1. \A e \in Epochs : Home(e)' => Home(e) /\ stats[Slot(e)].epoch = e
    BY <1>1 DEF Home
  <2>2. QED
    BY <1>1, <1>3, <1>4, <1>5, <2>1, StatsFacts DEF BooksKept, One
<1>8. /\ finished' \in [Epochs -> Books] /\ runs' \in 0..MaxRuns
      /\ stats' \in [SlotNumbers -> SlotRecord]
  BY <1>1 DEF StatsIInv, Types
<1>9. QED
  BY <1>1, <1>4, <1>5, <1>6, <1>7, <1>8, StatsFacts, WorkerKeeps

\* Whether the visit is over: if not, the run is admitted from here on.
LEMMA CheckEndedKeeps == StatsIInv /\ CheckEnded => StatsIInv'
<1> SUFFICES ASSUME StatsIInv, CheckEnded PROVE StatsIInv'
  OBVIOUS
<1>1. /\ worker.at = "ended" /\ worker.epoch \in Epochs /\ ~worker.counts
      /\ UNCHANGED <<stats, policyEpoch, active, loopAt, looping, closed, publisher, mainAt,
                     reported, finished, observed, runs, crowded>>
  BY DEF CheckEnded, StatsIInv, Threads, loopVars, publisherVars
<1>2. PICK w \in SlotNumbers : w = Slot(worker.epoch)
  BY StatsFacts
<1>3. PICK at \in {"total", "leave"} : WorkerGoes(at)
  BY DEF CheckEnded
<1>4. /\ worker' \in WorkerRecord /\ worker'.at \in {"total", "leave"}
      /\ worker'.epoch = worker.epoch /\ ~worker'.counts /\ worker'.failed = worker.failed
  <2>1. worker \in WorkerRecord /\ at \in WorkerAt
    BY DEF StatsIInv, Types, WorkerAt
  <2>2. QED
    BY <1>1, <1>3, <2>1, WorkerGoesOn
<1>5. \A s \in SlotNumbers : /\ AtMost(stats[s].books, stats[s].books)
                             /\ (Writing(s)' <=> Writing(s)) /\ (Writing(s) => s = w)
  BY <1>1, <1>2, <1>4, StatsFacts, SlotIsARecord, AtMostIsAnOrder DEF Writing
<1>6. \A e \in Epochs : /\ Fresh(e) => worker'.epoch # e
                        /\ AtMost(Admitted(e), Admitted(e)')
                        /\ AtMost(finished[e], finished[e])
  BY <1>1, <1>4, StatsFacts, PlusIsMore DEF Admitted, FreshEpochs
<1>7. BooksKept'
  <2>1. \A e \in Epochs : Home(e)' => Home(e)
    BY <1>1 DEF Home
  <2>2. QED
    BY <1>1, <1>4, <1>5, <2>1, StatsFacts DEF BooksKept, One
<1>8. /\ finished' \in [Epochs -> Books] /\ runs' \in 0..MaxRuns
      /\ stats' \in [SlotNumbers -> SlotRecord]
  BY <1>1 DEF StatsIInv, Types
<1>9. QED
  BY <1>1, <1>4, <1>5, <1>6, <1>7, <1>8, StatsFacts, WorkerKeeps

\* The three increments: the worker is inside, so the slot is its own or crowded.
LEMMA AddKeeps == StatsIInv /\ (AddTotal \/ AddSample \/ AddFailure) => StatsIInv'
<1> SUFFICES ASSUME StatsIInv, AddTotal \/ AddSample \/ AddFailure PROVE StatsIInv'
  OBVIOUS
<1>1. /\ worker.at \in {"total", "samples", "failures"} /\ worker.epoch \in Epochs
      /\ worker.counts <=> worker.at = "failures"
      /\ worker.at = "failures" => worker.failed
      /\ UNCHANGED <<policyEpoch, active, loopAt, looping, closed, publisher, mainAt,
                     reported, finished, observed, runs, crowded>>
  BY DEF AddTotal, AddSample, AddFailure, StatsIInv, Threads, loopVars, publisherVars
<1>2. PICK w \in SlotNumbers : w = Slot(worker.epoch)
  BY StatsFacts
<1>3. PICK books \in Books : books = stats[w].books
  BY StatsFacts, SlotIsARecord
<1>4. \/ worker.at = "total" /\ stats' = [stats EXCEPT ![w].books.total = @ + 1]
      \/ worker.at = "samples" /\ stats' = [stats EXCEPT ![w].books.samples = @ + 1]
      \/ worker.at = "failures" /\ stats' = [stats EXCEPT ![w].books.failures = @ + 1]
  BY <1>2 DEF AddTotal, AddSample, AddFailure
<1>5. /\ stats' \in [SlotNumbers -> SlotRecord]
      /\ SlotBecomes(w, stats[w].ended, stats[w].writers, stats[w].epoch, stats'[w].books)
      /\ AtMost(books, stats'[w].books)
      /\ stats'[w].books.total = books.total + One(worker.at = "total")
      /\ stats'[w].books.samples = books.samples + One(worker.at = "samples")
      /\ stats'[w].books.failures = books.failures + One(worker.at = "failures")
  <2>1. books.total \in Nat /\ books.samples \in Nat /\ books.failures \in Nat
    BY <1>3 DEF Books
  <2>2. QED
    BY <1>3, <1>4, <2>1, StatsFacts, Increments DEF One
<1>6. /\ worker' \in WorkerRecord /\ worker'.epoch = worker.epoch /\ worker'.failed = worker.failed
      /\ worker.at = "total" => worker'.at = "samples" /\ ~worker'.counts
      /\ worker.at = "samples" => worker'.counts /\ worker'.at = IF worker.failed THEN "failures" ELSE "leave"
      /\ worker.at = "failures" => worker'.at = "leave" /\ worker'.counts
  <2>1. worker \in WorkerRecord
    BY DEF StatsIInv, Types
  <2>2. CASE worker.at = "total"
    <3>1. WorkerGoes("samples") /\ ~worker.counts
      BY <1>1, <2>2 DEF AddTotal, AddSample, AddFailure
    <3>2. QED
      BY <2>1, <2>2, <3>1, WorkerGoesOn DEF WorkerAt
  <2>3. CASE worker.at = "samples"
    <3>1. PICK at \in WorkerAt : at = IF worker.failed THEN "failures" ELSE "leave"
      BY DEF WorkerAt
    <3>2. worker' = [worker EXCEPT !.at = at, !.counts = TRUE]
      BY <2>3, <3>1 DEF AddTotal, AddSample, AddFailure
    <3>3. QED
      BY <2>1, <2>3, <3>1, <3>2, WorkerMoves
  <2>4. CASE worker.at = "failures"
    <3>1. WorkerGoes("leave") /\ worker.counts
      BY <1>1, <2>4 DEF AddTotal, AddSample, AddFailure
    <3>2. QED
      BY <2>1, <2>4, <3>1, WorkerGoesOn DEF WorkerAt
  <2>5. QED
    BY <1>1, <2>2, <2>3, <2>4
<1>7. \A s \in SlotNumbers :
        /\ stats'[s].ended = stats[s].ended /\ stats'[s].epoch = stats[s].epoch
        /\ stats'[s].writers = stats[s].writers
        /\ AtMost(stats[s].books, stats'[s].books)
        /\ (Writing(s)' <=> Writing(s)) /\ (Writing(s) <=> s = w)
        /\ s # w => stats'[s] = stats[s]
  <2>1. worker'.at \notin {"idle", "run"}
    BY <1>1, <1>6
  <2>2. \A s \in SlotNumbers : (Writing(s)' <=> Writing(s)) /\ (Writing(s) <=> s = w)
    BY <1>1, <1>2, <1>6, <2>1 DEF Writing
  <2>3. \A s \in SlotNumbers : AtMost(stats[s].books, stats[s].books)
    BY StatsFacts, SlotIsARecord, AtMostIsAnOrder
  <2>4. QED
    BY <1>3, <1>5, <2>2, <2>3 DEF SlotBecomes
<1>8. \A e \in Epochs : /\ Fresh(e) => worker'.epoch # e
                        /\ AtMost(Admitted(e), Admitted(e)')
                        /\ AtMost(finished[e], finished[e])
  <2>1. \A e \in Epochs : Within(e)' <=> Within(e)
    BY <1>1, <1>6 DEF Within
  <2>2. \A e \in Epochs : Admitted(e)' = Admitted(e)
    BY <1>1, <1>6 DEF Admitted
  <2>3. \A e \in Epochs : /\ AtMost(Admitted(e), Admitted(e)) /\ AtMost(finished[e], finished[e])
    BY StatsFacts, AdmittedIs, AtMostIsAnOrder
  <2>4. QED
    BY <1>6, <2>2, <2>3, StatsFacts DEF FreshEpochs
<1>9. BooksKept'
  <2>1. \A e \in Epochs : Home(e)' => Home(e)
    BY <1>1, <1>7, StatsFacts DEF Home
  <2> SUFFICES ASSUME NEW e \in Epochs, Home(e), NEW s \in SlotNumbers, s = Slot(e)
               PROVE
      /\ stats'[s].writers = One(Writing(s)')
      /\ Writing(s)' /\ (worker'.at \in {"ended", "total", "samples", "failures"} \/ worker'.counts)
           => worker'.epoch = e
      /\ stats'[s].books.total = finished[e].total
           + One(worker'.epoch = e /\ (worker'.at \in {"samples", "failures"} \/ worker'.counts))
      /\ stats'[s].books.samples = finished[e].samples + One(worker'.epoch = e /\ worker'.counts)
      /\ stats'[s].books.failures = finished[e].failures
           + One(worker'.epoch = e /\ worker'.counts /\ worker'.failed /\ worker'.at = "leave")
    BY <1>1, <2>1, StatsFacts DEF BooksKept, One
  <2>2. /\ stats[s].writers = One(Writing(s))
        /\ Writing(s) => worker.epoch = e
        /\ stats[s].books.total = finished[e].total
             + One(worker.epoch = e /\ worker.at \in {"samples", "failures"})
        /\ stats[s].books.samples = finished[e].samples + One(worker.epoch = e /\ worker.at = "failures")
        /\ stats[s].books.failures = finished[e].failures
    <3>1. finished[e].failures \in Nat
      BY StatsFacts DEF Books
    <3>2. QED
      BY <1>1, <3>1, StatsFacts DEF BooksKept, One
  <2>3. finished[e].total \in Nat /\ finished[e].samples \in Nat /\ finished[e].failures \in Nat
    BY StatsFacts DEF Books
  <2>4. CASE s = w
    <3>1. worker.epoch = e
      BY <1>7, <2>2, <2>4
    <3>2. CASE worker.at = "total"
      BY <1>1, <1>3, <1>5, <1>6, <1>7, <2>2, <2>3, <2>4, <3>1, <3>2 DEF One
    <3>3. CASE worker.at = "samples"
      BY <1>1, <1>3, <1>5, <1>6, <1>7, <2>2, <2>3, <2>4, <3>1, <3>3 DEF One
    <3>4. CASE worker.at = "failures"
      BY <1>1, <1>3, <1>5, <1>6, <1>7, <2>2, <2>3, <2>4, <3>1, <3>4 DEF One
    <3>5. QED
      BY <1>1, <3>2, <3>3, <3>4
  <2>5. CASE s # w
    <3>1. worker.epoch # e
      BY <1>2, <2>5
    <3>2. QED
      BY <1>6, <1>7, <2>2, <2>3, <2>5, <3>1 DEF One
  <2>6. QED
    BY <2>4, <2>5
<1>10. finished' \in [Epochs -> Books] /\ runs' \in 0..MaxRuns
  BY <1>1 DEF StatsIInv, Types
<1>11. PICK s \in SlotNumbers : s = Slot(policyEpoch)
  BY StatsFacts
<1>12. loopAt \in Reopening /\ policyEpoch \notin crowded' /\ ~Writing(s)
         => ~Writing(s)' /\ stats'[s].books = stats[s].books /\ stats'[s].writers = stats[s].writers
  BY <1>7
<1>13. /\ worker'.at # "idle" /\ (worker'.counts => worker'.at \in {"failures", "leave"})
       /\ worker'.at = "failures" => worker'.counts /\ worker'.failed
  BY <1>1, <1>6
<1>14. QED
  BY <1>1, <1>5, <1>6, <1>7, <1>8, <1>9, <1>10, <1>11, <1>12, <1>13, StatsFacts, WorkerKeeps

\* The run is added for good: what was admitted does not change.
LEMMA LeaveSlotKeeps == StatsIInv /\ LeaveSlot => StatsIInv'
<1> SUFFICES ASSUME StatsIInv, LeaveSlot PROVE StatsIInv'
  OBVIOUS
<1>1. /\ worker.at = "leave" /\ worker.epoch \in Epochs
      /\ UNCHANGED <<policyEpoch, active, loopAt, looping, closed, publisher, mainAt,
                     reported, observed, runs, crowded>>
  BY DEF LeaveSlot, StatsIInv, Threads, loopVars, publisherVars
<1>2. PICK w \in SlotNumbers : w = Slot(worker.epoch)
  BY StatsFacts
<1>3. /\ worker' \in WorkerRecord /\ worker'.at = "idle" /\ worker'.epoch = 0
      /\ ~worker'.counts
  BY SlotsHaveNumbers DEF LeaveSlot, WorkerRecord, Idle
<1>4. /\ stats[w].writers \in 0..Width - 1 /\ (stats[w].writers + Width - 1) % Width \in 0..Width - 1
      /\ stats[w].writers = 1 => (stats[w].writers + Width - 1) % Width = 0
  <2>1. stats[w].writers \in 0..Width - 1
    BY StatsFacts, SlotIsARecord
  <2>2. \A n \in 0..Width - 1 : (n + Width - 1) % Width \in 0..Width - 1
    BY StatsAssumption
  <2>3. (1 + Width - 1) % Width = 0
    BY StatsAssumption
  <2>4. QED
    BY <2>1, <2>2, <2>3
<1>5. /\ stats' \in [SlotNumbers -> SlotRecord]
      /\ SlotBecomes(w, stats[w].ended, (stats[w].writers + Width - 1) % Width, stats[w].epoch,
                     stats[w].books)
  <2>1. PICK x \in 0..Width - 1 : x = (stats[w].writers + Width - 1) % Width
    BY <1>4
  <2>2. stats' = [stats EXCEPT ![w].writers = x]
    BY <1>2, <2>1 DEF LeaveSlot
  <2>3. QED
    BY <2>1, <2>2, StatsFacts, StoreWriters
<1>6. PICK plus \in Books : plus = Plus(finished[worker.epoch], worker.failed)
  BY <1>1, StatsFacts, OneMore
<1>7. /\ finished' \in [Epochs -> Books]
      /\ \A e \in Epochs : /\ finished'[e] = IF worker.counts /\ e = worker.epoch THEN plus ELSE finished[e]
                           /\ finished'[e] \in Books /\ AtMost(finished[e], finished'[e])
                           /\ finished'[e] = Admitted(e)
  <2>1. finished \in [Epochs -> Books]
    BY DEF StatsIInv, Types
  <2>2. /\ finished' \in [Epochs -> Books]
        /\ \A e \in Epochs : finished'[e] = IF worker.counts /\ e = worker.epoch THEN plus ELSE finished[e]
    BY <1>1, <1>6, <2>1 DEF LeaveSlot
  <2>3. \A e \in Epochs : finished'[e] = Admitted(e)
    BY <1>1, <1>6, <2>2 DEF Admitted
  <2>4. \A e \in Epochs : AtMost(finished[e], finished'[e])
    BY <1>1, <1>6, <2>2, StatsFacts, PlusIsMore
  <2>5. QED
    BY <2>2, <2>3, <2>4
<1>8. \A s \in SlotNumbers :
        /\ stats'[s].ended = stats[s].ended /\ stats'[s].epoch = stats[s].epoch
        /\ stats'[s].books = stats[s].books /\ AtMost(stats[s].books, stats[s].books)
        /\ ~Writing(s)' /\ (Writing(s) <=> s = w)
        /\ stats'[s].writers = IF s = w THEN (stats[w].writers + Width - 1) % Width ELSE stats[s].writers
  BY <1>1, <1>2, <1>3, <1>5, StatsFacts, SlotIsARecord, AtMostIsAnOrder DEF SlotBecomes, Writing
<1>9. \A e \in Epochs : /\ Fresh(e) => worker'.epoch # e /\ worker.epoch # e /\ finished'[e] = finished[e]
                        /\ Admitted(e)' = finished'[e]
                        /\ AtMost(finished'[e], finished'[e])
  <2>1. \A e \in Epochs : e # 0
    BY StatsFacts
  <2>2. \A e \in Epochs : Admitted(e)' = finished'[e] /\ AtMost(finished'[e], finished'[e])
    BY <1>3, <1>7, AtMostIsAnOrder DEF Admitted
  <2>3. QED
    BY <1>3, <1>7, <2>1, <2>2, StatsFacts DEF FreshEpochs
<1>10. BooksKept'
  <2>1. \A e \in Epochs : Home(e)' => Home(e)
    BY <1>1, <1>8, StatsFacts DEF Home
  <2> SUFFICES ASSUME NEW e \in Epochs, Home(e), NEW s \in SlotNumbers, s = Slot(e)
               PROVE
      /\ stats'[s].writers = 0
      /\ stats'[s].books.total = finished'[e].total
      /\ stats'[s].books.samples = finished'[e].samples
      /\ stats'[s].books.failures = finished'[e].failures
    <3>1. \A n \in Epochs : /\ finished'[n].total \in Nat
                             /\ finished'[n].samples \in Nat
                             /\ finished'[n].failures \in Nat
      BY <1>7 DEF Books
    <3>2. QED
      BY <1>1, <1>3, <1>8, <2>1, <3>1, StatsFacts DEF BooksKept, One
  <2>2. /\ stats[s].writers = One(Writing(s))
        /\ Writing(s) /\ worker.counts => worker.epoch = e
        /\ stats[s].books.total = finished[e].total + One(worker.epoch = e /\ worker.counts)
        /\ stats[s].books.samples = finished[e].samples + One(worker.epoch = e /\ worker.counts)
        /\ stats[s].books.failures = finished[e].failures
             + One(worker.epoch = e /\ worker.counts /\ worker.failed)
    BY <1>1, StatsFacts DEF BooksKept, One
  <2>3. finished[e].total \in Nat /\ finished[e].samples \in Nat /\ finished[e].failures \in Nat
        /\ finished[e] \in Books /\ worker.failed \in BOOLEAN
    BY StatsFacts DEF Books
  <2>4. stats'[s].writers = 0
    BY <1>4, <1>8, <2>2 DEF One
  <2>5. CASE worker.counts /\ worker.epoch = e
    BY <1>6, <1>7, <1>8, <2>2, <2>3, <2>4, <2>5, OneMore DEF One
  <2>6. CASE ~(worker.counts /\ worker.epoch = e)
    BY <1>7, <1>8, <2>2, <2>3, <2>4, <2>6 DEF One
  <2>7. QED
    BY <2>5, <2>6
<1>11. runs' \in 0..MaxRuns
  BY <1>1 DEF StatsIInv, Types
<1>12. PICK s \in SlotNumbers : s = Slot(policyEpoch)
  BY StatsFacts
<1>13. loopAt \in Reopening /\ policyEpoch \notin crowded' /\ ~Writing(s)
         => ~Writing(s)' /\ stats'[s].books = stats[s].books /\ stats'[s].writers = stats[s].writers
  BY <1>8
<1>14. QED
  BY <1>1, <1>3, <1>5, <1>7, <1>8, <1>9, <1>10, <1>11, <1>12, <1>13, StatsFacts, WorkerKeeps

-----------------------------------------------------------------------------
(* The control loop keeps it, and so does shutdown. *)

\* What nobody but the control loop changes, it leaves as it was for the others.
LEMMA OthersStay ==
  ASSUME UNCHANGED <<worker, finished, publisher>>
  PROVE  /\ \A s \in SlotNumbers : /\ Writing(s)' <=> Writing(s)
                                   /\ Looking(s)' <=> Looking(s)
                                   /\ Publishing(s)' <=> Publishing(s)
         /\ \A p \in Publishers : /\ Reading(p)' <=> Reading(p)
                                  /\ \A s \in SlotNumbers : On(p, s)' <=> On(p, s)
         /\ \A e \in Epochs : Admitted(e)' = Admitted(e)
  BY DEF Writing, Looking, Publishing, Reading, On, Admitted

\* The threads stay where they can be.
LEMMA ThreadsStay ==
  ASSUME StatsIInv, UNCHANGED <<worker, publisher>>,
         loopAt' \in {"end", "leave"} => policyEpoch' < MaxEpoch,
         loopAt' # "idle" \/ active' # NONE => policyEpoch' \in Epochs,
         \A s \in SlotNumbers : stats'[s].epoch # stats[s].epoch => Slot(stats'[s].epoch) = s
  PROVE  Threads'
<1>1. \A p \in Publishers : Reading(p)' <=> Reading(p)
  BY DEF Reading
<1>2. Threads
  BY DEF StatsIInv
<1>3. \A s \in SlotNumbers : stats'[s].epoch # 0 => Slot(stats'[s].epoch) = s
  BY <1>2 DEF Threads
<1>4. QED
  BY <1>1, <1>2, <1>3 DEF Threads

\* An epoch is not later than itself.
LEMMA NoneIsLater == \A e \in Nat : ~(e > e)
  OBVIOUS

\* A step that touches no slot and ends or begins no visit.
LEMMA QuietKeeps ==
  ASSUME StatsIInv,
         UNCHANGED <<stats, policyEpoch, closed, worker, finished, publisher, reported, crowded, runs>>,
         active' \in Motions \cup {NONE}, looping' \in BOOLEAN,
         mainAt' \in {"up", "join worker", "flush", "join timer", "down"},
         observed' \subseteq [policy: Motions, epoch: Epochs],
         \A o \in observed' : o \in observed \/ (o.epoch = policyEpoch /\ loopAt = "idle"),
         \/ loopAt' = loopAt /\ active' = active
         \/ /\ loopAt = "idle" /\ loopAt' \in {"end", "leave"} /\ policyEpoch < MaxEpoch
            /\ policyEpoch \in Epochs
            /\ loopAt' = "end" => stats[Slot(policyEpoch)].epoch = policyEpoch
  PROVE  StatsIInv'
<1>1. Types'
  BY DEF StatsIInv, Types, LoopAt
<1>2. Threads'
  <2>1. /\ loopAt' \in {"end", "leave"} => policyEpoch' < MaxEpoch
        /\ loopAt' # "idle" \/ active' # NONE => policyEpoch' \in Epochs
    BY DEF StatsIInv, Threads
  <2>2. QED
    BY <2>1, ThreadsStay
<1>3. /\ \A e \in Epochs : Home(e)' <=> Home(e)
      /\ \A e \in Epochs : Fresh(e)' <=> Fresh(e)
      /\ loopAt' \in Reopening <=> loopAt \in Reopening
      /\ loopAt' \in Reopening => loopAt' = loopAt
  BY DEF Home, Fresh, Reopening
<1>4. FreshEpochs'
  <2>1. \A e \in Epochs : Fresh(e) => \A o \in observed' : o.epoch # e
    <3>1. policyEpoch \in Nat /\ \A e \in Epochs : Fresh(e) => \A o \in observed : o.epoch # e
      BY StatsFacts DEF FreshEpochs
    <3>2. loopAt = "idle" => ~Fresh(policyEpoch)
      <4>1. loopAt = "idle" => loopAt \notin {"reopen"} \cup Reopening
        BY DEF Reopening
      <4>2. QED
        BY <3>1, <4>1, NoneIsLater DEF Fresh
    <3>3. QED
      BY <3>1, <3>2
  <2>2. QED
    BY <1>3, <2>1, StatsFacts DEF FreshEpochs
<1>5. PublishedOnce'
  BY <1>3, OthersStay, StatsFacts DEF PublishedOnce
<1>6. BooksKept'
  BY <1>3, StatsFacts DEF BooksKept, Writing
<1>7. AdmittedAdded'
  BY <1>3, OthersStay, StatsFacts DEF AdmittedAdded
<1>8. ReadersRight'
  BY <1>3, OthersStay, StatsFacts DEF ReadersRight
<1>9. EndedVisits'
  BY StatsFacts DEF EndedVisits
<1>10. Reopened'
  BY <1>3, OthersStay, StatsFacts DEF Reopened
<1>11. Ends'
  BY StatsFacts DEF Ends
<1>12. QED
  BY <1>1, <1>2, <1>4, <1>5, <1>6, <1>7, <1>8, <1>9, <1>10, <1>11 DEF StatsIInv, Visits

\* The observation is of the visit that is under way.
LEMMA SubmitKeeps == StatsIInv /\ Submit => StatsIInv'
<1> SUFFICES ASSUME StatsIInv, Submit PROVE StatsIInv'
  OBVIOUS
<1>1. /\ loopAt = "idle" /\ active # NONE /\ observed' = {[policy |-> active, epoch |-> policyEpoch]}
      /\ UNCHANGED <<stats, policyEpoch, active, loopAt, looping, closed, worker, finished, publisher,
                     mainAt, reported, crowded, runs>>
  BY DEF Submit, loopVars, workerVars, publisherVars
<1>2. Types /\ Threads
  BY DEF StatsIInv
<1>3. policyEpoch \in Epochs /\ active \in Motions
  BY <1>1, <1>2 DEF Types, Threads
<1>4. /\ observed' \subseteq [policy: Motions, epoch: Epochs]
      /\ \A o \in observed' : o.epoch = policyEpoch
  BY <1>1, <1>3
<1>5. QED
  BY <1>1, <1>2, <1>4, QuietKeeps DEF Types

\* The check of endPolicyInferenceStats(): the slot is the visit's own.
LEMMA LeaveKeeps == StatsIInv /\ Leave => StatsIInv'
<1> SUFFICES ASSUME StatsIInv, Leave PROVE StatsIInv'
  OBVIOUS
<1>1. /\ loopAt = "idle" /\ active # NONE /\ policyEpoch < MaxEpoch
      /\ UNCHANGED <<stats, policyEpoch, active, looping, closed, observed, worker, finished, publisher,
                     mainAt, reported, crowded, runs>>
      /\ loopAt' \in {"end", "leave"}
      /\ loopAt' = "end" => stats[Slot(policyEpoch)].epoch = policyEpoch
  BY DEF Leave, workerVars, publisherVars
<1>2. Types /\ Threads
  BY DEF StatsIInv
<1>3. policyEpoch \in Epochs
  BY <1>1, <1>2 DEF Threads
<1>4. QED
  BY <1>1, <1>2, <1>3, QuietKeeps DEF Types

\* Joining the threads changes nothing of the slots.
LEMMA ShutdownKeeps ==
  ASSUME StatsIInv, StopLoop \/ JoinWorker \/ StopTimer \/ JoinTimer \/ UNCHANGED vars
  PROVE  StatsIInv'
<1>1. /\ UNCHANGED <<stats, policyEpoch, active, loopAt, closed, observed, worker, finished, publisher,
                     reported, crowded, runs>>
      /\ looping' \in {looping, FALSE}
      /\ mainAt' \in {mainAt, "join worker", "flush", "join timer", "down"}
  BY DEF StopLoop, JoinWorker, StopTimer, JoinTimer, vars, loopVars, workerVars, AfterWorker
<1>2. Types
  BY DEF StatsIInv
<1>3. QED
  BY <1>1, <1>2, QuietKeeps DEF Types

\* No visit that has its slot to itself has the slot that is being cleared.
LEMMA HomeIsElsewhere ==
  ASSUME StatsIInv, loopAt \in Reopening, NEW e \in Epochs, Home(e)
  PROVE  Slot(e) # Slot(policyEpoch)
<1>1. Threads
  BY DEF StatsIInv
<1>2. policyEpoch \in Epochs
  BY <1>1 DEF Threads, Reopening
<1>3. \A s \in SlotNumbers : stats[s].epoch # policyEpoch
  BY <1>2, StatsFacts DEF FreshEpochs, Fresh
<1>4. stats[Slot(e)].epoch = e /\ e \notin crowded /\ closed[e] # {}
  BY <1>3, StatsFacts DEF Home
<1>5. QED
  BY <1>4, StatsFacts DEF Reopened

\* Clearing the slot, but for its epoch.
LEMMA ClearKeeps ==
  ASSUME StatsIInv, loopAt \in Reopening, loopAt' \in Reopening,
         UNCHANGED <<policyEpoch, active, looping, closed, observed, worker, finished, publisher,
                     mainAt, reported, crowded, runs>>,
         NEW s \in SlotNumbers, s = Slot(policyEpoch), NEW writers, NEW books,
         stats' \in [SlotNumbers -> SlotRecord],
         SlotBecomes(s, stats[s].ended, writers, stats[s].epoch, books),
         policyEpoch \notin crowded =>
           /\ loopAt' # "clear" => books = NoRuns
           /\ loopAt' \in {"policy", "epoch"} => writers = 0
  PROVE  StatsIInv'
<1>1. Types /\ Threads
  BY DEF StatsIInv
<1>2. Types'
  BY <1>1 DEF Types, LoopAt
<1>3. \A r \in SlotNumbers :
        /\ stats'[r].ended = stats[r].ended /\ stats'[r].epoch = stats[r].epoch
        /\ r # s => stats'[r] = stats[r]
  BY DEF SlotBecomes
<1>4. Threads'
  <2>1. policyEpoch \in Epochs /\ loopAt' \notin {"end", "leave"}
    BY <1>1 DEF Threads, Reopening
  <2>2. QED
    BY <1>3, <2>1, ThreadsStay
<1>5. \A e \in Epochs : /\ Home(e)' <=> Home(e)
                        /\ Home(e) => Slot(e) # s /\ stats'[Slot(e)] = stats[Slot(e)]
  <2>1. \A e \in Epochs : Home(e)' <=> Home(e)
    BY <1>3, StatsFacts DEF Home
  <2>2. QED
    BY <1>3, <2>1, StatsFacts, HomeIsElsewhere
<1>6. FreshEpochs'
  <2>1. \A e \in Epochs : Fresh(e)' => Fresh(e)
    BY DEF Fresh
  <2>2. QED
    BY <1>3, <2>1, StatsFacts DEF FreshEpochs
<1>7. PublishedOnce'
  BY <1>5, OthersStay, StatsFacts DEF PublishedOnce
<1>8. BooksKept'
  BY <1>5, StatsFacts DEF BooksKept, Writing
<1>9. AdmittedAdded'
  BY <1>5, OthersStay, StatsFacts DEF AdmittedAdded
<1>10. ReadersRight'
  <2>1. \A p \in Publishers : \A e \in Epochs :
          stats'[publisher[p].slot].epoch = e <=> stats[publisher[p].slot].epoch = e
    BY <1>3, StatsFacts, PublisherIsARecord
  <2>2. QED
    BY <1>5, <2>1, OthersStay, StatsFacts DEF ReadersRight
<1>11. EndedVisits'
  BY <1>3, StatsFacts DEF EndedVisits
<1>12. Reopened'
  <2>1. stats'[s].books = books /\ stats'[s].writers = writers
    BY DEF SlotBecomes
  <2>2. QED
    BY <1>3, <2>1, OthersStay, StatsFacts DEF Reopened
<1>13. Ends'
  BY StatsFacts DEF Ends, Reopening
<1>14. QED
  BY <1>2, <1>4, <1>6, <1>7, <1>8, <1>9, <1>10, <1>11, <1>12, <1>13 DEF StatsIInv, Visits

\* The stores of beginPolicyInferenceStats(), but the first and the last.
LEMMA ClearingKeeps == StatsIInv /\ (ClearBooks \/ ClearWriters \/ StorePolicy) => StatsIInv'
<1> SUFFICES ASSUME StatsIInv, ClearBooks \/ ClearWriters \/ StorePolicy PROVE StatsIInv'
  OBVIOUS
<1>1. PICK s \in SlotNumbers : s = Slot(policyEpoch)
  BY StatsFacts
<1>2. /\ loopAt \in Reopening /\ loopAt' \in Reopening
      /\ UNCHANGED <<policyEpoch, active, looping, closed, observed, worker, finished, publisher,
                     mainAt, reported, crowded, runs>>
  BY DEF ClearBooks, ClearWriters, StorePolicy, workerVars, publisherVars, Reopening
<1>3. Types /\ active \in Motions \cup {NONE}
  BY DEF StatsIInv, Types
<1>4. policyEpoch \notin crowded =>
        /\ loopAt # "clear" => stats[s].books = NoRuns
        /\ loopAt \in {"policy", "epoch"} => stats[s].writers = 0
  BY <1>1, <1>2, StatsFacts DEF Reopened
<1>5. CASE ClearBooks
  <2>1. /\ stats' = [stats EXCEPT ![s].books = NoRuns] /\ loopAt' = "no writers"
    BY <1>1, <1>5 DEF ClearBooks
  <2>2. /\ stats' \in [SlotNumbers -> SlotRecord]
        /\ SlotBecomes(s, stats[s].ended, stats[s].writers, stats[s].epoch, NoRuns)
    BY <2>1, StatsFacts, NothingAdded, StoreBooks
  <2>3. QED
    BY <1>1, <1>2, <2>1, <2>2, ClearKeeps
<1>6. CASE ClearWriters
  <2>1. /\ stats' = [stats EXCEPT ![s].writers = 0] /\ loopAt = "no writers" /\ loopAt' = "policy"
    BY <1>1, <1>6 DEF ClearWriters
  <2>2. /\ stats' \in [SlotNumbers -> SlotRecord]
        /\ SlotBecomes(s, stats[s].ended, 0, stats[s].epoch, stats[s].books)
    <3>1. 0 \in 0..Width - 1
      BY StatsAssumption
    <3>2. QED
      BY <2>1, <3>1, StatsFacts, StoreWriters
  <2>3. QED
    BY <1>1, <1>2, <1>4, <2>1, <2>2, ClearKeeps
<1>7. CASE StorePolicy
  <2>1. /\ stats' = [stats EXCEPT ![s].policy = active] /\ loopAt = "policy" /\ loopAt' = "epoch"
    BY <1>1, <1>7 DEF StorePolicy
  <2>2. /\ stats' \in [SlotNumbers -> SlotRecord]
        /\ SlotBecomes(s, stats[s].ended, stats[s].writers, stats[s].epoch, stats[s].books)
    BY <1>3, <2>1, StatsFacts, StorePolicyWord
  <2>3. QED
    BY <1>1, <1>2, <1>4, <2>1, <2>2, ClearKeeps
<1>8. QED
  BY <1>5, <1>6, <1>7

\* The slot is the new visit's, and the visit has it to itself unless somebody was inside.
LEMMA StoreEpochKeeps == StatsIInv /\ StoreEpoch => StatsIInv'
<1> SUFFICES ASSUME StatsIInv, StoreEpoch PROVE StatsIInv'
  OBVIOUS
<1>1. PICK s \in SlotNumbers : s = Slot(policyEpoch)
  BY StatsFacts
<1>2. /\ loopAt = "epoch" /\ loopAt' = "idle" /\ loopAt \in Reopening
      /\ UNCHANGED <<policyEpoch, active, looping, closed, observed, worker, finished, publisher,
                     mainAt, reported, crowded, runs>>
  BY DEF StoreEpoch, workerVars, publisherVars, Reopening
<1>3. Types /\ Threads
  BY DEF StatsIInv
<1>4. PICK n \in Epochs : n = policyEpoch
  BY <1>2, <1>3 DEF Threads
<1>5. /\ stats' \in [SlotNumbers -> SlotRecord]
      /\ SlotBecomes(s, stats[s].ended, stats[s].writers, policyEpoch, stats[s].books)
  <2>1. stats' = [stats EXCEPT ![s].epoch = policyEpoch]
    BY <1>1 DEF StoreEpoch
  <2>2. QED
    BY <2>1, StatsFacts, StoreEpochWord
<1>6. Types'
  BY <1>2, <1>3, <1>5 DEF Types, LoopAt
<1>7. \A r \in SlotNumbers :
        /\ stats'[r].ended = stats[r].ended /\ stats'[r].writers = stats[r].writers
        /\ stats'[r].books = stats[r].books
        /\ stats'[r].epoch = IF r = s THEN n ELSE stats[r].epoch
  BY <1>4, <1>5 DEF SlotBecomes
<1>8. Threads'
  <2>1. loopAt' \notin {"end", "leave"} /\ policyEpoch' \in Epochs
    BY <1>2, <1>4
  <2>2. QED
    BY <1>1, <1>2, <1>4, <1>7, <2>1, ThreadsStay
<1>9. Fresh(n)
  BY <1>2, <1>4 DEF Fresh
<1>10. /\ \A r \in SlotNumbers : stats[r].epoch # n
       /\ worker.epoch # n /\ \A p \in Publishers : publisher[p].epoch # n
       /\ closed[n] = {} /\ n \notin reported /\ finished[n] = NoRuns
  BY <1>9, StatsFacts DEF FreshEpochs
<1>11. n \notin crowded => /\ ~stats[s].ended /\ ~Looking(s) /\ ~Writing(s)
                           /\ stats[s].books = NoRuns /\ stats[s].writers = 0
  BY <1>1, <1>2, <1>4, StatsFacts DEF Reopened
<1>12. \A e \in Epochs : /\ Home(e)' /\ e # n => Home(e)
                         /\ Home(e) => Home(e)' /\ Slot(e) # s
                         /\ Home(e)' => e \notin crowded
                         /\ e # n /\ Home(e)' => Slot(e) # s
  <2>1. \A e \in Epochs : Home(e) => Slot(e) # s
    BY <1>1, <1>2, HomeIsElsewhere
  <2>2. QED
    BY <1>1, <1>2, <1>4, <1>7, <2>1, StatsFacts DEF Home
<1>13. FreshEpochs'
  <2>1. \A e \in Epochs : Fresh(e)' => Fresh(e) /\ e # n
    BY <1>2, <1>4, StatsFacts DEF Fresh, Reopening
  <2>2. QED
    BY <1>2, <1>7, <2>1, StatsFacts DEF FreshEpochs
<1>14. PublishedOnce'
  <2>1. \A p \in Publishers : /\ On(p, s) /\ Reading(p) => Looking(s)
                              /\ On(p, s) /\ publisher[p].at \in PublishingAt => Looking(s)
    BY DEF On, Reading, Looking, Publishing, ReadingAt, PublishingAt
  <2>2. Publishing(s) => Looking(s)
    BY DEF Looking
  <2> SUFFICES ASSUME NEW e \in Epochs, Home(e)'
               PROVE
      /\ closed[e] = {} => ~stats'[Slot(e)].ended /\ ~Looking(Slot(e))
      /\ stats'[Slot(e)].ended => ~Publishing(Slot(e))
      /\ closed[e] # {} => stats'[Slot(e)].ended \/ Publishing(Slot(e))
      /\ e \notin reported
      /\ \A p, q \in Publishers :
           On(p, Slot(e)) /\ publisher[p].at \in PublishingAt
             /\ On(q, Slot(e)) /\ publisher[q].at \in PublishingAt => p = q
      /\ \A p \in Publishers : On(p, Slot(e)) /\ Reading(p) => publisher[p].epoch = e
    BY <1>2, OthersStay, StatsFacts DEF PublishedOnce
  <2>3. CASE e = n
    BY <1>1, <1>4, <1>7, <1>10, <1>11, <1>12, <2>1, <2>2, <2>3
  <2>4. CASE e # n
    <3>1. Home(e) /\ stats'[Slot(e)].ended = stats[Slot(e)].ended
      BY <1>7, <1>12, <2>4, StatsFacts
    <3>2. QED
      BY <3>1, StatsFacts DEF PublishedOnce
  <2>5. QED
    BY <2>3, <2>4
<1>15. BooksKept'
  <2> SUFFICES ASSUME NEW e \in Epochs, Home(e)', NEW r \in SlotNumbers, r = Slot(e)
               PROVE
      /\ stats'[r].writers = One(Writing(r))
      /\ Writing(r) /\ (worker.at \in {"ended", "total", "samples", "failures"} \/ worker.counts)
           => worker.epoch = e
      /\ stats'[r].books.total = finished[e].total
           + One(worker.epoch = e /\ (worker.at \in {"samples", "failures"} \/ worker.counts))
      /\ stats'[r].books.samples = finished[e].samples + One(worker.epoch = e /\ worker.counts)
      /\ stats'[r].books.failures = finished[e].failures
           + One(worker.epoch = e /\ worker.counts /\ worker.failed /\ worker.at = "leave")
    BY <1>2, StatsFacts DEF BooksKept, Writing
  <2>1. CASE e = n
    BY <1>1, <1>4, <1>7, <1>10, <1>11, <1>12, <2>1, NothingAdded DEF One
  <2>2. CASE e # n
    <3>1. Home(e)
      BY <1>12, <2>2
    <3>2. QED
      BY <1>7, <3>1, StatsFacts DEF BooksKept
  <2>3. QED
    BY <2>1, <2>2
<1>16. AdmittedAdded'
  <2>1. \A e \in Epochs : closed[e] # {} => e # n
    BY <1>10
  <2>2. QED
    BY <1>2, <1>12, <2>1, OthersStay, StatsFacts DEF AdmittedAdded
<1>17. ReadersRight'
  <2>1. ASSUME NEW p \in Publishers, NEW e \in Epochs \ crowded, publisher[p].at = "epoch",
               stats'[publisher[p].slot].epoch = e
        PROVE  closed[e] # {}
    <3>1. publisher[p].slot = s => Looking(s)
      BY <2>1 DEF Looking, Publishing
    <3>2. publisher[p].slot \in SlotNumbers
      BY StatsFacts, PublisherIsARecord
    <3>3. publisher[p].slot # s
      BY <1>7, <1>11, <2>1, <3>1, <3>2
    <3>4. QED
      BY <1>7, <2>1, <3>2, <3>3, StatsFacts DEF ReadersRight
  <2>2. \A r \in SlotNumbers : stats'[r].books = stats[r].books
    BY <1>7
  <2>3. QED
    BY <1>2, <1>12, <2>1, <2>2, OthersStay, StatsFacts DEF ReadersRight
<1>18. EndedVisits'
  BY <1>2, <1>7, <1>11, StatsFacts DEF EndedVisits
<1>19. Reopened'
  BY <1>2 DEF Reopened, Reopening
<1>20. Ends'
  BY <1>2, <1>4, <1>10 DEF Ends
<1>21. QED
  BY <1>6, <1>8, <1>13, <1>14, <1>15, <1>16, <1>17, <1>18, <1>19, <1>20 DEF StatsIInv, Visits

\* The visit ends: what was let in is what its summary must hold at least.
LEMMA EndKeeps == StatsIInv /\ End => StatsIInv'
<1> SUFFICES ASSUME StatsIInv, End PROVE StatsIInv'
  OBVIOUS
<1>1. PICK s \in SlotNumbers : s = Slot(policyEpoch)
  BY StatsFacts
<1>2. /\ loopAt = "end" /\ loopAt' = "leave"
      /\ UNCHANGED <<policyEpoch, active, looping, observed, worker, finished, publisher,
                     mainAt, reported, crowded, runs>>
  BY DEF End, workerVars, publisherVars
<1>3. Types /\ Threads
  BY DEF StatsIInv
<1>4. PICK n \in Epochs : n = policyEpoch
  BY <1>2, <1>3 DEF Threads
<1>5. PICK admitted \in Books : admitted = Admitted(n)
  BY <1>4, StatsFacts, AdmittedIs
<1>6. /\ stats' \in [SlotNumbers -> SlotRecord]
      /\ SlotBecomes(s, TRUE, stats[s].writers, stats[s].epoch, stats[s].books)
  <2>1. stats' = [stats EXCEPT ![s].ended = TRUE]
    BY <1>1 DEF End
  <2>2. QED
    BY <2>1, StatsFacts, StoreEnded
<1>7. /\ closed' \in [Epochs -> SUBSET Books]
      /\ \A e \in Epochs : closed'[e] = IF e = n THEN {admitted} ELSE closed[e]
  BY <1>3, <1>4, <1>5 DEF End, Types
<1>8. Types'
  BY <1>2, <1>3, <1>6, <1>7 DEF Types, LoopAt
<1>9. \A r \in SlotNumbers :
        /\ stats'[r].ended = (stats[r].ended \/ r = s) /\ stats'[r].writers = stats[r].writers
        /\ stats'[r].books = stats[r].books /\ stats'[r].epoch = stats[r].epoch
  BY <1>6, StatsFacts, SlotIsARecord DEF SlotBecomes
<1>10. Threads'
  <2>1. policyEpoch < MaxEpoch
    BY <1>2, <1>3 DEF Threads
  <2>2. QED
    BY <1>2, <1>4, <1>9, <2>1, ThreadsStay
<1>11. closed[n] = {} /\ stats[s].epoch \in {n, 0}
  <2>1. n # 0
    BY StatsFacts
  <2>2. QED
    BY <1>1, <1>2, <1>4, <2>1, StatsFacts DEF Ends
<1>12. \A e \in Epochs : /\ Home(e)' <=> Home(e)
                         /\ Home(e) /\ e # n => Slot(e) # s
  BY <1>1, <1>2, <1>4, <1>7, <1>9, <1>11, StatsFacts DEF Home
<1>13. Home(n) => ~stats[s].ended /\ ~Looking(s) /\ ~Publishing(s)
  BY <1>1, <1>4, <1>11, StatsFacts DEF PublishedOnce, Looking
<1>14. FreshEpochs'
  <2>1. \A e \in Epochs : Fresh(e)' => Fresh(e) /\ e # n
    BY <1>2, <1>4, StatsFacts DEF Fresh, Reopening
  <2>2. QED
    BY <1>2, <1>7, <1>9, <2>1, StatsFacts DEF FreshEpochs
<1>15. PublishedOnce'
  <2> SUFFICES ASSUME NEW e \in Epochs, Home(e), NEW r \in SlotNumbers, r = Slot(e)
               PROVE
      /\ closed'[e] = {} => ~stats'[r].ended /\ ~Looking(r)
      /\ stats'[r].ended => ~Publishing(r)
      /\ closed'[e] # {} => stats'[r].ended \/ Publishing(r)
      /\ e \notin reported
      /\ \A p, q \in Publishers :
           On(p, r) /\ publisher[p].at \in PublishingAt
             /\ On(q, r) /\ publisher[q].at \in PublishingAt => p = q
      /\ \A p \in Publishers : On(p, r) /\ Reading(p) => publisher[p].epoch = e
    BY <1>2, <1>12, OthersStay, StatsFacts DEF PublishedOnce
  <2>1. /\ closed[e] = {} => ~stats[r].ended /\ ~Looking(r)
        /\ stats[r].ended => ~Publishing(r)
        /\ closed[e] # {} => stats[r].ended \/ Publishing(r)
        /\ e \notin reported
        /\ \A p, q \in Publishers :
             On(p, r) /\ publisher[p].at \in PublishingAt
               /\ On(q, r) /\ publisher[q].at \in PublishingAt => p = q
        /\ \A p \in Publishers : On(p, r) /\ Reading(p) => publisher[p].epoch = e
    BY StatsFacts DEF PublishedOnce
  <2>2. CASE e = n
    BY <1>1, <1>4, <1>7, <1>9, <1>13, <2>1, <2>2
  <2>3. CASE e # n
    BY <1>7, <1>9, <1>12, <2>1, <2>3
  <2>4. QED
    BY <2>2, <2>3
<1>16. BooksKept'
  BY <1>2, <1>9, <1>12, StatsFacts DEF BooksKept, Writing
<1>17. AdmittedAdded'
  <2> SUFFICES ASSUME NEW e \in Epochs, NEW atEnd \in closed'[e]
               PROVE  /\ AtMost(atEnd, Admitted(e)')
                      /\ Home(e) => \A p \in Publishers :
                           On(p, Slot(e))' /\ publisher'[p].at \in {"take"} \cup PublishingAt
                             => AtMost(atEnd, finished'[e])
    BY <1>12 DEF AdmittedAdded, AtMost
  <2>1. Admitted(e)' = Admitted(e) /\ \A p \in Publishers : \A r : On(p, r)' => On(p, r)
    BY <1>2 DEF Admitted, On
  <2>2. CASE e = n
    <3>1. atEnd = admitted /\ AtMost(atEnd, Admitted(e))
      BY <1>5, <1>7, <2>2, AtMostIsAnOrder
    <3>2. \A p \in Publishers :
            On(p, s) /\ publisher[p].at \in {"take"} \cup PublishingAt => Looking(s)
      BY DEF On, Looking, Publishing, PublishingAt, ReadingAt
    <3>3. QED
      BY <1>1, <1>2, <1>4, <1>13, <2>1, <2>2, <3>1, <3>2
  <2>3. CASE e # n
    <3>1. atEnd \in closed[e]
      BY <1>7, <2>3
    <3>2. /\ AtMost(atEnd, Admitted(e))
          /\ Home(e) => \A p \in Publishers :
               On(p, Slot(e)) /\ publisher[p].at \in {"take"} \cup PublishingAt
                 => AtMost(atEnd, finished[e])
      BY <3>1, StatsFacts DEF AdmittedAdded
    <3>3. QED
      BY <1>2, <2>1, <3>2
  <2>4. QED
    BY <2>2, <2>3
<1>18. ReadersRight'
  <2>1. \A p \in Publishers : \A e \in Epochs \ crowded :
          /\ Reading(p) /\ publisher[p].epoch = e => e # n
          /\ publisher[p].at = "epoch" /\ stats[publisher[p].slot].epoch = e => e # n
    BY <1>11, StatsFacts DEF ReadersRight
  <2>2. \A p \in Publishers : stats'[publisher[p].slot].epoch = stats[publisher[p].slot].epoch
    BY <1>9, StatsFacts, PublisherIsARecord
  <2>3. \A e \in Epochs : e # n => closed'[e] = closed[e]
    BY <1>7
  <2>4. QED
    BY <1>2, <1>9, <1>12, <2>1, <2>2, <2>3, OthersStay, StatsFacts DEF ReadersRight
<1>19. EndedVisits'
  <2>1. ASSUME NEW r \in SlotNumbers, NEW e \in Epochs \ crowded, stats'[r].ended, stats'[r].epoch = e
        PROVE  closed'[e] # {}
    <3>1. CASE e = n
      BY <1>7, <3>1
    <3>2. CASE e # n
      <4>1. stats[r].epoch = e /\ r # s /\ stats[r].ended
        BY <1>9, <1>11, <2>1, <3>2, StatsFacts
      <4>2. QED
        BY <1>7, <3>2, <4>1, StatsFacts DEF EndedVisits
    <3>3. QED
      BY <3>1, <3>2
  <2>2. QED
    BY <1>2, <2>1 DEF EndedVisits
<1>20. Reopened' /\ Ends'
  BY <1>2 DEF Reopened, Reopening, Ends
<1>21. QED
  BY <1>8, <1>10, <1>14, <1>15, <1>16, <1>17, <1>18, <1>19, <1>20 DEF StatsIInv, Visits

\* The slot is taken from its last visit: what that one has left to report is lost, and
\* those who are inside crowd the new visit.
LEMMA ReopenKeeps == StatsIInv /\ Reopen => StatsIInv'
<1> SUFFICES ASSUME StatsIInv, Reopen PROVE StatsIInv'
  OBVIOUS
<1>1. PICK s \in SlotNumbers : s = Slot(policyEpoch)
  BY StatsFacts
<1>2. /\ loopAt = "reopen" /\ loopAt' = "clear"
      /\ UNCHANGED <<policyEpoch, active, looping, closed, observed, worker, finished, publisher,
                     mainAt, reported, runs>>
  BY DEF Reopen, workerVars, publisherVars
<1>3. crowded' = crowded \cup (IF stats[s].ended \/ Publishing(s) THEN {stats[s].epoch} ELSE {})
                         \cup (IF Writing(s) \/ Looking(s) THEN {policyEpoch} ELSE {})
  BY <1>1 DEF Reopen
<1>4. Types /\ Threads
  BY DEF StatsIInv
<1>5. PICK n \in Epochs : n = policyEpoch
  BY <1>2, <1>4 DEF Threads
<1>6. /\ stats' \in [SlotNumbers -> SlotRecord]
      /\ SlotBecomes(s, FALSE, stats[s].writers, stats[s].epoch, stats[s].books)
  <2>1. stats' = [stats EXCEPT ![s].ended = FALSE]
    BY <1>1 DEF Reopen
  <2>2. QED
    BY <2>1, StatsFacts, StoreEnded
<1>7. Types'
  <2>1. stats[s].epoch \in 0..MaxEpoch /\ policyEpoch \in 0..MaxEpoch
    BY StatsFacts, SlotIsARecord
  <2>2. crowded' \subseteq 0..MaxEpoch
    <3>1. crowded \subseteq 0..MaxEpoch
      BY <1>4 DEF Types
    <3>2. QED
      BY <1>3, <2>1, <3>1
  <2>3. QED
    BY <1>2, <1>4, <1>6, <2>2 DEF Types, LoopAt, Reopening
<1>8. \A r \in SlotNumbers :
        /\ stats'[r].writers = stats[r].writers /\ stats'[r].books = stats[r].books
        /\ stats'[r].epoch = stats[r].epoch /\ (r # s => stats'[r].ended = stats[r].ended)
        /\ stats'[r].ended => stats[r].ended
  BY <1>6 DEF SlotBecomes
<1>9. ~stats'[s].ended
  BY <1>6 DEF SlotBecomes
<1>10. Threads'
  BY <1>2, <1>5, <1>8, ThreadsStay
<1>11. /\ crowded \subseteq crowded'
       /\ stats[s].ended \/ Publishing(s) => stats[s].epoch \in crowded'
       /\ Writing(s) \/ Looking(s) => n \in crowded'
  BY <1>3, <1>5
<1>12. \A r \in SlotNumbers : stats[r].epoch # n
  <2>1. Fresh(n)
    BY <1>2, <1>5 DEF Fresh
  <2>2. QED
    BY <2>1, StatsFacts DEF FreshEpochs
<1>13. ASSUME NEW e \in Epochs, Home(e), e \notin crowded'
       PROVE  Slot(e) # s
  <2>1. closed[e] # {} /\ stats[Slot(e)].epoch = e
    BY <1>5, <1>12, <1>13, StatsFacts DEF Home
  <2>2. stats[Slot(e)].ended \/ Publishing(Slot(e))
    BY <1>13, <2>1, StatsFacts DEF PublishedOnce
  <2>3. QED
    BY <1>11, <1>13, <2>1, <2>2
<1>14. \A e \in Epochs : /\ Home(e)' => Home(e) /\ e \notin crowded'
                         /\ Home(e) /\ e \notin crowded' => Home(e)' /\ Slot(e) # s
  BY <1>2, <1>8, <1>11, <1>13, StatsFacts DEF Home
<1>15. FreshEpochs'
  <2>1. \A e \in Epochs : Fresh(e)' => Fresh(e)
    BY <1>2 DEF Fresh
  <2>2. QED
    BY <1>2, <1>8, <2>1, StatsFacts DEF FreshEpochs
<1>16. PublishedOnce'
  <2>1. \A e \in Epochs : Home(e)' => Home(e) /\ stats'[Slot(e)].ended = stats[Slot(e)].ended
    BY <1>8, <1>14, StatsFacts
  <2>2. QED
    BY <1>2, <2>1, OthersStay, StatsFacts DEF PublishedOnce
<1>17. BooksKept'
  BY <1>2, <1>8, <1>14, StatsFacts DEF BooksKept, Writing
<1>18. AdmittedAdded'
  BY <1>2, <1>14, OthersStay, StatsFacts DEF AdmittedAdded
<1>19. ReadersRight'
  <2>1. \A p \in Publishers : stats'[publisher[p].slot].epoch = stats[publisher[p].slot].epoch
    BY <1>8, StatsFacts, PublisherIsARecord
  <2>2. \A e \in Epochs : stats'[Slot(e)].books = stats[Slot(e)].books
    BY <1>8, StatsFacts
  <2>3. \A e \in Epochs \ crowded' : e \in Epochs \ crowded
    BY <1>11
  <2>4. QED
    BY <1>2, <1>14, <2>1, <2>2, <2>3, OthersStay, StatsFacts DEF ReadersRight
<1>20. EndedVisits'
  BY <1>2, <1>8, <1>11, StatsFacts DEF EndedVisits
<1>21. Reopened'
  <2>1. ASSUME NEW e \in Epochs, e \notin crowded', stats[s].epoch = e
        PROVE  closed[e] = {}
    <3>1. e # 0
      BY StatsFacts
    <3>2. Slot(e) = s
      BY <1>4, <2>1, <3>1 DEF Threads
    <3>3. closed[e] # {} => Home(e)
      BY <1>11, <2>1, <3>2 DEF Home
    <3>4. QED
      BY <1>13, <2>1, <3>2, <3>3
  <2>2. n \notin crowded' => ~Looking(s) /\ ~Writing(s)
    BY <1>11
  <2>3. QED
    BY <1>1, <1>2, <1>5, <1>8, <1>9, <2>1, <2>2, OthersStay DEF Reopened
<1>22. Ends'
  BY <1>2, StatsFacts DEF Ends
<1>23. QED
  BY <1>7, <1>10, <1>15, <1>16, <1>17, <1>18, <1>19, <1>20, <1>21, <1>22 DEF StatsIInv, Visits

\* A new epoch: nothing has heard of it, and the last one is over.
LEMMA BeginKeeps ==
  ASSUME StatsIInv, policyEpoch < MaxEpoch, policyEpoch' = policyEpoch + 1,
         loopAt' \in {"idle", "reopen"}, active' \in Motions \cup {NONE},
         UNCHANGED <<stats, looping, closed, observed, worker, finished, publisher,
                     mainAt, reported, crowded, runs>>
  PROVE  StatsIInv'
<1>1. Types /\ Threads
  BY DEF StatsIInv
<1>2. PICK n \in Epochs : n = policyEpoch + 1
  BY StatsFacts, StatsAssumption DEF Epochs
<1>3. policyEpoch' \in 0..MaxEpoch
  BY <1>2, SlotsHaveNumbers
<1>4. Types'
  BY <1>1, <1>3 DEF Types, LoopAt
<1>5. Threads'
  BY <1>2, ThreadsStay
<1>6. Fresh(n) /\ \A e \in Epochs : Fresh(e)' => Fresh(e)
  <2>1. n > policyEpoch /\ \A e \in Epochs : e > policyEpoch' \/ e = policyEpoch' => e > policyEpoch
    BY <1>2, StatsFacts
  <2>2. QED
    BY <2>1 DEF Fresh
<1>7. closed[n] = {} /\ \A s \in SlotNumbers : stats[s].epoch # n
  BY <1>6, StatsFacts DEF FreshEpochs
<1>8. \A e \in Epochs : /\ Home(e)' => Home(e)
                        /\ Home(e) /\ closed[e] # {} => Home(e)'
  BY <1>2, <1>7, StatsFacts DEF Home
<1>9. FreshEpochs'
  BY <1>6, StatsFacts DEF FreshEpochs
<1>10. PublishedOnce'
  BY <1>8, OthersStay, StatsFacts DEF PublishedOnce
<1>11. BooksKept'
  BY <1>8, StatsFacts DEF BooksKept, Writing
<1>12. AdmittedAdded'
  BY <1>8, OthersStay, StatsFacts DEF AdmittedAdded
<1>13. ReadersRight'
  BY <1>8, OthersStay, StatsFacts DEF ReadersRight
<1>14. EndedVisits'
  BY StatsFacts DEF EndedVisits
<1>15. Reopened'
  BY DEF Reopened, Reopening
<1>16. Ends'
  BY <1>2, <1>7 DEF Ends
<1>17. QED
  BY <1>4, <1>5, <1>9, <1>10, <1>11, <1>12, <1>13, <1>14, <1>15, <1>16 DEF StatsIInv, Visits

\* enterPolicyMode() and every other new epoch.
LEMMA EpochsKeep ==
  ASSUME StatsIInv, NextEpoch \/ \E policy \in Motions : Enter(policy)
  PROVE  StatsIInv'
<1>1. Types /\ Threads
  BY DEF StatsIInv
<1>2. CASE NextEpoch
  <2>1. policyEpoch < MaxEpoch
    BY <1>1, <1>2 DEF NextEpoch, Threads
  <2>2. QED
    BY <1>2, <2>1, BeginKeeps DEF NextEpoch, workerVars, publisherVars
<1>3. CASE \E policy \in Motions : Enter(policy)
  BY <1>3, BeginKeeps DEF Enter, workerVars, publisherVars
<1>4. QED
  BY <1>2, <1>3

-----------------------------------------------------------------------------
(* The invariant holds. *)

\* No slot is in use, and no thread is at one.
LEMMA StatsInitially == Init => StatsIInv
<1> SUFFICES ASSUME Init PROVE StatsIInv
  OBVIOUS
<1>1. /\ stats = [s \in SlotNumbers |-> Free]
      /\ policyEpoch = 0 /\ active = NONE /\ loopAt = "idle" /\ looping = TRUE
      /\ observed = {} /\ worker = Idle /\ runs = 0
      /\ publisher = [p \in Publishers |-> Pass]
      /\ mainAt = "up" /\ reported = {} /\ crowded = {}
      /\ finished = [e \in Epochs |-> NoRuns] /\ closed = [e \in Epochs |-> {}]
  BY DEF Init, SlotNumbers
<1>2. 0 \in SlotNumbers /\ 0 \in 0..MaxEpoch /\ 0 \in 0..Width - 1 /\ 0 \in 0..MaxRuns
      /\ 0 \notin Epochs
  BY SlotsHaveNumbers, StatsAssumption
<1>3. /\ Free \in SlotRecord /\ ~Free.ended /\ Free.epoch = 0
      /\ Idle \in WorkerRecord /\ Idle.at = "idle" /\ Idle.epoch = 0 /\ ~Idle.counts
      /\ Pass \in PublisherRecord /\ Pass.at = "ended" /\ Pass.slot = 0 /\ Pass.epoch = 0
      /\ Pass.read = NoRuns
  BY <1>2, NothingAdded DEF Free, Idle, Pass, SlotRecord, WorkerRecord, PublisherRecord
<1>4. /\ \A s \in SlotNumbers : ~stats[s].ended /\ stats[s].epoch = 0
      /\ \A p \in Publishers : publisher[p].at = "ended" /\ publisher[p].epoch = 0
                               /\ publisher[p].read = NoRuns
      /\ \A e \in Epochs : closed[e] = {} /\ finished[e] = NoRuns /\ e # 0
      /\ worker.at = "idle" /\ worker.epoch = 0 /\ ~worker.counts
  BY <1>1, <1>2, <1>3
<1>5. Types
  <2>1. stats \in [SlotNumbers -> SlotRecord] /\ publisher \in [Publishers -> PublisherRecord]
        /\ finished \in [Epochs -> Books] /\ closed \in [Epochs -> SUBSET Books]
        /\ worker \in WorkerRecord
    BY <1>1, <1>3, NothingAdded
  <2>2. QED
    BY <1>1, <1>2, <2>1 DEF Types, LoopAt
<1>6. /\ \A p \in Publishers : ~Reading(p) /\ publisher[p].at # "epoch"
      /\ \A e \in Epochs : ~Home(e)
      /\ loopAt \notin Reopening /\ loopAt \notin {"reopen", "end", "leave"}
  <2>1. \A e \in Epochs : Slot(e) \in SlotNumbers
    BY SlotsHaveNumbers
  <2>2. \A e \in Epochs : ~Home(e)
    BY <1>4, <2>1 DEF Home
  <2>3. QED
    BY <1>1, <1>4, <2>2 DEF Reading, ReadingAt, Reopening
<1>7. Threads
  BY <1>1, <1>4, <1>6 DEF Threads
<1>8. FreshEpochs
  BY <1>1, <1>4 DEF FreshEpochs
<1>9. PublishedOnce /\ BooksKept /\ AdmittedAdded
  BY <1>4, <1>6 DEF PublishedOnce, BooksKept, AdmittedAdded
<1>10. ReadersRight /\ EndedVisits /\ Reopened /\ Ends
  BY <1>1, <1>4, <1>6 DEF ReadersRight, EndedVisits, Reopened, Ends
<1>11. QED
  BY <1>5, <1>7, <1>8, <1>9, <1>10 DEF StatsIInv, Visits

\* Every step of every thread keeps the invariant.
LEMMA StatsStep == StatsIInv /\ [Next]_vars => StatsIInv'
<1> SUFFICES ASSUME StatsIInv, [Next]_vars PROVE StatsIInv'
  OBVIOUS
<1>1. CASE NextEpoch \/ \E policy \in Motions : Enter(policy)
  BY <1>1, EpochsKeep
<1>2. CASE Reopen
  BY <1>2, ReopenKeeps
<1>3. CASE ClearBooks \/ ClearWriters \/ StorePolicy
  BY <1>3, ClearingKeeps
<1>4. CASE StoreEpoch
  BY <1>4, StoreEpochKeeps
<1>5. CASE Submit \/ Leave
  BY <1>5, SubmitKeeps, LeaveKeeps
<1>6. CASE End
  BY <1>6, EndKeeps
<1>7. CASE StartRun
  BY <1>7, StartRunKeeps
<1>8. CASE Accumulate
  BY <1>8, EnterSlotKeeps, CheckVisitKeeps, CheckEndedKeeps, AddKeeps, LeaveSlotKeeps DEF Accumulate
<1>9. CASE \E p \in Publishers : Publish(p)
  <2>1. PICK p \in Publishers : Publish(p)
    BY <1>9
  <2>2. CASE LookAtEnded(p) \/ LookAtWriters(p)
    BY <2>2, LooksKeep
  <2>3. CASE Take(p)
    BY <2>3, TakeKeeps
  <2>4. CASE ReadEpoch(p)
    BY <2>4, ReadEpochKeeps
  <2>5. CASE Read(p, "total", "samples") \/ Read(p, "samples", "failures")
             \/ Read(p, "failures", "report")
    BY <2>5, ReadKeeps
  <2>6. CASE Report(p)
    BY <2>6, ReportKeeps
  <2>7. QED
    BY <2>1, <2>2, <2>3, <2>4, <2>5, <2>6 DEF Publish
<1>10. CASE NextPass
  BY <1>10, NextPassKeeps
<1>11. CASE StopLoop \/ JoinWorker \/ StopTimer \/ JoinTimer \/ UNCHANGED vars
  BY <1>11, ShutdownKeeps
<1>12. QED
  BY <1>1, <1>2, <1>3, <1>4, <1>5, <1>6, <1>7, <1>8, <1>9, <1>10, <1>11 DEF Next, Terminated

\* So it always holds.
LEMMA AlwaysStatsIInv == Spec => []StatsIInv
  BY StatsInitially, StatsStep, PTL DEF Spec

\* The types it holds are those of InferenceStats.
LEMMA TypesInFull == Types => TypeOK
  BY DEF Types, TypeOK, SlotNumbers, SlotRecord, WorkerRecord, PublisherRecord, LoopAt, Reopening

\* Every variable of the statistics keeps its type, the slots within their number and the
\* writer counts within their width.
THEOREM StatisticsKeepTypes == Spec => []TypeOK
<1>1. StatsIInv => TypeOK
  BY TypesInFull DEF StatsIInv
<1>2. QED
  BY <1>1, AlwaysStatsIInv, PTL

\* A summary of a visit that had its slot to itself holds every run that was let in before
\* the visit ended, in all three numbers, and none that was not made
\* (publishCompletedPolicyInferenceStats against accumulatePolicyInferenceStats).
THEOREM SummariesCountTheRuns == Spec => []SummariesAreTrue
<1>1. ASSUME StatsIInv
      PROVE  SummariesAreTrue
  <2> SUFFICES ASSUME NEW p \in Publishers, publisher[p].at = "report",
                      publisher[p].epoch \notin crowded, NEW e, e = publisher[p].epoch
               PROVE  /\ \A atEnd \in closed[e] : AtMost(atEnd, publisher[p].read)
                      /\ AtMost(publisher[p].read, Counting(e))
    BY DEF SummariesAreTrue, AtMost
  <2>1. Reading(p)
    BY DEF Reading, ReadingAt
  <2>2. e \in Epochs \ crowded
    BY <1>1, <2>1 DEF StatsIInv, Threads
  <2>3. /\ Home(e) /\ AtMost(publisher[p].read, stats[Slot(e)].books)
        /\ \A atEnd \in closed[e] : AtMost(atEnd, publisher[p].read)
    <3>1. ReadersRight
      BY <1>1, StatsFacts
    <3>2. /\ Home(e) /\ AtMost(publisher[p].read, stats[Slot(e)].books)
          /\ \A atEnd \in closed[e] : /\ atEnd.total <= publisher[p].read.total
                                      /\ atEnd.samples <= publisher[p].read.samples
                                      /\ atEnd.failures <= publisher[p].read.failures
      BY <2>1, <2>2, <3>1 DEF ReadersRight
    <3>3. QED
      BY <3>2, AtMostByNumber
  <2>4. AtMost(stats[Slot(e)].books, Counting(e)) /\ Counting(e) \in Books
    <3>1. PICK done \in Books : done = finished[e]
      BY <1>1, <2>2, StatsFacts
    <3>2. /\ worker.failed \in BOOLEAN
          /\ stats[Slot(e)].books.total = done.total
               + One(worker.epoch = e /\ (worker.at \in {"samples", "failures"} \/ worker.counts))
          /\ stats[Slot(e)].books.samples = done.samples + One(worker.epoch = e /\ worker.counts)
          /\ stats[Slot(e)].books.failures = done.failures
               + One(worker.epoch = e /\ worker.counts /\ worker.failed /\ worker.at = "leave")
      BY <1>1, <2>2, <2>3, <3>1, StatsFacts DEF BooksKept
    <3>3. worker.counts => worker.at \in {"failures", "leave"}
      BY <1>1 DEF StatsIInv, Threads
    <3>4. done.total \in Nat /\ done.samples \in Nat /\ done.failures \in Nat
      BY DEF Books
    <3>5. CASE worker.epoch = e /\ worker.at \notin {"idle", "run"}
      <4>1. Counting(e) = Plus(done, worker.failed)
        BY <3>1, <3>5 DEF Counting
      <4>2. QED
        BY <3>2, <3>4, <4>1, OneMore, AtMostByNumber DEF One
    <3>6. CASE ~(worker.epoch = e /\ worker.at \notin {"idle", "run"})
      <4>1. Counting(e) = done
        BY <3>1, <3>6 DEF Counting
      <4>2. QED
        BY <3>2, <3>3, <3>4, <3>6, <4>1, AtMostByNumber DEF One
    <3>7. QED
      BY <3>5, <3>6
  <2>5. AtMost(publisher[p].read, Counting(e))
    <3>1. Slot(e) \in SlotNumbers /\ publisher[p].read \in Books
      BY <1>1, <2>2, StatsFacts, PublisherIsARecord
    <3>2. stats[Slot(e)].books \in Books
      BY <1>1, <3>1, StatsFacts, SlotIsARecord
    <3>3. QED
      BY <2>3, <2>4, <3>1, <3>2, AtMostIsAnOrder
  <2>6. QED
    BY <2>3, <2>5
<1>2. QED
  BY <1>1, AlwaysStatsIInv, PTL

\* A visit that had its slot to itself is reported after its end and once, whichever of the
\* timer thread and the shutdown of the main thread gets to it.
THEOREM VisitsAreReportedOnce == Spec => ReportedOnce
<1>1. ASSUME StatsIInv, NEW p \in Publishers, publisher[p].at = "report",
             publisher[p].epoch \notin crowded
      PROVE  closed[publisher[p].epoch] # {} /\ publisher[p].epoch \notin reported
  <2>1. Reading(p)
    BY <1>1 DEF Reading, ReadingAt
  <2>2. PICK e \in Epochs \ crowded : e = publisher[p].epoch
    BY <1>1, <2>1 DEF StatsIInv, Threads
  <2>3. Home(e) /\ closed[e] # {}
    BY <1>1, <2>1, <2>2, StatsFacts DEF ReadersRight
  <2>4. e \notin reported
    BY <1>1, <2>3, StatsFacts DEF PublishedOnce
  <2>5. QED
    BY <2>2, <2>3, <2>4
<1>2. StatsIInv /\ [Next]_vars =>
        [\A p \in Publishers :
           Reports(p) /\ publisher[p].epoch \notin crowded =>
             closed[publisher[p].epoch] # {} /\ publisher[p].epoch \notin reported]_vars
  BY <1>1 DEF Reports
<1>3. QED
  BY <1>2, AlwaysStatsIInv, PTL DEF Spec, ReportedOnce


-----------------------------------------------------------------------------
(* The motors' log. *)

Event == {"FAULT", "FAULT_CHANGED", "FAULT_REPEAT", "RECOVERED", "STATUS"}
Record == [joint: Joints, event: Event, code: Codes]

LogTypes ==
  /\ logStatus \in BOOLEAN /\ cycling \in BOOLEAN /\ next \in Joints
  /\ fault \in [Joints -> [code: Codes, samples: 0..Stride - 1, age: 0..Period]]
  /\ statusAge \in [Joints -> 0..Period]
  /\ queue \in Seq(Record) /\ dropped \in BOOLEAN /\ stop \in BOOLEAN
  /\ workerAt \in {"write", "take", "announce", "drain", "ended"}
  /\ batch \in Seq(Record)
  /\ reader \in [Joints -> Codes \cup {UNSURE}] /\ older \in Nat

\* The loop has ended before the logger stops, and the worker ends with nothing left.
Ending ==
  /\ stop => ~cycling
  /\ workerAt \in {"drain", "ended"} => stop /\ batch = <<>>
  /\ workerAt = "ended" => queue = <<>>
  /\ workerAt = "take" => Len(batch) <= BatchSize

\* The records on their way, in the order in which they are written.
Size == Len(batch) + Len(queue)
Line(i) == IF i <= Len(batch) THEN batch[i] ELSE queue[i - Len(batch)]

\* Position i is the last one before k that says anything of the motor; the older records,
\* and what the reader knows already, stand for one.
Source(j, i, k) ==
  /\ older <= i /\ i < k
  /\ i = older \/ Line(i).joint = j
  /\ \A m \in i + 1..k - 1 : Line(m).joint # j
Says(j, i) == IF i = older THEN reader[j] ELSE Line(i).code

Follows(known, r) ==
  \/ known = UNSURE
  \/ r.event \in {"FAULT", "STATUS"} /\ known = OK
  \/ r.event = "FAULT_CHANGED" /\ known \notin {OK, r.code}
  \/ r.event = "FAULT_REPEAT" /\ known = r.code
  \/ r.event = "RECOVERED" /\ known # OK

Linked(n) ==
  \A k \in older + 1..n : \A i \in older..Size :
    Source(Line(k).joint, i, k) => Follows(Says(Line(k).joint, i), Line(k))

\* The last word on its way is what the motor last said.
LastIs ==
  \A j \in Joints : \A i \in older..Size :
    Source(j, i, Size + 1) => Says(j, i) \in {UNSURE, fault[j].code}

Story ==
  /\ older <= Size
  /\ older > 0 => \A j \in Joints : reader[j] = UNSURE
  /\ ~dropped => Linked(Size) /\ LastIs
  /\ workerAt = "write" => Linked(Len(batch))

LogIInv == LogTypes /\ Ending /\ Story

\* The records on their way are records.
LEMMA LinesAreRecords ==
  ASSUME batch \in Seq(Record), queue \in Seq(Record)
  PROVE  /\ Size \in Nat
         /\ \A i \in 1..Size : Line(i) \in Record
  BY DEF Size, Line

\* A step that leaves the reader and the lines there are alone.
LEMMA LinesStay ==
  ASSUME LogTypes, Story, reader' = reader, older' = older,
         NEW n \in Nat, Size = n, Size' \in Nat, Size' >= n,
         \A i \in 1..n : Line(i)' = Line(i)
  PROVE  /\ older' <= Size'
         /\ older' > 0 => \A j \in Joints : reader'[j] = UNSURE
         /\ \A m \in 0..n : Linked(m) => Linked(m)'
         /\ LastIs /\ Size' = n /\ (\A j \in Joints : fault'[j].code = fault[j].code) => LastIs'
<1>1. older \in Nat /\ older <= n /\ \A i \in 1..n : Line(i) \in Record
  BY LinesAreRecords DEF LogTypes, Story
<1>2. ASSUME NEW j \in Joints, NEW i \in older..n, NEW k \in older + 1..n + 1, Source(j, i, k)'
      PROVE  Source(j, i, k)
  BY <1>1, <1>2 DEF Source
<1>3. ASSUME NEW j \in Joints, NEW i \in older..n
      PROVE  Says(j, i)' = Says(j, i)
  BY <1>1 DEF Says
<1>4. ASSUME NEW m \in 0..n, Linked(m)
      PROVE  Linked(m)'
  <2> SUFFICES ASSUME NEW k \in older + 1..m, NEW i \in older..Size', Source(Line(k).joint, i, k)'
               PROVE  Follows(Says(Line(k).joint, i), Line(k))'
    BY DEF Linked
  <2>1. PICK j \in Joints : j = Line(k)'.joint
    BY <1>1 DEF Record
  <2>2. Line(k)' = Line(k) /\ Source(j, i, k)'
    BY <2>1, <1>1 DEF Source
  <2>3. i \in older..n /\ k \in older + 1..n + 1
    BY <2>2, <1>1 DEF Source
  <2>4. Source(j, i, k) /\ Says(j, i)' = Says(j, i)
    BY <2>2, <2>3, <1>2, <1>3
  <2>5. Follows(Says(j, i), Line(k))
    BY <2>1, <2>2, <2>3, <2>4, <1>4 DEF Linked
  <2>6. Says(Line(k).joint, i)' = Says(j, i)'
    BY <2>1 DEF Says
  <2>7. QED
    BY <2>2, <2>4, <2>5, <2>6 DEF Follows
<1>5. ASSUME LastIs, Size' = n, \A j \in Joints : fault'[j].code = fault[j].code
      PROVE  LastIs'
  <2> SUFFICES ASSUME NEW j \in Joints, NEW i \in older..n, Source(j, i, Size + 1)'
               PROVE  Says(j, i)' \in {UNSURE, fault'[j].code}
    BY <1>5 DEF LastIs
  <2>1. n + 1 \in older + 1..n + 1 /\ Source(j, i, n + 1)'
    BY <1>1, <1>5 DEF Source
  <2>2. Source(j, i, n + 1) /\ Says(j, i)' = Says(j, i)
    BY <2>1, <1>2, <1>3
  <2>3. QED
    BY <2>2, <1>5 DEF LastIs
<1>6. QED
  BY <1>1, <1>4, <1>5 DEF Story

\* Writing the first line: what it says is what the reader knows then.
LEMMA FirstLineWritten ==
  ASSUME LogTypes, LogTypes', Story, UNCHANGED fault,
         Size >= 1, Size' = Size - 1,
         \A i \in 1..Size - 1 : Line(i)' = Line(i + 1),
         Written(Line(1))
  PROVE  /\ older' <= Size'
         /\ older' > 0 => \A j \in Joints : reader'[j] = UNSURE
         /\ \A n \in 1..Size : Linked(n) => Linked(n - 1)'
         /\ LastIs => LastIs'
<1>1. Size \in Nat /\ older \in Nat /\ \A i \in 1..Size : Line(i) \in Record
  BY LinesAreRecords DEF LogTypes
<1>2. older' = IF older = 0 THEN 0 ELSE older - 1
  BY <1>1 DEF Written
<1>3. \A j \in Joints : reader'[j] = IF older = 0 /\ Line(1).joint = j THEN Line(1).code
                                     ELSE reader[j]
  BY <1>1 DEF Written, LogTypes, Record
<1>4. older' <= Size'
  BY <1>1, <1>2 DEF Story
<1>5. older' > 0 => \A j \in Joints : reader'[j] = UNSURE
  BY <1>1, <1>2, <1>3 DEF Story
<1>6. ASSUME NEW j \in Joints, NEW k \in older' + 1..Size' + 1, NEW i \in older'..Size',
             Source(j, i, k)'
      PROVE  \E h \in older..Size : Source(j, h, k + 1) /\ Says(j, h) = Says(j, i)'
  <2>1. \A m \in i + 1..k - 1 : Line(m + 1).joint # j
    BY <1>1, <1>2, <1>6 DEF Source
  <2>2. i < k /\ (i = older' \/ Line(i)'.joint = j)
    BY <1>6 DEF Source
  <2>3. \A m \in i + 2..k : Line(m).joint # j
    <3>1. ASSUME NEW m \in i + 2..k
          PROVE  Line(m).joint # j
      <4>1. m - 1 \in i + 1..k - 1 /\ (m - 1) + 1 = m
        BY <1>1, <1>2
      <4>2. QED
        BY <4>1, <2>1
    <3>2. QED
      BY <3>1
  <2>4. CASE older = 0 /\ i = 0 /\ Line(1).joint # j
    <3>1. \A m \in 1..k : Line(m).joint # j
      BY <2>3, <2>4, <1>1, <1>2
    <3>2. Source(j, 0, k + 1)
      BY <2>4, <3>1, <1>1, <1>2 DEF Source
    <3>3. Says(j, 0) = Says(j, i)'
      BY <2>4, <1>2, <1>3 DEF Says
    <3>4. QED
      BY <2>4, <3>2, <3>3, <1>1
  <2>5. CASE older = 0 /\ i = 0 /\ Line(1).joint = j
    <3>1. Source(j, 1, k + 1)
      BY <2>5, <2>3, <1>1, <1>2 DEF Source
    <3>2. Says(j, 1) = Says(j, i)'
      BY <2>5, <1>2, <1>3 DEF Says
    <3>3. QED
      BY <2>5, <3>1, <3>2, <1>1
  <2>6. CASE older = 0 /\ i # 0
    <3>1. Line(i)' = Line(i + 1) /\ i + 1 \in 1..Size
      BY <2>6, <1>1, <1>2
    <3>2. Source(j, i + 1, k + 1)
      BY <2>6, <2>2, <2>3, <3>1, <1>1, <1>2 DEF Source
    <3>3. Says(j, i + 1) = Says(j, i)'
      BY <2>6, <3>1, <1>1, <1>2 DEF Says
    <3>4. QED
      BY <2>6, <3>1, <3>2, <3>3, <1>1
  <2>7. CASE older # 0
    <3>1. i + 1 \in older..Size /\ (i # older' => Line(i)' = Line(i + 1))
      BY <2>7, <1>1, <1>2
    <3>2. Source(j, i + 1, k + 1)
      BY <2>7, <2>2, <2>3, <3>1, <1>1, <1>2 DEF Source
    <3>3. Says(j, i + 1) = Says(j, i)'
      BY <2>7, <3>1, <1>1, <1>2, <1>3 DEF Says
    <3>4. QED
      BY <3>1, <3>2, <3>3
  <2>8. QED
    BY <2>4, <2>5, <2>6, <2>7
<1>7. ASSUME NEW n \in 1..Size, Linked(n)
      PROVE  Linked(n - 1)'
  <2> SUFFICES ASSUME NEW k \in older' + 1..n - 1, NEW i \in older'..Size',
                      Source(Line(k).joint, i, k)'
               PROVE  Follows(Says(Line(k).joint, i), Line(k))'
    BY DEF Linked
  <2>1. PICK j \in Joints : j = Line(k + 1).joint /\ j = Line(k)'.joint
    BY <1>1, <1>2 DEF Record
  <2>2. Line(k)' = Line(k + 1) /\ k + 1 \in older + 1..n /\ Source(j, i, k)'
    BY <2>1, <1>1, <1>2 DEF Source
  <2>3. PICK h \in older..Size : Source(j, h, k + 1) /\ Says(j, h) = Says(j, i)'
    <3>1. k \in older' + 1..Size' + 1
      BY <1>1, <1>2
    <3>2. QED
      BY <2>2, <1>6, <3>1
  <2>4. Follows(Says(j, h), Line(k + 1))
    BY <2>1, <2>2, <2>3, <1>7 DEF Linked
  <2>5. Says(Line(k).joint, i)' = Says(j, i)'
    BY <2>1 DEF Says
  <2>6. QED
    BY <2>2, <2>3, <2>4, <2>5 DEF Follows
<1>8. ASSUME LastIs
      PROVE  LastIs'
  <2> SUFFICES ASSUME NEW j \in Joints, NEW i \in older'..Size', Source(j, i, Size + 1)'
               PROVE  Says(j, i)' \in {UNSURE, fault[j].code}
    BY DEF LastIs
  <2>1. PICK k \in Nat : k = Size' + 1 /\ k = Size
    BY <1>1
  <2>2. Source(j, i, k)' /\ k \in older' + 1..Size' + 1
    BY <2>1, <1>1, <1>2, <1>4 DEF Source
  <2>3. PICK h \in older..Size : Source(j, h, k + 1) /\ Says(j, h) = Says(j, i)'
    BY <2>2, <1>6
  <2>4. Says(j, h) \in {UNSURE, fault[j].code}
    BY <2>1, <2>3, <1>8 DEF LastIs
  <2>5. QED
    BY <2>3, <2>4
<1>9. QED
  BY <1>4, <1>5, <1>7, <1>8

\* Queueing a record: it follows what was the last word on its motor, and is it then.
LEMMA LineQueued ==
  ASSUME LogTypes, LogTypes', Story, ~dropped,
         reader' = reader, older' = older,
         NEW n \in Nat, Size = n, Size' = n + 1,
         \A i \in 1..n : Line(i)' = Line(i),
         NEW r \in Record, Line(n + 1)' = r, Follows(fault[r.joint].code, r),
         fault'[r.joint].code = r.code,
         \A j \in Joints \ {r.joint} : fault'[j].code = fault[j].code
  PROVE  older' <= Size' /\ Linked(Size)' /\ LastIs'
<1>1. /\ older \in Nat /\ older <= n /\ Linked(n) /\ LastIs /\ r.joint \in Joints
      /\ \A i \in 1..n : Line(i) \in Record
  BY LinesAreRecords DEF LogTypes, Story, Record
<1>2. ASSUME NEW j \in Joints, NEW i \in older..n, NEW k \in older + 1..n + 1,
             Source(j, i, k)'
      PROVE  Source(j, i, k) /\ Says(j, i)' = Says(j, i)
  BY <1>1, <1>2 DEF Source, Says
<1>3. ASSUME NEW j \in Joints, NEW i \in older..n, Source(j, i, n + 1)'
      PROVE  Says(j, i)' \in {UNSURE, fault[j].code}
  <2>1. n + 1 \in older + 1..n + 1
    BY <1>1
  <2>2. QED
    BY <1>1, <1>2, <1>3, <2>1 DEF LastIs
<1>4. Linked(Size)'
  <2> SUFFICES ASSUME NEW k \in older + 1..n + 1, NEW i \in older..n + 1,
                      Source(Line(k).joint, i, k)'
               PROVE  Follows(Says(Line(k).joint, i), Line(k))'
    BY DEF Linked
  <2>1. i \in older..n /\ Line(k)' \in Record
    BY <1>1 DEF Source
  <2>2. PICK j \in Joints : j = Line(k)'.joint
    BY <2>1 DEF Record
  <2>3. Source(j, i, k)'
    BY <2>2 DEF Source
  <2>4. Source(j, i, k) /\ Says(j, i)' = Says(j, i)
    BY <1>2, <2>1, <2>3
  <2>5. Follows(Says(j, i), Line(k)')
    <3>1. CASE k = n + 1
      BY <1>1, <1>3, <2>1, <2>2, <2>3, <2>4, <3>1 DEF Follows
    <3>2. CASE k \in older + 1..n
      BY <1>1, <2>1, <2>2, <2>4, <3>2 DEF Linked
    <3>3. QED
      BY <1>1, <3>1, <3>2
  <2>6. Says(Line(k).joint, i)' = Says(j, i)'
    BY <2>2 DEF Says
  <2>7. QED
    BY <2>4, <2>5, <2>6 DEF Follows
<1>5. LastIs'
  <2> SUFFICES ASSUME NEW j \in Joints, NEW i \in older..n + 1, Source(j, i, Size + 1)'
               PROVE  Says(j, i)' \in {UNSURE, fault'[j].code}
    BY DEF LastIs
  <2>1. /\ older <= i /\ (i = older \/ Line(i)'.joint = j)
        /\ \A m \in i + 1..n + 1 : Line(m)'.joint # j
    BY DEF Source
  <2>2. CASE j = r.joint
    <3>1. i = n + 1
      BY <2>1, <2>2, <1>1
    <3>2. QED
      BY <2>2, <3>1, <1>1 DEF Says
  <2>3. CASE j # r.joint
    <3>1. i \in older..n
      BY <2>1, <2>3, <1>1
    <3>2. Source(j, i, n + 1)'
      BY <2>1, <3>1, <1>1 DEF Source
    <3>3. QED
      BY <1>3, <2>3, <3>1, <3>2
  <2>4. QED
    BY <2>2, <2>3
<1>6. QED
  BY <1>1, <1>4, <1>5

LEMMA LogInitially == LogInit => LogIInv
<1> SUFFICES ASSUME LogInit PROVE LogIInv
  OBVIOUS
<1>1. 1 \in Joints /\ OK \in Codes /\ 0 \in 0..Stride - 1 /\ 0 \in 0..Period /\ Period \in 0..Period
  BY MotorLogAssumption DEF Joints, Codes
<1>2. LogTypes
  <2>1. fault \in [Joints -> [code: Codes, samples: 0..Stride - 1, age: 0..Period]]
    BY <1>1 DEF LogInit, NoFault
  <2>2. statusAge \in [Joints -> 0..Period]
    BY <1>1 DEF LogInit
  <2>3. reader \in [Joints -> Codes \cup {UNSURE}]
    BY <1>1 DEF LogInit
  <2>4. queue \in Seq(Record) /\ batch \in Seq(Record)
    BY DEF LogInit
  <2>5. logStatus \in BOOLEAN
    BY MotorLogAssumption DEF LogInit
  <2>6. QED
    BY <1>1, <2>1, <2>2, <2>3, <2>4, <2>5 DEF LogInit, LogTypes
<1>3. Ending
  BY DEF LogInit, Ending
<1>4. Story
  BY <1>1 DEF LogInit, Story, Size, Linked, LastIs, Source, Says, Line, NoFault
<1>5. QED
  BY <1>2, <1>3, <1>4 DEF LogIInv

LEMMA AgesAndCounts ==
  /\ \A n \in 0..Stride - 1 : Counted(n) \in 0..Stride - 1
  /\ \A age \in 0..Period : Older(age) \in 0..Period
  /\ \A j \in Joints : (j % NumJoints) + 1 \in Joints
<1>1. \A n \in 0..Stride - 1 : Counted(n) \in 0..Stride - 1
  BY MotorLogAssumption DEF Counted
<1>2. \A age \in 0..Period : Older(age) \in 0..Period
  BY MotorLogAssumption DEF Older
<1>3. \A j \in Joints : (j % NumJoints) + 1 \in Joints
  BY MotorLogAssumption DEF Joints
<1>4. QED
  BY <1>1, <1>2, <1>3

LEMMA EnqueueTypes ==
  ASSUME LogTypes, NEW r \in Record, Enqueue(r.joint, r.event, r.code)
  PROVE  queue' \in Seq(Record) /\ dropped' \in BOOLEAN
<1>1. [joint |-> r.joint, event |-> r.event, code |-> r.code] \in Record
  BY DEF Record
<1>2. CASE Len(queue) < Places
  <2>1. queue \in Seq(Record)
    BY DEF LogTypes
  <2>2. Append(queue, [joint |-> r.joint, event |-> r.event, code |-> r.code]) \in Seq(Record)
    BY <1>1, <2>1
  <2>3. QED
    BY <1>2, <2>2 DEF Enqueue, LogTypes
<1>3. CASE ~(Len(queue) < Places)
  BY <1>3 DEF Enqueue, Refused, LogTypes
<1>4. QED
  BY <1>2, <1>3

LEMMA LogTypesHold == LogIInv /\ [LogNext]_logVars => LogTypes'
<1> SUFFICES ASSUME LogTypes, [LogNext]_logVars
             PROVE  LogTypes'
  BY DEF LogIInv
<1> USE DEF loggerVars, producerVars
<1>1. CASE UnpackMotor
  <2> PICK c \in Codes : \/ FaultBegins(next, c) \/ FaultLasts(next, c)
                         \/ FaultEnds(next, c) \/ NoFaultSeen(next, c)
    BY <1>1 DEF UnpackMotor
  <2>1. /\ next' \in Joints /\ 0 \in 0..Stride - 1 /\ 0 \in 0..Period
        /\ OK \in Codes /\ Faults \subseteq Codes
    BY <1>1, AgesAndCounts, MotorLogAssumption DEF UnpackMotor, LogTypes, Codes
  <2>2. UNCHANGED <<logStatus, cycling, stop, workerAt, batch, reader, older>>
    BY <1>1 DEF UnpackMotor
  <2>3. /\ fault' \in [Joints -> [code: Codes, samples: 0..Stride - 1, age: 0..Period]]
        /\ statusAge' \in [Joints -> 0..Period]
    <3> DEFINE States == [code: Codes, samples: 0..Stride - 1, age: 0..Period]
    <3>1. fault \in [Joints -> States] /\ next \in Joints /\ statusAge \in [Joints -> 0..Period]
      BY DEF LogTypes
    <3>2. NoFault \in States /\ (c \in Faults => [code |-> c, samples |-> 0, age |-> 0] \in States)
      BY <2>1 DEF NoFault
    <3>3. [fault[next] EXCEPT !.samples = Counted(@)] \in States
      BY <3>1, AgesAndCounts
    <3> HIDE DEF States
    <3>4. fault' \in [Joints -> States]
      <4>1. CASE FaultBegins(next, c)
        BY <3>1, <3>2, <4>1 DEF FaultBegins
      <4>2. CASE FaultLasts(next, c)
        BY <3>1, <3>2, <3>3, <4>2 DEF FaultLasts
      <4>3. CASE FaultEnds(next, c)
        BY <3>1, <3>2, <4>3 DEF FaultEnds, Recovered
      <4>4. CASE NoFaultSeen(next, c)
        BY <3>1, <4>4 DEF NoFaultSeen
      <4>5. QED
        BY <4>1, <4>2, <4>3, <4>4
    <3>5. statusAge' \in [Joints -> 0..Period]
      BY <2>1, <3>1 DEF FaultBegins, FaultLasts, FaultEnds, NoFaultSeen
    <3>6. QED
      BY <3>4, <3>5 DEF States
  <2>4. queue' \in Seq(Record) /\ dropped' \in BOOLEAN
    <3>1. ASSUME NEW e \in Event, Enqueue(next, e, c)
          PROVE  queue' \in Seq(Record) /\ dropped' \in BOOLEAN
      <4> DEFINE r == [joint |-> next, event |-> e, code |-> c]
      <4>1. r \in Record /\ Enqueue(r.joint, r.event, r.code)
        BY <3>1 DEF LogTypes, Record
      <4>2. QED
        BY <4>1, EnqueueTypes
    <3>2. \/ \E e \in Event : Enqueue(next, e, c)
          \/ UNCHANGED <<queue, dropped>>
      BY DEF FaultBegins, FaultLasts, FaultEnds, NoFaultSeen, Event
    <3>3. QED
      BY <3>1, <3>2 DEF LogTypes
  <2>5. QED
    BY <2>1, <2>2, <2>3, <2>4 DEF LogTypes
<1>2. CASE EndLoop \/ Stop \/ Exited
  BY <1>2 DEF EndLoop, Stop, Exited, logVars, LogTypes
<1>3. CASE TakeRecord
  BY <1>3 DEF TakeRecord, LogTypes
<1>4. CASE TakeEnds \/ EndRound \/ EndRun
  BY <1>4 DEF TakeEnds, EndRound, EndRun, LogTypes
<1>5. CASE AnnounceDropped
  <2>1. Len(batch) + Len(queue) \in Nat
    BY DEF LogTypes
  <2>2. reader' \in [Joints -> Codes \cup {UNSURE}]
    BY <1>5 DEF AnnounceDropped, LogTypes
  <2>3. older' \in Nat
    BY <2>1, <1>5 DEF AnnounceDropped, LogTypes
  <2>4. QED
    BY <1>5, <2>2, <2>3 DEF AnnounceDropped, LogTypes
<1>6. ASSUME NEW r \in Record, Written(r)
      PROVE  reader' \in [Joints -> Codes \cup {UNSURE}] /\ older' \in Nat
  <2>1. r.joint \in Joints /\ r.code \in Codes \cup {UNSURE}
    BY DEF Record
  <2>2. reader' \in [Joints -> Codes \cup {UNSURE}]
    <3> DEFINE Known == Codes \cup {UNSURE}
    <3>1. reader \in [Joints -> Known] /\ r.code \in Known
      BY <2>1 DEF LogTypes
    <3>2. reader' = [reader EXCEPT ![r.joint] = r.code] \/ reader' = reader
      BY <1>6 DEF Written
    <3> HIDE DEF Known
    <3>3. reader' \in [Joints -> Known]
      BY <2>1, <3>1, <3>2
    <3>4. QED
      BY <3>3 DEF Known
  <2>3. older' \in Nat
    BY <1>6 DEF Written, LogTypes
  <2>4. QED
    BY <2>2, <2>3
<1>7. CASE WriteRecord
  <2>1. Head(batch) \in Record /\ Tail(batch) \in Seq(Record)
    BY <1>7 DEF WriteRecord, LogTypes
  <2>2. QED
    BY <1>6, <1>7, <2>1 DEF WriteRecord, LogTypes
<1>8. CASE DrainRecord
  <2>1. Head(queue) \in Record /\ Tail(queue) \in Seq(Record)
    BY <1>8 DEF DrainRecord, LogTypes
  <2>2. QED
    BY <1>6, <1>8, <2>1 DEF DrainRecord, LogTypes
<1>9. CASE PassTime
  <2>1. Period \in 0..Period /\ 0 \in 0..Stride - 1 /\ 0 \in 0..Period /\ OK \in Codes
    BY MotorLogAssumption DEF Codes
  <2>2. fault' \in [Joints -> [code: Codes, samples: 0..Stride - 1, age: 0..Period]]
    BY <1>9, <2>1, AgesAndCounts DEF PassTime, LogTypes, NoFault
  <2>3. statusAge' \in [Joints -> 0..Period]
    BY <1>9, <2>1, AgesAndCounts DEF PassTime, LogTypes
  <2>4. QED
    BY <1>9, <2>2, <2>3 DEF PassTime, LogTypes
<1>10. CASE UNCHANGED logVars
  BY <1>10 DEF logVars, LogTypes
<1>11. QED
  BY <1>1, <1>2, <1>3, <1>4, <1>5, <1>7, <1>8, <1>9, <1>10 DEF LogNext, Run

\* What the end of the loop, of the logger and of its worker leave behind.
LEMMA EndingHolds == LogIInv /\ [LogNext]_logVars => Ending'
<1> SUFFICES ASSUME LogTypes, Ending, [LogNext]_logVars
             PROVE  Ending'
  BY DEF LogIInv
<1> USE MotorLogAssumption DEF loggerVars, producerVars, LogTypes, Ending
<1>1. CASE UnpackMotor
  <2>1. stop = FALSE /\ workerAt \notin {"drain", "ended"}
    BY <1>1 DEF UnpackMotor
  <2>2. QED
    BY <1>1, <2>1 DEF UnpackMotor
<1>2. CASE EndLoop \/ Stop \/ Exited \/ PassTime
  BY <1>2 DEF EndLoop, Stop, Exited, PassTime, logVars
<1>3. CASE TakeRecord
  BY <1>3 DEF TakeRecord
<1>4. CASE TakeEnds \/ EndRound \/ EndRun \/ AnnounceDropped
  BY <1>4 DEF TakeEnds, EndRound, EndRun, AnnounceDropped
<1>5. CASE WriteRecord \/ DrainRecord
  BY <1>5 DEF WriteRecord, DrainRecord
<1>6. CASE UNCHANGED logVars
  BY <1>6 DEF logVars
<1>7. QED
  BY <1>1, <1>2, <1>3, <1>4, <1>5, <1>6 DEF LogNext, Run

\* The events follow the state in which the motor was.
LEMMA EventsFollow ==
  ASSUME LogTypes, NEW c \in Codes, NEW j \in Joints,
         FaultBegins(j, c) \/ FaultLasts(j, c) \/ FaultEnds(j, c) \/ NoFaultSeen(j, c)
  PROVE  \/ /\ UNCHANGED <<queue, dropped>>
            /\ \A i \in Joints : fault'[i].code = fault[i].code
         \/ \E e \in Event :
              /\ Enqueue(j, e, c)
              /\ Follows(fault[j].code, [joint |-> j, event |-> e, code |-> c])
              /\ fault'[j].code = c
              /\ \A i \in Joints \ {j} : fault'[i].code = fault[i].code
<1> DEFINE Queued(e) ==
      /\ Enqueue(j, e, c)
      /\ Follows(fault[j].code, [joint |-> j, event |-> e, code |-> c])
      /\ fault'[j].code = c
      /\ \A i \in Joints \ {j} : fault'[i].code = fault[i].code
<1>1. DOMAIN fault = Joints /\ OK \notin Faults /\ fault[j].code \in Codes
  BY MotorLogAssumption DEF LogTypes
<1>2. CASE FaultBegins(j, c)
  <2>1. fault[j].code = OK => Queued("FAULT")
    BY <1>1, <1>2 DEF FaultBegins, Follows
  <2>2. fault[j].code # OK => Queued("FAULT_CHANGED")
    BY <1>1, <1>2 DEF FaultBegins, Follows
  <2>3. QED
    BY <2>1, <2>2 DEF Event
<1>3. CASE FaultLasts(j, c)
  <2>1. fault' = [fault EXCEPT ![j].samples = Counted(@)]
          => \A i \in Joints : fault'[i].code = fault[i].code
    BY <1>1
  <2>2. Enqueue(j, "FAULT_REPEAT", c) /\ fault' = [fault EXCEPT ![j] = [code |-> c, samples |-> 0, age |-> 0]]
          => Queued("FAULT_REPEAT")
    BY <1>1, <1>3 DEF FaultLasts, Follows
  <2>3. QED
    BY <1>3, <2>1, <2>2 DEF FaultLasts, Event
<1>4. CASE FaultEnds(j, c)
  <2>1. Queued("RECOVERED")
    BY <1>1, <1>4 DEF FaultEnds, Follows, Recovered, NoFault
  <2>2. QED
    BY <2>1 DEF Event
<1>5. CASE NoFaultSeen(j, c)
  <2>1. Enqueue(j, "STATUS", OK) => Queued("STATUS")
    BY <1>1, <1>5 DEF NoFaultSeen, Follows
  <2>2. QED
    BY <1>5, <2>1 DEF NoFaultSeen, Event
<1>6. QED
  BY <1>2, <1>3, <1>4, <1>5

\* What a record of a motor does to the story.
LEMMA StoryGoesOn == LogIInv /\ LogTypes' /\ UnpackMotor => Story'
<1> SUFFICES ASSUME LogTypes, LogTypes', Story, UnpackMotor
             PROVE  Story'
  BY DEF LogIInv
<1>1. PICK c \in Codes : \/ FaultBegins(next, c) \/ FaultLasts(next, c)
                         \/ FaultEnds(next, c) \/ NoFaultSeen(next, c)
  BY DEF UnpackMotor
<1>2. next \in Joints /\ UNCHANGED <<workerAt, batch, reader, older>>
  BY DEF UnpackMotor, loggerVars, LogTypes
<1>3. PICK n \in Nat : n = Size /\ Len(batch) \in 0..n
  <2>1. Len(batch) \in Nat /\ Len(queue) \in Nat
    BY DEF LogTypes
  <2>2. QED
    BY <2>1 DEF Size
<1>4. CASE /\ UNCHANGED <<queue, dropped>>
           /\ \A i \in Joints : fault'[i].code = fault[i].code
  <2>1. Size' = n /\ \A i \in 1..n : Line(i)' = Line(i)
    BY <1>2, <1>3, <1>4 DEF Size, Line
  <2>2. /\ older' <= Size'
        /\ older' > 0 => \A j \in Joints : reader'[j] = UNSURE
        /\ \A m \in 0..n : Linked(m) => Linked(m)'
        /\ LastIs => LastIs'
    BY <1>2, <1>3, <1>4, <2>1, LinesStay
  <2>3. PICK m \in 0..n : m = Len(batch)
    BY <1>3
  <2>4. ~dropped => Linked(Size)' /\ LastIs'
    BY <2>1, <2>2, <1>3 DEF Story, Linked
  <2>5. workerAt = "write" => Linked(Len(batch))'
    BY <2>2, <2>3, <1>2 DEF Story, Linked
  <2>6. QED
    BY <1>2, <1>4, <2>2, <2>4, <2>5 DEF Story
<1>5. ASSUME NEW e \in Event,
             Enqueue(next, e, c),
             Follows(fault[next].code, [joint |-> next, event |-> e, code |-> c]),
             fault'[next].code = c,
             \A i \in Joints \ {next} : fault'[i].code = fault[i].code
      PROVE  Story'
  <2>1. PICK r \in Record : r = [joint |-> next, event |-> e, code |-> c]
    BY <1>2 DEF Record
  <2>2. r.joint = next /\ r.code = c
    BY <2>1
  <2>3. CASE Len(queue) < Places
    <3>1. queue' = Append(queue, r) /\ dropped' = dropped
      BY <2>1, <2>3, <1>5 DEF Enqueue
    <3>2. Size' = n + 1 /\ (\A i \in 1..n : Line(i)' = Line(i)) /\ Line(n + 1)' = r
      <4>1. queue \in Seq(Record) /\ Len(batch) \in Nat
        BY DEF LogTypes
      <4>2. QED
        BY <3>1, <4>1, <1>2, <1>3 DEF Size, Line
    <3>3. /\ older' <= Size'
          /\ older' > 0 => \A j \in Joints : reader'[j] = UNSURE
          /\ \A m \in 0..n : Linked(m) => Linked(m)'
      BY <3>2, <1>2, <1>3, LinesStay
    <3>4. ~dropped => Linked(Size)' /\ LastIs'
      BY <3>2, <2>2, <1>2, <1>3, <1>5, <2>1, LineQueued
    <3>5. workerAt = "write" => Linked(Len(batch))'
      BY <3>3, <1>2, <1>3 DEF Story, Linked
    <3>6. QED
      BY <3>1, <3>3, <3>4, <3>5, <1>2 DEF Story
  <2>4. CASE ~(Len(queue) < Places)
    <3>1. queue' = queue /\ dropped' = TRUE
      BY <2>4, <1>5 DEF Enqueue, Refused
    <3>2. Size' = n /\ \A i \in 1..n : Line(i)' = Line(i)
      BY <3>1, <1>2, <1>3 DEF Size, Line
    <3>3. /\ older' <= Size'
          /\ older' > 0 => \A j \in Joints : reader'[j] = UNSURE
          /\ \A m \in 0..n : Linked(m) => Linked(m)'
      BY <3>2, <1>2, <1>3, LinesStay
    <3>4. workerAt = "write" => Linked(Len(batch))'
      BY <3>3, <1>2, <1>3 DEF Story, Linked
    <3>5. QED
      BY <3>1, <3>3, <3>4, <1>2 DEF Story
  <2>5. QED
    BY <2>3, <2>4
<1>6. QED
  BY <1>1, <1>2, <1>4, <1>5, EventsFollow

\* The other steps: a record is written, or what was dropped is announced.
LEMMA StoryHolds == LogIInv /\ LogTypes' /\ [LogNext]_logVars => Story'
<1> SUFFICES ASSUME LogIInv, LogTypes, LogTypes', Ending, Story, [LogNext]_logVars
             PROVE  Story'
  BY DEF LogIInv
<1>1. PICK n \in Nat : n = Size /\ Len(batch) \in 0..n
  <2>1. Len(batch) \in Nat /\ Len(queue) \in Nat
    BY DEF LogTypes
  <2>2. QED
    BY <2>1 DEF Size
<1>2. batch \in Seq(Record) /\ queue \in Seq(Record)
  BY DEF LogTypes
<1>3. /\ ~dropped => Linked(n) /\ LastIs
      /\ ~dropped => Linked(Len(batch))
      /\ workerAt = "write" => Linked(Len(batch))
  BY <1>1 DEF Story, Linked
<1>4. ASSUME reader' = reader, older' = older, Size' = n,
             \A i \in 1..n : Line(i)' = Line(i), dropped' = dropped,
             \A j \in Joints : fault'[j].code = fault[j].code,
             workerAt' = "write" => Len(batch') = Len(batch) /\ (workerAt = "write" \/ ~dropped)
      PROVE  Story'
  <2>1. /\ older' <= Size'
        /\ older' > 0 => \A j \in Joints : reader'[j] = UNSURE
        /\ \A m \in 0..n : Linked(m) => Linked(m)'
        /\ LastIs => LastIs'
    BY <1>1, <1>4, LinesStay
  <2>2. PICK m \in 0..n : m = Len(batch)
    BY <1>1
  <2>3. ~dropped => Linked(Size)' /\ LastIs'
    BY <1>3, <1>4, <2>1 DEF Linked
  <2>4. workerAt' = "write" => Linked(Len(batch))'
    BY <1>3, <1>4, <2>1, <2>2 DEF Linked
  <2>5. QED
    BY <1>4, <2>1, <2>3, <2>4 DEF Story
<1>5. ASSUME UNCHANGED <<batch, queue>>
      PROVE  Size' = n /\ \A i \in 1..n : Line(i)' = Line(i)
  BY <1>1, <1>5 DEF Size, Line
<1>6. CASE UnpackMotor
  BY <1>6, StoryGoesOn
<1>7. CASE EndLoop \/ Stop \/ Exited \/ UNCHANGED logVars
  BY <1>4, <1>5, <1>7 DEF EndLoop, Stop, Exited, logVars, loggerVars
<1>8. CASE PassTime
  <2>1. \A j \in Joints : fault'[j].code = fault[j].code
    <3>1. DOMAIN fault = Joints
      BY DEF LogTypes
    <3>2. QED
      BY <1>8, <3>1 DEF PassTime, NoFault
  <2>2. QED
    BY <1>4, <1>5, <1>8, <2>1 DEF PassTime
<1>9. CASE TakeRecord
  <2>1. Size' = n /\ \A i \in 1..n : Line(i)' = Line(i)
    BY <1>1, <1>2, <1>9 DEF TakeRecord, Size, Line
  <2>2. QED
    BY <1>4, <1>9, <2>1 DEF TakeRecord, producerVars
<1>10. CASE TakeEnds \/ EndRound \/ EndRun
  BY <1>4, <1>5, <1>10 DEF TakeEnds, EndRound, EndRun, producerVars
<1>11. CASE AnnounceDropped
  <2>1. Size' = n /\ \A i \in 1..n : Line(i)' = Line(i)
    BY <1>5, <1>11 DEF AnnounceDropped, producerVars
  <2>2. CASE dropped
    <3>1. older' = n /\ reader' = [j \in Joints |-> UNSURE] /\ Len(batch') = Len(batch)
      BY <1>1, <1>11, <2>2 DEF AnnounceDropped, Size
    <3>2. Linked(Size)' /\ Linked(Len(batch))'
      BY <1>1, <2>1, <3>1 DEF Linked
    <3>3. LastIs'
      BY <1>1, <2>1, <3>1 DEF LastIs, Says
    <3>4. QED
      BY <2>1, <3>1, <3>2, <3>3, <1>1 DEF Story
  <2>3. CASE ~dropped
    <3>1. dropped' = dropped
      BY <1>11, <2>3 DEF AnnounceDropped, LogTypes
    <3>2. QED
      BY <1>4, <1>11, <2>1, <2>3, <3>1 DEF AnnounceDropped, producerVars
  <2>4. QED
    BY <2>2, <2>3
<1>12. CASE WriteRecord
  <2>1. Len(batch) >= 1 /\ batch' = Tail(batch) /\ queue' = queue /\ Head(batch) = batch[1]
    BY <1>2, <1>12 DEF WriteRecord, producerVars
  <2>2. /\ Size' = n - 1 /\ Line(1) = Head(batch) /\ Len(batch') = Len(batch) - 1
        /\ \A i \in 1..n - 1 : Line(i)' = Line(i + 1)
    BY <1>1, <1>2, <2>1 DEF Size, Line
  <2>3. /\ older' <= Size'
        /\ older' > 0 => \A j \in Joints : reader'[j] = UNSURE
        /\ \A m \in 1..n : Linked(m) => Linked(m - 1)'
        /\ LastIs => LastIs'
    BY <1>1, <1>12, <2>1, <2>2, FirstLineWritten DEF WriteRecord, producerVars
  <2>4. PICK m \in 1..n : m = Len(batch)
    BY <1>1, <2>1
  <2>5. Linked(Len(batch))'
    <3>1. Linked(m)
      BY <1>3, <1>12, <2>4 DEF WriteRecord
    <3>2. Linked(m - 1)' /\ Len(batch') = m - 1
      BY <2>2, <2>3, <2>4, <3>1
    <3>3. QED
      BY <3>2 DEF Linked
  <2>6. ~dropped => Linked(Size)' /\ LastIs'
    <3>1. ~dropped => Linked(n - 1)' /\ LastIs'
      BY <1>1, <1>3, <2>3, <2>4
    <3>2. QED
      BY <2>2, <3>1 DEF Linked
  <2>7. QED
    BY <1>12, <2>3, <2>5, <2>6 DEF Story, WriteRecord
<1>13. CASE DrainRecord
  <2>1. /\ batch = <<>> /\ Len(batch) = 0 /\ Len(queue) >= 1 /\ queue' = Tail(queue)
        /\ batch' = batch /\ Head(queue) = queue[1]
    BY <1>2, <1>13 DEF DrainRecord, Ending
  <2>2. /\ Size' = n - 1 /\ Line(1) = Head(queue) /\ n >= 1
        /\ \A i \in 1..n - 1 : Line(i)' = Line(i + 1)
    BY <1>1, <1>2, <2>1 DEF Size, Line
  <2>3. /\ older' <= Size'
        /\ older' > 0 => \A j \in Joints : reader'[j] = UNSURE
        /\ \A m \in 1..n : Linked(m) => Linked(m - 1)'
        /\ LastIs => LastIs'
    BY <1>1, <1>13, <2>1, <2>2, FirstLineWritten DEF DrainRecord, producerVars
  <2>4. ~dropped => Linked(Size)' /\ LastIs'
    <3>1. ~dropped => Linked(n - 1)' /\ LastIs'
      BY <1>1, <1>3, <2>2, <2>3
    <3>2. QED
      BY <2>2, <3>1 DEF Linked
  <2>5. QED
    BY <1>13, <2>3, <2>4 DEF Story, DrainRecord
<1>14. QED
  BY <1>6, <1>7, <1>8, <1>9, <1>10, <1>11, <1>12, <1>13 DEF LogNext, Run

LEMMA AlwaysLogIInv == LogSpec => []LogIInv
<1>1. LogIInv /\ [LogNext]_logVars => LogIInv'
  BY LogTypesHold, EndingHolds, StoryHolds DEF LogIInv
<1>2. QED
  BY LogInitially, <1>1, PTL DEF LogSpec

\* For any number of motors, faults and places in the queue, and any size of a round: when
\* all records of a motor are written and no loss is still to be announced, the log's last
\* word is the state the real-time thread last saw, or the reader has been warned.
THEOREM TheLastWordIsTrue == LogSpec => []LastWordIsTrue
<1>1. ASSUME LogIInv, NEW j \in Joints, ~InFlight(j), ~dropped, reader[j] # UNSURE
      PROVE  reader[j] = fault[j].code
  <2>1. batch \in Seq(Record) /\ queue \in Seq(Record) /\ Len(batch) \in Nat /\ Len(queue) \in Nat
    BY <1>1 DEF LogIInv, LogTypes
  <2>2. Size \in Nat /\ older = 0
    BY <2>1, <1>1 DEF LogIInv, LogTypes, Story, Size
  <2>3. \A i \in 1..Size : Line(i).joint # j
    BY <2>1, <1>1 DEF InFlight, Line, Size
  <2>4. Source(j, 0, Size + 1) /\ Says(j, 0) = reader[j]
    BY <2>2, <2>3 DEF Source, Says
  <2>5. QED
    BY <2>2, <2>4, <1>1 DEF LogIInv, Story, LastIs
<1>2. ASSUME LogIInv, workerAt = "ended", NEW j \in Joints
      PROVE  ~InFlight(j)
  BY <1>2 DEF LogIInv, Ending, InFlight
<1>3. LogIInv => LastWordIsTrue
  BY <1>1, <1>2 DEF LastWordIsTrue
<1>4. QED
  BY AlwaysLogIInv, <1>3, PTL

\* The line the worker writes next continues what the log has said of its motor, or stands
\* below the announcement of the loss that comes between.
THEOREM TheGapsAreAnnounced == LogSpec => GapsAreAnnounced
<1>1. ASSUME LogIInv, WriteRecord
      PROVE  Continues(Head(batch))
  <2>1. /\ batch \in Seq(Record) /\ Len(batch) >= 1 /\ Head(batch) = batch[1]
        /\ Head(batch) \in Record /\ Len(queue) \in Nat /\ older \in Nat
    BY <1>1 DEF LogIInv, LogTypes, WriteRecord
  <2>2. PICK j \in Joints : j = Head(batch).joint
    BY <2>1 DEF Record
  <2>3. CASE older = 0
    <3>1. Line(1) = Head(batch) /\ Says(j, 0) = reader[j] /\ 0 \in older..Size /\ 1 \in older + 1..Len(batch)
      BY <2>1, <2>3 DEF Line, Says, Size
    <3>2. Source(j, 0, 1)
      BY <2>3 DEF Source
    <3>3. Follows(reader[j], Head(batch))
      BY <1>1, <2>2, <3>1, <3>2 DEF LogIInv, Story, Linked, WriteRecord
    <3>4. QED
      BY <2>2, <3>3 DEF Follows, Continues
  <2>4. CASE older # 0
    BY <1>1, <2>1, <2>2, <2>4 DEF LogIInv, Story, Continues
  <2>5. QED
    BY <2>3, <2>4
<1>2. LogIInv /\ [LogNext]_logVars => [WriteRecord => Continues(Head(batch))]_logVars
  BY <1>1
<1>3. QED
  BY AlwaysLogIInv, <1>2, PTL DEF LogSpec, GapsAreAnnounced
===============================================================================
