-------------------------- MODULE HardwareCycleProofs --------------------------
(***************************************************************************)
(* The hardware cycle fails closed for every number of motors and channels *)
(* and all parameters of the monitors.                                     *)
(*                                                                         *)
(* What connects the faults that occur (the history variables) with the    *)
(* latches is, for a channel, that its streak lies between the two counts  *)
(* of bursts (StreaksAreBounded), and for the bus, that the window and the *)
(* rest of the latest exchanges hold no more lost ones than the counter    *)
(* and MaxErrors (WindowIsCounted).                                        *)
(***************************************************************************)
EXTENDS HardwareCycle, FiniteSetTheorems, TLAPS

-----------------------------------------------------------------------------
(* Counting lost exchanges. *)

Lost(s, a, b) == {i \in a..b : ~s[i]}
LostCount(s, a, b) == Cardinality(Lost(s, a, b))

\* The count is a number.
LEMMA LostCountType ==
  ASSUME NEW s, NEW a \in Int, NEW b \in Int
  PROVE  IsFiniteSet(Lost(s, a, b)) /\ LostCount(s, a, b) \in Nat
<1>1. IsFiniteSet(a..b)
  BY FS_Interval
<1>2. IsFiniteSet(Lost(s, a, b))
  BY <1>1, FS_Subset DEF Lost
<1>3. QED
  BY <1>2, FS_CardinalityType DEF LostCount

\* A wider range holds no fewer lost exchanges.
LEMMA LostCountMonotonic ==
  ASSUME NEW s, NEW a \in Int, NEW b \in Int, NEW c \in Int, NEW d \in Int,
         a <= c, d <= b
  PROVE  LostCount(s, c, d) <= LostCount(s, a, b)
<1>1. Lost(s, c, d) \in SUBSET Lost(s, a, b)
  BY DEF Lost
<1>2. QED
  BY <1>1, LostCountType, FS_Subset DEF LostCount

\* One more exchange.
LEMMA LostCountExtend ==
  ASSUME NEW s, NEW a \in Int, NEW b \in Int, a <= b + 1
  PROVE  LostCount(s, a, b + 1) = LostCount(s, a, b) + (IF s[b + 1] THEN 0 ELSE 1)
<1>1. CASE s[b + 1]
  <2>1. Lost(s, a, b + 1) = Lost(s, a, b)
    BY <1>1 DEF Lost
  <2>2. QED
    BY <2>1, <1>1, LostCountType DEF LostCount
<1>2. CASE ~s[b + 1]
  <2>1. Lost(s, a, b + 1) = Lost(s, a, b) \cup {b + 1}
    BY <1>2 DEF Lost
  <2>2. b + 1 \notin Lost(s, a, b)
    BY DEF Lost
  <2>3. QED
    BY <2>1, <2>2, <1>2, LostCountType, FS_AddElement DEF LostCount
<1>3. QED
  BY <1>1, <1>2

\* Only the validities in the range count.
LEMMA LostCountSame ==
  ASSUME NEW s, NEW t, NEW a \in Int, NEW b \in Int, \A i \in a..b : s[i] = t[i]
  PROVE  LostCount(s, a, b) = LostCount(t, a, b)
<1>1. Lost(s, a, b) = Lost(t, a, b)
  BY DEF Lost
<1>2. QED
  BY <1>1 DEF LostCount

\* A range counts the same when the oldest exchange is forgotten.
LEMMA LostCountShift ==
  ASSUME NEW s, NEW t, NEW a \in Int, NEW b \in Int, \A i \in a..b : t[i] = s[i + 1]
  PROVE  LostCount(t, a, b) = LostCount(s, a + 1, b + 1)
<1> DEFINE S == Lost(t, a, b)
           T == Lost(s, a + 1, b + 1)
           f == [i \in S |-> i + 1]
<1>1. f \in [S -> T]
  BY DEF Lost
<1>2. \A x, y \in S : f[x] = f[y] => x = y
  BY DEF Lost
<1>3. \A y \in T : \E x \in S : f[x] = y
  <2> SUFFICES ASSUME NEW y \in T
               PROVE  \E x \in S : f[x] = y
    OBVIOUS
  <2>1. y - 1 \in a..b /\ (y - 1) + 1 = y /\ ~s[y]
    BY DEF Lost
  <2>2. y - 1 \in S
    BY <2>1 DEF Lost
  <2>3. QED
    BY <2>1, <2>2
<1>4. f \in Bijection(S, T)
  BY <1>1, <1>2, <1>3 DEF Bijection, Injection, Surjection, IsInjective
<1>5. ExistsBijection(S, T)
  BY <1>4 DEF ExistsBijection
<1>6. QED
  BY <1>5, LostCountType, FS_Bijection DEF LostCount

\* A range is counted in two parts.
LEMMA LostCountSplit ==
  ASSUME NEW s, NEW a \in Int, NEW m \in Int, NEW b \in Int, a <= m + 1, m <= b
  PROVE  LostCount(s, a, b) = LostCount(s, a, m) + LostCount(s, m + 1, b)
<1>1. Lost(s, a, b) = Lost(s, a, m) \cup Lost(s, m + 1, b)
  BY DEF Lost
<1>2. Lost(s, a, m) \cap Lost(s, m + 1, b) = {}
  BY DEF Lost
<1> DEFINE A == Lost(s, a, m)
           B == Lost(s, m + 1, b)
<1>3. IsFiniteSet(A) /\ IsFiniteSet(B) /\ LostCount(s, a, m) \in Nat
        /\ LostCount(s, m + 1, b) \in Nat
  BY LostCountType
<1>4. Cardinality(A \cup B) = Cardinality(A) + Cardinality(B) - Cardinality(A \cap B)
  <2> HIDE DEF A, B
  <2>1. QED
    BY <1>3, FS_Union
<1>5. Cardinality(A \cap B) = 0
  BY <1>2, FS_EmptySet
<1>6. QED
  BY <1>1, <1>3, <1>4, <1>5 DEF LostCount

-----------------------------------------------------------------------------
(* The inductive invariant. *)

\* The k latest of the exchanges s make up the window, of which e were lost; of
\* the older ones no more were lost than a window may lose.
Counted(s, k, e, fault) ==
  /\ Len(s) <= WindowCycles /\ k <= Len(s)
  /\ Len(s) < WindowCycles => k = Len(s)
  /\ LostCount(s, Len(s) - k + 1, Len(s)) = e
  /\ ~fault => LostCount(s, 1, Len(s) - k) <= MaxErrors /\ e <= MaxErrors

WindowIsCounted == Counted(recent, cycleCount, errorCount, ethercatFault)

\* An exchange was valid and has not been read yet.
Unread == at = "read" /\ dataValid

\* The streak of a channel when its image has been read.
NextBad(c) ==
  IF monitors[c].initialized /\ Delta(monitors[c], image[c]) > DeltaThreshold
  THEN Saturated(monitors[c].bad, FaultSamples) ELSE 0

\* The errors e since the value that was read last are at least what the counter
\* x shows, and exactly that (up to the threshold) unless it may have started over.
Cap(x, last) == IF x > last + DeltaThreshold THEN DeltaThreshold + 1 ELSE x - last
Shows(x, last, e, over) ==
  /\ x >= last => e >= Cap(x, last)
  /\ ~over => x >= last /\ e = Cap(x, last)

CounterShows(c) == Shows(counters[c], monitors[c].lastValue, errors[c], restarted[c])

StreaksAreBounded ==
  \A c \in Channels :
    /\ c \notin Enabled => monitors[c] = NoMonitor
    /\ ~monitors[c].initialized =>
         monitors[c] = NoMonitor /\ bursts[c] = 0 /\ plainBursts[c] = 0
    /\ monitors[c].bad = FaultSamples => monitors[c].fault
    /\ monitors[c].fault => c \in latched
    /\ Unread => /\ counters[c] = image[c] /\ errors[c] = 0 /\ ~restarted[c]
                 /\ c \in Enabled => plainBursts[c] <= NextBad(c) /\ NextBad(c) <= bursts[c]
    /\ ~Unread => /\ plainBursts[c] <= monitors[c].bad /\ monitors[c].bad <= bursts[c]
                  /\ monitors[c].initialized => CounterShows(c)

\* Every fault that has occurred is latched, or will be by the next read.
FaultsAreLatched ==
  /\ "bus" \in condemned => ethercatFault
  /\ "command" \in condemned => nonFinite
  /\ "can" \in condemned =>
       latched # {} \/ (Unread /\ \E c \in Enabled : plainBursts[c] = FaultSamples)

\* With valid feedback, commands come from a controller only if one set them.
CommandsAreFresh ==
  /\ at = "update" => ~commanded
  /\ at \in {"update", "write"} /\ dataValid /\ ~commanded =>
       \A m \in Motors : commands[m] = "damping"

Frames ==
  /\ MotorFaultsFailClosed /\ BusFaultsFailClosed
  /\ NoLeftoverCommand /\ WholeFrames

IInv ==
  /\ TypeOK /\ WindowIsCounted /\ StreaksAreBounded
  /\ FaultsAreLatched /\ CommandsAreFresh /\ Frames

\* A counter that grows by less than its width wraps at most once.
LEMMA Wraps ==
  ASSUME NEW x \in 0..Width-1, NEW y \in 0..Width-1
  PROVE  (x + y) % Width = IF x + y < Width THEN x + y ELSE x + y - Width
<1>1. Width \in Nat /\ Width > 0
  BY HardwareCycleAssumption
<1>2. CASE x + y < Width
  BY <1>1, <1>2
<1>3. CASE x + y >= Width
  <2>1. x + y = (x + y - Width) + 1 * Width /\ x + y - Width \in 0..Width-1
    BY <1>1, <1>3
  <2>2. QED
    BY <1>1, <1>3, <2>1
<1>4. QED
  BY <1>1, <1>2, <1>3

\* At first nothing has been exchanged or counted.
LEMMA InitIInv == Init => IInv
<1> SUFFICES ASSUME Init
             PROVE  IInv
  OBVIOUS
<1> USE HardwareCycleAssumption DEF Init, AllChannels, AllMotors, NoMonitor
<1>1. TypeOK
  <2>1. NoMonitor \in Monitor
    BY DEF Monitor
  <2>2. monitors \in [Channels -> Monitor]
    <3> HIDE DEF NoMonitor
    <3>1. QED
      BY <2>1
  <2>3. recent \in Seq(BOOLEAN)
    BY DEF Init
  <2>4. commands \in [Motors -> {"damping", "controller"}]
          /\ frame \in [Motors -> {"damping", "controller", "zero", "not finite"}]
    OBVIOUS
  <2>5. image \in [Channels -> 0..Width-1]
    OBVIOUS
  <2>6. /\ errors \in [Channels -> 0..DeltaThreshold+1] /\ restarted \in [Channels -> BOOLEAN]
        /\ bursts \in [Channels -> 0..FaultSamples]
        /\ plainBursts \in [Channels -> 0..FaultSamples]
    OBVIOUS
  <2>7. cycleCount \in 0..WindowCycles-1 /\ errorCount \in 0..cycleCount
    OBVIOUS
  <2>8. QED
    BY <2>2, <2>3, <2>4, <2>5, <2>6, <2>7 DEF TypeOK
<1>2. WindowIsCounted
  <2>1. Len(recent) = 0 /\ cycleCount = 0 /\ errorCount = 0
    OBVIOUS
  <2>2. Lost(recent, 1, 0) = {}
    BY DEF Lost
  <2>3. LostCount(recent, 1, 0) = 0
    BY <2>2, FS_EmptySet DEF LostCount
  <2>4. QED
    BY <2>1, <2>3 DEF WindowIsCounted, Counted
<1>3. StreaksAreBounded
  BY DEF StreaksAreBounded, Unread, NextBad
<1>4. FaultsAreLatched /\ CommandsAreFresh
  BY DEF FaultsAreLatched, CommandsAreFresh
<1>5. Frames
  BY DEF Frames, MotorFaultsFailClosed, BusFaultsFailClosed, NoLeftoverCommand, WholeFrames,
         Sent
<1>6. QED
  BY <1>1, <1>2, <1>3, <1>4, <1>5 DEF IInv

-----------------------------------------------------------------------------
(* The window of the working counter. *)

\* An empty range counts nothing.
LEMMA LostCountEmpty ==
  ASSUME NEW s, NEW a \in Int, NEW b \in Int, b < a
  PROVE  LostCount(s, a, b) = 0
<1>1. Lost(s, a, b) = {}
  BY DEF Lost
<1>2. QED
  BY <1>1, FS_EmptySet DEF LostCount

\* The latest exchanges when one more has been made.
Latest(s, ok) == IF Len(s) < WindowCycles THEN Append(s, ok) ELSE Append(Tail(s), ok)

\* The window takes the new exchange in; the older ones lose the oldest, if any.
LEMMA LatestIsCounted ==
  ASSUME NEW s \in Seq(BOOLEAN), NEW k \in Nat, NEW ok \in BOOLEAN,
         k <= Len(s), k < WindowCycles, Len(s) <= WindowCycles,
         Len(s) < WindowCycles => k = Len(s),
         NEW t, t = Latest(s, ok), NEW m, m = Len(t)
  PROVE  /\ t \in Seq(BOOLEAN)
         /\ m \in Nat /\ m <= WindowCycles /\ k + 1 <= m /\ (m < WindowCycles => k + 1 = m)
         /\ LostCount(t, m - k, m)
              = LostCount(s, Len(s) - k + 1, Len(s)) + (IF ok THEN 0 ELSE 1)
         /\ LostCount(t, 1, m - k - 1) <= LostCount(s, 1, Len(s) - k)
         /\ Invalid(t) = LostCount(t, 1, m - k - 1) + LostCount(t, m - k, m)
<1> DEFINE n == Len(s)
           a == Append(s, ok)
<1>1. WindowCycles \in Nat /\ WindowCycles > 0 /\ n \in Nat /\ k <= n /\ n <= WindowCycles
        /\ (n < WindowCycles => k = n)
  BY HardwareCycleAssumption
<1>2. a \in Seq(BOOLEAN) /\ Len(a) = n + 1 /\ a[n + 1] = ok /\ \A i \in 1..n : a[i] = s[i]
  OBVIOUS
<1>3. LostCount(a, n - k + 1, n + 1) = LostCount(s, n - k + 1, n) + (IF ok THEN 0 ELSE 1)
  <2>1. \A i \in n-k+1..n : a[i] = s[i]
    BY <1>1, <1>2
  <2>2. LostCount(a, n - k + 1, n) = LostCount(s, n - k + 1, n)
    <3> HIDE DEF n, a
    <3>1. QED
      BY <1>1, <2>1, LostCountSame
  <2>3. LostCount(a, n - k + 1, n + 1)
          = LostCount(a, n - k + 1, n) + (IF a[n + 1] THEN 0 ELSE 1)
    <3>1. n - k + 1 <= n + 1 /\ n - k + 1 \in Int
      BY <1>1
    <3> HIDE DEF n, a
    <3>2. QED
      BY <1>1, <3>1, LostCountExtend
  <2>4. QED
    BY <1>2, <2>2, <2>3
<1>4. LostCount(a, 1, n - k) = LostCount(s, 1, n - k)
  <2>1. \A i \in 1..n-k : a[i] = s[i]
    BY <1>1, <1>2
  <2> HIDE DEF n, a
  <2>2. QED
    BY <1>1, <2>1, LostCountSame
<1>5. /\ t \in Seq(BOOLEAN)
      /\ m \in Nat /\ m <= WindowCycles /\ k + 1 <= m /\ (m < WindowCycles => k + 1 = m)
      /\ n < WindowCycles => t = a /\ m = n + 1
      /\ n = WindowCycles => m = n /\ \A i \in 1..n : t[i] = a[i + 1]
  <2>1. CASE n < WindowCycles
    BY <1>1, <1>2, <2>1 DEF Latest
  <2>2. CASE n = WindowCycles
    <3>1. /\ Tail(s) \in Seq(BOOLEAN) /\ Len(Tail(s)) = n - 1
          /\ \A i \in 1..n-1 : Tail(s)[i] = s[i + 1]
      BY <1>1, <2>2
    <3>2. t = Append(Tail(s), ok)
      BY <1>1, <2>2 DEF Latest
    <3>3. t \in Seq(BOOLEAN) /\ Len(t) = n /\ t[n] = ok /\ \A i \in 1..n-1 : t[i] = Tail(s)[i]
      BY <1>1, <3>1, <3>2
    <3>4. \A i \in 1..n : t[i] = a[i + 1]
      BY <1>1, <1>2, <3>1, <3>3
    <3>5. QED
      BY <1>1, <2>2, <3>3, <3>4
  <2>3. QED
    BY <1>1, <2>1, <2>2
<1> HIDE DEF n, a
<1>6. LostCount(t, m - k, m) = LostCount(a, n - k + 1, n + 1)
  <2>1. CASE n < WindowCycles
    BY <1>1, <1>5, <2>1
  <2>2. CASE n = WindowCycles
    <3>1. m = n /\ n - k \in 1..n /\ \A i \in n-k..n : t[i] = a[i + 1]
      BY <1>1, <1>5, <2>2
    <3>2. LostCount(t, n - k, n) = LostCount(a, (n - k) + 1, n + 1)
      BY <1>1, <3>1, LostCountShift
    <3>3. QED
      BY <3>1, <3>2
  <2>3. QED
    BY <1>1, <2>1, <2>2
<1>7. LostCount(t, 1, m - k - 1) <= LostCount(a, 1, n - k)
  <2>1. CASE n < WindowCycles
    <3>1. m - k - 1 < 1 /\ m - k - 1 \in Int /\ n - k \in Int
      BY <1>1, <1>5, <2>1
    <3>2. LostCount(t, 1, m - k - 1) = 0 /\ LostCount(a, 1, n - k) \in Nat
      BY <3>1, LostCountEmpty, LostCountType
    <3>3. QED
      BY <3>2
  <2>2. CASE n = WindowCycles
    <3>1. m = n /\ n - k - 1 \in Int /\ n - k \in Int
            /\ \A i \in 1..n-k-1 : t[i] = a[i + 1]
      BY <1>1, <1>5, <2>2
    <3>2. LostCount(t, 1, n - k - 1) = LostCount(a, 1 + 1, (n - k - 1) + 1)
      BY <3>1, LostCountShift
    <3>3. (n - k - 1) + 1 = n - k
      BY <3>1
    <3>4. LostCount(a, 2, n - k) <= LostCount(a, 1, n - k)
      BY <3>1, LostCountMonotonic
    <3>5. QED
      BY <3>1, <3>2, <3>3, <3>4
  <2>3. QED
    BY <1>1, <2>1, <2>2
<1>8. Invalid(t) = LostCount(t, 1, m - k - 1) + LostCount(t, m - k, m)
  <2>1. Invalid(t) = LostCount(t, 1, m)
    <3>1. DOMAIN t = 1..m
      BY <1>5
    <3>2. QED
      BY <3>1 DEF Invalid, LostCount, Lost
  <2>2. m - k - 1 \in Int /\ (m - k - 1) + 1 = m - k /\ 1 <= (m - k - 1) + 1 /\ m - k - 1 <= m
          /\ m \in Int
    BY <1>5
  <2>3. LostCount(t, 1, m)
          = LostCount(t, 1, m - k - 1) + LostCount(t, (m - k - 1) + 1, m)
    BY <2>2, LostCountSplit
  <2>4. QED
    BY <2>1, <2>2, <2>3
<1>9. QED
  BY <1>3, <1>4, <1>5, <1>6, <1>7, <1>8 DEF n

\* An exchange keeps the books of the window: without a fault, no more than
\* twice MaxErrors of the latest exchanges are lost; a new fault has a cause.
LEMMA ExchangeIsCounted ==
  ASSUME TypeOK, WindowIsCounted, NEW ok \in BOOLEAN, Observe(ok), Remember(ok)
  PROVE  /\ WindowIsCounted'
         /\ recent' \in Seq(BOOLEAN)
         /\ ~ethercatFault' => Invalid(recent') <= 2 * MaxErrors
         /\ ethercatFault' # ethercatFault => Invalid(recent') > MaxErrors
<1> DEFINE n == Len(recent)
           k == cycleCount
           t == Latest(recent, ok)
           m == Len(t)
           older == LostCount(t, 1, m - k - 1)
           lost == IF ok THEN errorCount ELSE errorCount + 1
<1>1. /\ WindowCycles \in Nat /\ WindowCycles > 0 /\ MaxErrors \in Nat
      /\ recent \in Seq(BOOLEAN) /\ ethercatFault \in BOOLEAN /\ n \in Nat
      /\ k \in Nat /\ k < WindowCycles /\ errorCount \in Nat
  <2>1. /\ recent \in Seq(BOOLEAN) /\ ethercatFault \in BOOLEAN
        /\ cycleCount \in 0..WindowCycles-1 /\ errorCount \in 0..cycleCount
    BY DEF TypeOK
  <2>2. QED
    BY <2>1, HardwareCycleAssumption
<1>2. /\ n <= WindowCycles /\ k <= n /\ (n < WindowCycles => k = n)
      /\ LostCount(recent, n - k + 1, n) = errorCount
      /\ ~ethercatFault => LostCount(recent, 1, n - k) <= MaxErrors /\ errorCount <= MaxErrors
  BY DEF WindowIsCounted, Counted
<1>3. /\ t \in Seq(BOOLEAN)
      /\ m \in Nat /\ m <= WindowCycles /\ k + 1 <= m /\ (m < WindowCycles => k + 1 = m)
      /\ LostCount(t, m - k, m) = errorCount + (IF ok THEN 0 ELSE 1)
      /\ older <= LostCount(recent, 1, n - k)
      /\ Invalid(t) = older + LostCount(t, m - k, m)
  <2> HIDE DEF t
  <2>1. t = Latest(recent, ok)
    BY DEF t
  <2>2. QED
    BY <1>1, <1>2, <2>1, LatestIsCounted
<1>4. recent' = t
  BY DEF Remember, Latest
<1>5. /\ cycleCount' = IF k + 1 >= WindowCycles THEN 0 ELSE k + 1
      /\ errorCount' = IF k + 1 >= WindowCycles THEN 0 ELSE lost
      /\ ethercatFault' = (ethercatFault \/ lost > MaxErrors)
  BY DEF Observe, ThresholdExceeded
<1> HIDE DEF t
<1>6. /\ older \in Nat /\ LostCount(recent, 1, n - k) \in Nat /\ lost \in Nat
      /\ LostCount(t, m - k, m) = lost
  BY <1>1, <1>3, LostCountType
<1> HIDE DEF n, k, m, older, lost
<1>7. /\ ~ethercatFault' => Invalid(t) <= 2 * MaxErrors
      /\ ethercatFault' # ethercatFault => Invalid(t) > MaxErrors
      /\ ~ethercatFault' => older <= MaxErrors /\ lost <= MaxErrors
  <2>1. ~ethercatFault' => ~ethercatFault /\ lost <= MaxErrors
    <3>1. ~ethercatFault' => ~ethercatFault /\ ~(lost > MaxErrors)
      BY <1>5, Zenon
    <3>2. ~(lost > MaxErrors) <=> lost <= MaxErrors
      BY <1>1, <1>6
    <3>3. QED
      BY <3>1, <3>2, Zenon
  <2>2. ethercatFault' # ethercatFault => lost > MaxErrors
    BY <1>1, <1>5
  <2>3. QED
    BY <1>1, <1>2, <1>3, <1>6, <2>1, <2>2
<1>8. CASE k + 1 >= WindowCycles
  <2>1. m = WindowCycles /\ k + 1 = m /\ m - 0 = m /\ m - k = 1 /\ m - k - 1 < 1
          /\ m + 1 \in Int /\ m \in Int /\ m < m + 1
    BY <1>1, <1>3, <1>8
  <2>2. LostCount(t, m + 1, m) = 0
    BY <2>1, LostCountEmpty
  <2>3. older = 0 /\ LostCount(t, 1, m) = lost
    <3>1. LostCount(t, 1, m - k - 1) = 0
      BY <2>1, <1>1, <1>3, LostCountEmpty
    <3>2. QED
      BY <3>1, <2>1, <1>6 DEF older
  <2>4. Counted(t, 0, 0, ethercatFault')
    BY <1>1, <1>3, <1>7, <2>1, <2>2, <2>3 DEF Counted, m
  <2>5. cycleCount' = 0 /\ errorCount' = 0
    BY <1>5, <1>8 DEF k
  <2>6. WindowIsCounted'
    BY <1>4, <2>4, <2>5 DEF WindowIsCounted
  <2>7. QED
    BY <1>3, <1>4, <1>7, <2>6
<1>9. CASE k + 1 < WindowCycles
  <2>1. m - (k + 1) + 1 = m - k /\ m - (k + 1) = m - k - 1
    BY <1>1, <1>3
  <2>2. Counted(t, k + 1, lost, ethercatFault')
    BY <1>3, <1>6, <1>7, <2>1 DEF Counted, m, older
  <2>3. cycleCount' = k + 1 /\ errorCount' = lost
    BY <1>1, <1>5, <1>9
  <2>4. WindowIsCounted'
    BY <1>4, <2>2, <2>3 DEF WindowIsCounted
  <2>5. QED
    BY <1>3, <1>4, <1>7, <2>4
<1>10. QED
  BY <1>1, <1>8, <1>9

-----------------------------------------------------------------------------
(* The streaks of the CAN monitors. *)

\* Saturation keeps the order of two streaks, and the limit.
LEMMA SaturatedMonotonic ==
  ASSUME NEW limit \in Nat, NEW x \in 0..limit, NEW y \in 0..limit, x <= y
  PROVE  /\ Saturated(x, limit) \in 0..limit
         /\ Saturated(x, limit) <= Saturated(y, limit)
BY DEF Saturated

\* What updateChannel() makes of a monitor.
LEMMA UpdatedMonitor ==
  ASSUME NEW monitor \in Monitor, NEW current \in 0..Width-1,
         monitor.bad = FaultSamples => monitor.fault,
         ~monitor.initialized => monitor = NoMonitor,
         NEW updated, updated = UpdateChannel(monitor, current)
  PROVE  /\ updated \in Monitor
         /\ updated.initialized
         /\ updated.lastValue = current
         /\ updated.bad = IF monitor.initialized /\ Delta(monitor, current) > DeltaThreshold
                          THEN Saturated(monitor.bad, FaultSamples) ELSE 0
         /\ updated.bad = FaultSamples => updated.fault
         /\ updated.fault => monitor.fault \/ updated.bad = FaultSamples
<1>1. /\ FaultSamples \in Nat /\ FaultSamples > 0
      /\ RecoverySamples \in Nat /\ RecoverySamples > 0
      /\ DeltaThreshold \in Nat /\ Width \in Nat
  BY HardwareCycleAssumption
<1>2. /\ monitor.lastValue \in 0..Width-1 /\ monitor.bad \in 0..FaultSamples
      /\ monitor.good \in 0..RecoverySamples
      /\ monitor.fault \in BOOLEAN /\ monitor.initialized \in BOOLEAN
  BY DEF Monitor
<1> DEFINE bad == Saturated(monitor.bad, FaultSamples)
           good == Saturated(monitor.good, RecoverySamples)
<1>3. bad \in 0..FaultSamples /\ good \in 0..RecoverySamples
  BY <1>1, <1>2, SaturatedMonotonic
<1> HIDE DEF bad, good
<1>4. CASE ~monitor.initialized
  <2>1. updated = [monitor EXCEPT !.lastValue = current, !.initialized = TRUE]
    BY <1>4 DEF UpdateChannel
  <2>2. monitor.bad = 0 /\ monitor.fault = FALSE
    BY <1>4 DEF NoMonitor
  <2>3. QED
    BY <1>1, <1>4, <2>1, <2>2 DEF Monitor
<1>5. CASE monitor.initialized /\ Delta(monitor, current) > DeltaThreshold
  <2>1. updated = [monitor EXCEPT !.lastValue = current, !.bad = bad, !.good = 0,
                                  !.fault = @ \/ bad >= FaultSamples]
    BY <1>5 DEF UpdateChannel, bad
  <2>2. updated \in Monitor
    <3> DEFINE fault == monitor.fault \/ bad >= FaultSamples
    <3>1. fault \in BOOLEAN
      OBVIOUS
    <3>2. updated = [monitor EXCEPT !.lastValue = current, !.bad = bad, !.good = 0,
                                    !.fault = fault]
      BY <2>1
    <3> HIDE DEF fault
    <3>3. 0 \in 0..FaultSamples /\ 0 \in 0..RecoverySamples
      BY <1>1
    <3>4. QED
      BY <1>3, <3>1, <3>2, <3>3 DEF Monitor
  <2>3. /\ updated.initialized /\ updated.lastValue = current /\ updated.bad = bad
        /\ updated.fault = (monitor.fault \/ bad >= FaultSamples)
    BY <1>5, <2>1 DEF Monitor
  <2>4. bad = FaultSamples <=> bad >= FaultSamples
    BY <1>1, <1>3
  <2>5. /\ updated.bad = FaultSamples => updated.fault
        /\ updated.fault => monitor.fault \/ updated.bad = FaultSamples
    BY <2>3, <2>4, Zenon
  <2>6. QED
    BY <1>5, <2>2, <2>3, <2>5 DEF bad
<1>6. CASE monitor.initialized /\ ~(Delta(monitor, current) > DeltaThreshold)
  <2>1. updated = [monitor EXCEPT !.lastValue = current, !.bad = 0, !.good = good,
                                  !.fault = @ /\ good < RecoverySamples]
    BY <1>6 DEF UpdateChannel, good
  <2>2. updated \in Monitor
    <3> DEFINE fault == monitor.fault /\ good < RecoverySamples
    <3>1. fault \in BOOLEAN
      OBVIOUS
    <3>2. updated = [monitor EXCEPT !.lastValue = current, !.bad = 0, !.good = good,
                                    !.fault = fault]
      BY <2>1
    <3> HIDE DEF fault
    <3>3. 0 \in 0..FaultSamples /\ 0 \in 0..RecoverySamples
      BY <1>1
    <3>4. QED
      BY <1>3, <3>1, <3>2, <3>3 DEF Monitor
  <2>3. /\ updated.initialized /\ updated.lastValue = current /\ updated.bad = 0
        /\ updated.fault = (monitor.fault /\ good < RecoverySamples)
    BY <1>6, <2>1 DEF Monitor
  <2>4. updated.fault => monitor.fault
    BY <2>3, Zenon
  <2>5. QED
    BY <1>1, <1>6, <2>2, <2>3, <2>4
<1>7. QED
  BY <1>4, <1>5, <1>6

\* Counted errors, up to the threshold.
Bounded(e) == IF e > DeltaThreshold THEN DeltaThreshold + 1 ELSE e

\* When a counter goes on from x to y, or starts over, it shows no more errors
\* than there were.
LEMMA CounterGoesOn ==
  ASSUME NEW x \in 0..Width-1, NEW last \in 0..Width-1, NEW more \in 0..Width-1,
         NEW e \in 0..DeltaThreshold+1, x >= last => e >= Cap(x, last),
         NEW y \in {0, (x + more) % Width}
  PROVE  /\ y >= last => Bounded(e + more) >= Cap(y, last)
         /\ y >= last /\ y - last > DeltaThreshold => e + more > DeltaThreshold
<1>1. DeltaThreshold \in Nat /\ Width \in Nat /\ Width > 0
  BY HardwareCycleAssumption
<1>2. y \in {0, x + more, x + more - Width} /\ (y = x + more - Width => y < x)
  BY <1>1, Wraps
<1>3. QED
  BY <1>1, <1>2 DEF Cap, Bounded

\* It shows all of them if it neither wraps nor starts over.
LEMMA CounterGoesOnPlainly ==
  ASSUME NEW x \in 0..Width-1, NEW last \in 0..Width-1, NEW more \in 0..Width-1,
         NEW e \in 0..DeltaThreshold+1, x >= last, e = Cap(x, last),
         NEW y, y = (x + more) % Width, y >= x
  PROVE  /\ y >= last /\ Bounded(e + more) = Cap(y, last)
         /\ e + more > DeltaThreshold => y - last > DeltaThreshold
<1>1. DeltaThreshold \in Nat /\ Width \in Nat /\ Width > 0
  BY HardwareCycleAssumption
<1>2. y = x + more
  BY <1>1, Wraps
<1>3. QED
  BY <1>1, <1>2 DEF Cap, Bounded

-----------------------------------------------------------------------------
(* The steps. *)

\* What a valid read makes of a channel.
LEMMA ReadChannel ==
  ASSUME IInv, Read, dataValid, NEW c \in Channels
  PROVE  /\ monitors' \in [Channels -> Monitor]
         /\ c \in Enabled => /\ monitors'[c].initialized
                             /\ monitors'[c].lastValue = image[c]
                             /\ monitors'[c].bad = NextBad(c)
                             /\ monitors'[c].bad = FaultSamples => monitors'[c].fault
                             /\ monitors'[c].fault =>
                                  monitors[c].fault \/ monitors'[c].bad = FaultSamples
         /\ c \notin Enabled => monitors'[c] = NoMonitor
         /\ monitors'[c].fault => c \in latched'
<1>1. /\ monitors \in [Channels -> Monitor] /\ image \in [Channels -> 0..Width-1]
      /\ Enabled \subseteq Channels
  BY HardwareCycleAssumption DEF IInv, TypeOK
<1>2. monitors' = [d \in Channels |-> IF d \in Enabled THEN UpdateChannel(monitors[d], image[d])
                                                      ELSE monitors[d]]
  BY DEF Read
<1>3. latched' = latched \cup {d \in Channels : monitors'[d].fault}
  BY <1>2 DEF Read, LatchedAfter, Faulted
<1>4. ASSUME NEW d \in Channels
      PROVE  /\ monitors'[d] \in Monitor
             /\ d \in Enabled => /\ monitors'[d].initialized
                                 /\ monitors'[d].lastValue = image[d]
                                 /\ monitors'[d].bad = NextBad(d)
                                 /\ monitors'[d].bad = FaultSamples => monitors'[d].fault
                                 /\ monitors'[d].fault =>
                                      monitors[d].fault \/ monitors'[d].bad = FaultSamples
             /\ d \notin Enabled => monitors'[d] = NoMonitor
  <2>1. /\ monitors[d].bad = FaultSamples => monitors[d].fault
        /\ ~monitors[d].initialized => monitors[d] = NoMonitor
        /\ d \notin Enabled => monitors[d] = NoMonitor
    BY DEF IInv, StreaksAreBounded
  <2>2. monitors[d] \in Monitor /\ image[d] \in 0..Width-1
    BY <1>1
  <2>3. CASE d \in Enabled
    <3>1. monitors'[d] = UpdateChannel(monitors[d], image[d])
      BY <1>2, <2>3
    <3>2. QED
      BY <2>1, <2>2, <2>3, <3>1, UpdatedMonitor DEF NextBad
  <2>4. CASE d \notin Enabled
    BY <1>2, <2>1, <2>2, <2>4
  <2>5. QED
    BY <2>3, <2>4
<1>5. monitors' \in [Channels -> Monitor]
  BY <1>2, <1>4
<1>6. QED
  BY <1>3, <1>4, <1>5

\* read() keeps the invariant, and what it latches has a cause.
LEMMA ReadStep ==
  ASSUME IInv, Read
  PROVE  IInv' /\ \A c \in latched' \ latched : bursts[c] = FaultSamples
<1>1. /\ at = "read" /\ at' = "update" /\ commanded' = FALSE
      /\ UNCHANGED <<dataValid, cycleCount, errorCount, ethercatFault, counters, image,
                     nonFinite, frame, recent, errors, restarted, bursts, plainBursts, condemned>>
  BY DEF Read, Cycle, window, boards, history
<1>2. WindowIsCounted'
  BY <1>1 DEF IInv, WindowIsCounted
<1>3. ~Unread'
  BY <1>1 DEF Unread
<1>4. Frames'
  BY <1>1 DEF Frames, MotorFaultsFailClosed, BusFaultsFailClosed, NoLeftoverCommand, WholeFrames,
              Sent
<1>5. FaultSamples \in Nat /\ FaultSamples > 0 /\ DeltaThreshold \in Nat
        /\ Enabled \subseteq Channels
  BY HardwareCycleAssumption
<1>6. CASE ~dataValid
  <2>1. UNCHANGED <<monitors, latched, commands>>
    BY <1>6 DEF Read, can
  <2>2. ~Unread
    BY <1>6 DEF Unread
  <2>3. TypeOK'
    BY <1>1, <2>1 DEF IInv, TypeOK, Monitor
  <2>4. StreaksAreBounded'
    BY <1>1, <1>3, <2>1, <2>2 DEF IInv, StreaksAreBounded, CounterShows
  <2>5. FaultsAreLatched' /\ CommandsAreFresh'
    BY <1>1, <1>3, <1>6, <2>1, <2>2 DEF IInv, FaultsAreLatched, CommandsAreFresh
  <2>6. QED
    BY <1>2, <1>4, <2>1, <2>3, <2>4, <2>5 DEF IInv
<1>7. CASE dataValid
  <2>1. Unread
    BY <1>1, <1>7 DEF Unread
  <2>2. commands' = [m \in Motors |-> "damping"]
    BY <1>7 DEF Read, AllMotors
  <2>3. latched \subseteq latched'
          /\ latched' \subseteq latched \cup {c \in Channels : monitors'[c].fault}
    BY <1>7 DEF Read, LatchedAfter, Faulted
  <2>4. ASSUME NEW c \in Channels, monitors'[c].fault, c \notin latched
        PROVE  c \in Enabled /\ bursts[c] = FaultSamples
    <3>1. ~monitors[c].fault
      BY <2>4 DEF IInv, StreaksAreBounded
    <3>2. c \in Enabled
      BY <1>7, <2>4, ReadChannel DEF NoMonitor
    <3>3. NextBad(c) = FaultSamples
      BY <1>7, <2>4, <3>1, <3>2, ReadChannel
    <3>4. NextBad(c) <= bursts[c] /\ bursts[c] \in 0..FaultSamples
      BY <2>1, <3>2 DEF IInv, StreaksAreBounded, TypeOK
    <3>5. QED
      BY <1>5, <3>2, <3>3, <3>4
  <2>5. \A c \in latched' \ latched : c \in Enabled /\ bursts[c] = FaultSamples
    BY <2>3, <2>4
  <2>6. TypeOK'
    <3>1. latched' \in SUBSET Enabled
      BY <2>5 DEF IInv, TypeOK
    <3>2. monitors' \in [Channels -> Monitor]
      <4>1. CASE Channels = {}
        BY <4>1, <1>7 DEF Read
      <4>2. CASE Channels # {}
        BY <4>2, <1>7, ReadChannel
      <4>3. QED
        BY <4>1, <4>2
    <3>3. commands' \in [Motors -> {"damping", "controller"}]
      BY <2>2
    <3>4. QED
      BY <1>1, <3>1, <3>2, <3>3 DEF IInv, TypeOK, Monitor
  <2>7. StreaksAreBounded'
    <3> SUFFICES ASSUME NEW c \in Channels
                 PROVE  /\ c \notin Enabled => monitors'[c] = NoMonitor
                        /\ ~monitors'[c].initialized =>
                             monitors'[c] = NoMonitor /\ bursts[c] = 0 /\ plainBursts[c] = 0
                        /\ monitors'[c].bad = FaultSamples => monitors'[c].fault
                        /\ monitors'[c].fault => c \in latched'
                        /\ plainBursts[c] <= monitors'[c].bad /\ monitors'[c].bad <= bursts[c]
                        /\ monitors'[c].initialized => CounterShows(c)'
      BY <1>1, <1>3 DEF StreaksAreBounded
    <3>1. CASE c \in Enabled
      <4>1. plainBursts[c] <= NextBad(c) /\ NextBad(c) <= bursts[c]
        BY <2>1, <3>1 DEF IInv, StreaksAreBounded
      <4>2. CounterShows(c)'
        <5>1. counters[c] = image[c] /\ errors[c] = 0 /\ ~restarted[c] /\ image[c] \in 0..Width-1
          BY <2>1 DEF IInv, StreaksAreBounded, TypeOK
        <5>2. monitors'[c].lastValue = image[c]
          BY <1>7, <3>1, ReadChannel
        <5>3. Shows(image[c], image[c], 0, restarted[c])
          BY <1>5, <5>1 DEF Shows, Cap
        <5>4. QED
          BY <1>1, <5>1, <5>2, <5>3 DEF CounterShows
      <4>3. QED
        BY <1>7, <3>1, <4>1, <4>2, ReadChannel
    <3>2. CASE c \notin Enabled
      <4>1. monitors'[c] = NoMonitor /\ monitors[c] = NoMonitor
        BY <1>7, <3>2, ReadChannel DEF IInv, StreaksAreBounded
      <4>2. bursts[c] = 0 /\ plainBursts[c] = 0
        BY <4>1 DEF IInv, StreaksAreBounded, NoMonitor
      <4>3. QED
        BY <1>5, <4>1, <4>2 DEF NoMonitor
    <3>3. QED
      BY <3>1, <3>2
  <2>8. FaultsAreLatched'
    <3>1. CASE latched # {}
      BY <1>1, <2>3, <3>1 DEF IInv, FaultsAreLatched
    <3>2. CASE latched = {} /\ "can" \in condemned
      <4>1. PICK c \in Enabled : plainBursts[c] = FaultSamples
        BY <3>2 DEF IInv, FaultsAreLatched
      <4>2. plainBursts[c] <= NextBad(c) /\ c \in Channels
        BY <1>5, <2>1 DEF IInv, StreaksAreBounded
      <4>3. monitors'[c].bad = NextBad(c) /\ monitors'[c].bad \in 0..FaultSamples
        BY <1>7, <4>2, ReadChannel DEF Monitor
      <4>4. monitors'[c].bad = FaultSamples
        BY <1>5, <4>1, <4>2, <4>3
      <4>5. c \in latched'
        BY <1>7, <4>2, <4>4, ReadChannel
      <4>6. QED
        BY <1>1, <4>5 DEF IInv, FaultsAreLatched
    <3>3. CASE "can" \notin condemned
      BY <1>1, <3>3 DEF IInv, FaultsAreLatched
    <3>4. QED
      BY <3>1, <3>2, <3>3
  <2>9. CommandsAreFresh'
    BY <1>1, <2>2 DEF CommandsAreFresh
  <2>10. QED
    BY <1>2, <1>4, <2>5, <2>6, <2>7, <2>8, <2>9 DEF IInv
<1>8. QED
  BY <1>6, <1>7

\* The controllers keep the invariant.
LEMMA UpdateStep ==
  ASSUME IInv, NEW sets \in BOOLEAN, Update(sets)
  PROVE  IInv'
<1>1. /\ at = "update" /\ at' = "write" /\ commanded' = sets
      /\ commands' = IF sets THEN [m \in Motors |-> "controller"] ELSE commands
      /\ UNCHANGED <<dataValid, cycleCount, errorCount, ethercatFault, counters, image,
                     monitors, latched, nonFinite, frame, recent, errors, restarted, bursts,
                     plainBursts, condemned>>
  BY DEF Update, Cycle, AllMotors, window, boards, can, history
<1>2. ~Unread /\ ~Unread'
  BY <1>1 DEF Unread
<1>3. TypeOK'
  <2>1. commands' \in [Motors -> {"damping", "controller"}]
    BY <1>1 DEF IInv, TypeOK
  <2>2. QED
    BY <1>1, <2>1 DEF IInv, TypeOK, Monitor
<1>4. WindowIsCounted'
  BY <1>1 DEF IInv, WindowIsCounted
<1>5. StreaksAreBounded'
  BY <1>1, <1>2 DEF IInv, StreaksAreBounded, CounterShows
<1>6. FaultsAreLatched' /\ CommandsAreFresh'
  BY <1>1, <1>2 DEF IInv, FaultsAreLatched, CommandsAreFresh
<1>7. Frames'
  BY <1>1 DEF Frames, MotorFaultsFailClosed, BusFaultsFailClosed, NoLeftoverCommand, WholeFrames,
              Sent
<1>8. QED
  BY <1>3, <1>4, <1>5, <1>6, <1>7 DEF IInv

\* write() keeps the invariant: here the latches close the way to the motors.
LEMMA WriteStep ==
  ASSUME IInv, NEW bad \in SUBSET Motors, Write(bad)
  PROVE  IInv'
<1>1. /\ at = "write" /\ at' = "exchange"
      /\ commands' = IF FailClosed THEN [m \in Motors |-> "damping"] ELSE commands
      /\ frame' = [m \in Motors |-> IF m \in Zeroed(bad) THEN "zero"
                                    ELSE IF m \in bad THEN "not finite"
                                    ELSE commands'[m]]
      /\ nonFinite' = (nonFinite \/ bad # {})
      /\ condemned' = IF bad # {} THEN condemned \cup {"command"} ELSE condemned
      /\ UNCHANGED <<dataValid, cycleCount, errorCount, ethercatFault, counters, image,
                     monitors, latched, commanded, recent, errors, restarted, bursts, plainBursts>>
  BY DEF Write, Cycle, AllMotors, window, boards, can
<1>2. ~Unread /\ ~Unread'
  BY <1>1 DEF Unread
<1>3. commands' \in [Motors -> {"damping", "controller"}]
  BY <1>1 DEF IInv, TypeOK
<1>4. \A m \in Motors : frame'[m] \in {"damping", "controller", "zero"}
                         /\ (bad # {} <=> frame'[m] = "zero")
                         /\ (bad = {} => frame'[m] = commands'[m])
  BY <1>1, <1>3 DEF Zeroed
<1>5. TypeOK'
  <2>1. frame' \in [Motors -> {"damping", "controller", "zero", "not finite"}]
    BY <1>1, <1>3
  <2>2. nonFinite' \in BOOLEAN /\ condemned' \in SUBSET {"bus", "can", "command"}
    BY <1>1 DEF IInv, TypeOK
  <2>3. QED
    BY <1>1, <1>3, <2>1, <2>2 DEF IInv, TypeOK, Monitor
<1>6. WindowIsCounted'
  BY <1>1 DEF IInv, WindowIsCounted
<1>7. StreaksAreBounded'
  BY <1>1, <1>2 DEF IInv, StreaksAreBounded, CounterShows
<1>8. FaultsAreLatched' /\ CommandsAreFresh'
  BY <1>1, <1>2 DEF IInv, FaultsAreLatched, CommandsAreFresh
<1>9. Frames'
  <2>1. FailClosed /\ bad = {} => \A m \in Motors : frame'[m] = "damping"
    BY <1>1, <1>4
  <2>2. "can" \in condemned => FailClosed
    BY <1>2 DEF IInv, FaultsAreLatched, FailClosed
  <2>3. "command" \in condemned \/ "bus" \in condemned => FailClosed
    BY DEF IInv, FaultsAreLatched, FailClosed
  <2>4. MotorFaultsFailClosed' /\ BusFaultsFailClosed'
    BY <1>1, <1>4, <2>1, <2>2, <2>3 DEF MotorFaultsFailClosed, BusFaultsFailClosed, SafeFrame
  <2>5. NoLeftoverCommand'
    <3> SUFFICES ASSUME NEW m \in Motors, frame'[m] = "controller"
                 PROVE  commanded /\ dataValid
      BY <1>1 DEF NoLeftoverCommand
    <3>1. bad = {} /\ commands'[m] = "controller"
      BY <1>4
    <3>2. ~FailClosed /\ commands[m] = "controller"
      BY <1>1, <3>1
    <3>3. QED
      BY <1>1, <3>2 DEF FailClosed, IInv, CommandsAreFresh
  <2>6. WholeFrames'
    BY <1>1, <1>4 DEF WholeFrames
  <2>7. QED
    BY <2>4, <2>5, <2>6 DEF Frames
<1>10. QED
  BY <1>5, <1>6, <1>7, <1>8, <1>9 DEF IInv

\* What an exchange makes of a channel.
LEMMA ExchangeChannel ==
  ASSUME IInv, NEW ok \in BOOLEAN, NEW step \in [Channels -> Growth],
         NEW reset \in SUBSET Channels, Exchange(ok, step, reset), NEW c \in Channels,
         monitors[c].initialized
  PROVE  /\ Shows(counters'[c], monitors[c].lastValue, Bounded(Grown(c, step)),
                  Hidden(c, reset))
         /\ Delta(monitors[c], counters'[c]) > DeltaThreshold => Burst(c, step)
         /\ Burst(c, step) /\ ~Hidden(c, reset) =>
              Delta(monitors[c], counters'[c]) > DeltaThreshold
<1> DEFINE x == counters[c]
           y == counters'[c]
           last == monitors[c].lastValue
           e == errors[c]
           more == step[c]
<1>1. /\ x \in 0..Width-1 /\ last \in 0..Width-1 /\ more \in 0..Width-1
      /\ e \in 0..DeltaThreshold+1
  <2>1. /\ counters \in [Channels -> 0..Width-1] /\ monitors \in [Channels -> Monitor]
        /\ errors \in [Channels -> 0..DeltaThreshold+1] /\ Growth \subseteq 0..Width-1
    BY HardwareCycleAssumption DEF IInv, TypeOK
  <2>2. x \in 0..Width-1 /\ e \in 0..DeltaThreshold+1 /\ more \in 0..Width-1
    BY <2>1
  <2>3. last \in 0..Width-1
    BY <2>1 DEF Monitor
  <2>4. QED
    BY <2>2, <2>3
<1>2. /\ x >= last => e >= Cap(x, last)
      /\ ~restarted[c] => x >= last /\ e = Cap(x, last)
  <2>1. at = "exchange"
    BY DEF Exchange, Cycle
  <2>2. QED
    BY <2>1 DEF IInv, StreaksAreBounded, Unread, CounterShows, Shows
<1>3. /\ y \in {0, (x + more) % Width}
      /\ c \notin reset => y = (x + more) % Width
  BY DEF Exchange
<1>4. ~Hidden(c, reset) => ~restarted[c] /\ c \notin reset /\ ~(y < x)
  BY DEF Hidden
<1>5. Grown(c, step) = e + more /\ (Burst(c, step) <=> e + more > DeltaThreshold)
  BY DEF Grown, Burst
<1>6. y \in 0..Width-1 /\ Width \in Nat /\ DeltaThreshold \in Nat
  <2>1. Width \in Nat /\ Width > 0 /\ DeltaThreshold \in Nat
    BY HardwareCycleAssumption
  <2> HIDE DEF x, y, more
  <2>2. QED
    BY <1>1, <1>3, <2>1, Wraps
<1>7. Delta(monitors[c], y) > DeltaThreshold <=> y >= last /\ y - last > DeltaThreshold
  <2>1. Delta(monitors[c], y) = IF y >= last THEN y - last ELSE 0
    BY DEF Delta
  <2> HIDE DEF y, last
  <2>2. QED
    BY <1>1, <1>6, <2>1
<1>8. /\ y >= last => Bounded(e + more) >= Cap(y, last)
      /\ y >= last /\ y - last > DeltaThreshold => e + more > DeltaThreshold
  <2>1. (x >= last => e >= Cap(x, last)) /\ y \in {0, (x + more) % Width}
    BY <1>2, <1>3
  <2> HIDE DEF x, y, last, e, more
  <2>2. QED
    BY <1>1, <2>1, CounterGoesOn, ZenonT(20)
<1>9. ~Hidden(c, reset) =>
        /\ y >= last /\ Bounded(e + more) = Cap(y, last)
        /\ e + more > DeltaThreshold => y - last > DeltaThreshold
  <2> SUFFICES ASSUME ~Hidden(c, reset)
               PROVE  /\ y >= last /\ Bounded(e + more) = Cap(y, last)
                      /\ e + more > DeltaThreshold => y - last > DeltaThreshold
    OBVIOUS
  <2>1. x >= last /\ e = Cap(x, last) /\ y = (x + more) % Width /\ y >= x
    <3>1. ~restarted[c] /\ c \notin reset /\ ~(y < x)
      BY <1>4
    <3> HIDE DEF x, y, last, e, more
    <3>2. QED
      BY <1>1, <1>2, <1>3, <1>6, <3>1
  <2> HIDE DEF x, y, last, e, more
  <2>2. QED
    BY <1>1, <2>1, CounterGoesOnPlainly
<1> HIDE DEF x, y, last, e, more
<1>10. QED
  BY <1>5, <1>7, <1>8, <1>9 DEF Shows, y, last

\* The exchange keeps the invariant, and a new fault of the bus has a cause.
LEMMA ExchangeStep ==
  ASSUME IInv, NEW ok \in BOOLEAN, NEW step \in [Channels -> Growth],
         NEW reset \in SUBSET Channels, Exchange(ok, step, reset)
  PROVE  IInv' /\ (ethercatFault' # ethercatFault => Invalid(recent') > MaxErrors)
<1>1. /\ at = "exchange" /\ at' = "read" /\ dataValid' = ok
      /\ Observe(ok) /\ Remember(ok)
      /\ counters' = [c \in Channels |-> IF c \in reset THEN 0
                                         ELSE (counters[c] + step[c]) % Width]
      /\ image' = IF ok THEN counters' ELSE image
      /\ UNCHANGED <<monitors, latched, nonFinite, commands, frame, commanded>>
      /\ condemned' = condemned
           \cup {f \in {"bus"} : Invalid(recent') > 2 * MaxErrors}
           \cup {f \in {"can"} : \E c \in Enabled : plainBursts'[c] = FaultSamples}
  BY DEF Exchange, Cycle, Account, can
<1>2. /\ FaultSamples \in Nat /\ FaultSamples > 0 /\ DeltaThreshold \in Nat
      /\ Enabled \subseteq Channels /\ Growth \subseteq 0..Width-1
      /\ Width \in Nat /\ Width > 0 /\ WindowCycles \in Nat /\ WindowCycles > 0
      /\ MaxErrors \in Nat
  BY HardwareCycleAssumption
<1>3. ~Unread
  BY <1>1 DEF Unread
<1>4. /\ bursts \in [Channels -> 0..FaultSamples] /\ plainBursts \in [Channels -> 0..FaultSamples]
      /\ monitors \in [Channels -> Monitor] /\ errors \in [Channels -> 0..DeltaThreshold+1]
      /\ counters \in [Channels -> 0..Width-1] /\ image \in [Channels -> 0..Width-1]
      /\ cycleCount \in 0..WindowCycles-1 /\ errorCount \in 0..cycleCount
      /\ ethercatFault \in BOOLEAN
  BY DEF IInv, TypeOK
<1>5. /\ WindowIsCounted'
      /\ recent' \in Seq(BOOLEAN)
      /\ ~ethercatFault' => Invalid(recent') <= 2 * MaxErrors
      /\ ethercatFault' # ethercatFault => Invalid(recent') > MaxErrors
  BY <1>1, ExchangeIsCounted DEF IInv
<1>6. /\ cycleCount' \in 0..WindowCycles-1 /\ errorCount' \in 0..cycleCount'
      /\ ethercatFault' \in BOOLEAN /\ (ethercatFault => ethercatFault')
  <2>1. ethercatFault' \in BOOLEAN /\ (ethercatFault => ethercatFault')
    BY <1>1 DEF Observe
  <2>2. cycleCount' \in 0..WindowCycles-1 /\ errorCount' \in 0..cycleCount'
    BY <1>1, <1>2, <1>4 DEF Observe
  <2>3. QED
    BY <2>1, <2>2
<1>7. counters' \in [Channels -> 0..Width-1] /\ image' \in [Channels -> 0..Width-1]
  <2>1. ASSUME NEW c \in Channels
        PROVE  (IF c \in reset THEN 0 ELSE (counters[c] + step[c]) % Width) \in 0..Width-1
    <3>1. counters[c] \in 0..Width-1 /\ step[c] \in 0..Width-1
      BY <1>2, <1>4
    <3>2. (counters[c] + step[c]) % Width \in 0..Width-1
      BY <1>2, <3>1, Wraps
    <3>3. QED
      BY <1>2, <3>2
  <2>2. QED
    BY <1>1, <1>4, <2>1
<1>8. ASSUME NEW c \in Channels
      PROVE  /\ Saturated(bursts[c], FaultSamples) \in 0..FaultSamples
             /\ Saturated(plainBursts[c], FaultSamples) \in 0..FaultSamples
             /\ Saturated(monitors[c].bad, FaultSamples) \in 0..FaultSamples
             /\ plainBursts[c] <= monitors[c].bad /\ monitors[c].bad <= bursts[c]
             /\ Saturated(plainBursts[c], FaultSamples) <= Saturated(monitors[c].bad, FaultSamples)
             /\ Saturated(monitors[c].bad, FaultSamples) <= Saturated(bursts[c], FaultSamples)
             /\ bursts[c] \in 0..FaultSamples /\ plainBursts[c] \in 0..FaultSamples
             /\ monitors[c].bad \in 0..FaultSamples
             /\ Bounded(Grown(c, step)) \in 0..DeltaThreshold+1
  <2>1. bursts[c] \in 0..FaultSamples /\ plainBursts[c] \in 0..FaultSamples
    BY <1>4
  <2>2. monitors[c].bad \in 0..FaultSamples
    BY <1>4 DEF Monitor
  <2>3. plainBursts[c] <= monitors[c].bad /\ monitors[c].bad <= bursts[c]
    BY <1>3 DEF IInv, StreaksAreBounded
  <2>4. errors[c] \in 0..DeltaThreshold+1 /\ step[c] \in 0..Width-1
    BY <1>2, <1>4
  <2>5. Bounded(Grown(c, step)) \in 0..DeltaThreshold+1
    BY <1>2, <2>4 DEF Bounded, Grown
  <2>6. FaultSamples \in Nat
    BY <1>2
  <2>7. /\ Saturated(plainBursts[c], FaultSamples) \in 0..FaultSamples
        /\ Saturated(plainBursts[c], FaultSamples) <= Saturated(monitors[c].bad, FaultSamples)
    BY <2>1, <2>2, <2>3, <2>6, SaturatedMonotonic
  <2>8. /\ Saturated(monitors[c].bad, FaultSamples) \in 0..FaultSamples
        /\ Saturated(monitors[c].bad, FaultSamples) <= Saturated(bursts[c], FaultSamples)
    BY <2>1, <2>2, <2>3, <2>6, SaturatedMonotonic
  <2>9. bursts[c] <= bursts[c]
    BY <2>1, <2>6
  <2>10. Saturated(bursts[c], FaultSamples) \in 0..FaultSamples
    BY <2>1, <2>6, <2>9, SaturatedMonotonic
  <2>11. QED
    BY <2>1, <2>2, <2>3, <2>5, <2>7, <2>8, <2>10
<1>9. ASSUME ok
      PROVE  /\ bursts' \in [Channels -> 0..FaultSamples]
             /\ plainBursts' \in [Channels -> 0..FaultSamples]
             /\ errors' \in [Channels -> 0..DeltaThreshold+1]
             /\ restarted' \in [Channels -> BOOLEAN]
             /\ StreaksAreBounded'
             /\ "can" \in condemned' =>
                  latched' # {} \/ (Unread' /\ \E c \in Enabled : plainBursts'[c] = FaultSamples)
  <2>1. /\ errors' = [c \in Channels |-> 0] /\ restarted' = [c \in Channels |-> FALSE]
        /\ bursts' = [c \in Channels |->
             IF Burst(c, step) THEN Saturated(bursts[c], FaultSamples) ELSE 0]
        /\ plainBursts' = [c \in Channels |->
             IF Burst(c, step) /\ ~Hidden(c, reset)
             THEN Saturated(plainBursts[c], FaultSamples) ELSE 0]
    BY <1>9 DEF Exchange, Account, AllChannels
  <2>2. /\ bursts' \in [Channels -> 0..FaultSamples]
        /\ plainBursts' \in [Channels -> 0..FaultSamples]
        /\ errors' \in [Channels -> 0..DeltaThreshold+1] /\ restarted' \in [Channels -> BOOLEAN]
    BY <1>2, <1>8, <2>1
  <2>3. Unread' /\ image' = counters'
    BY <1>1, <1>9 DEF Unread
  <2>4. StreaksAreBounded'
    <3> SUFFICES ASSUME NEW c \in Channels
                 PROVE  /\ c \notin Enabled => monitors[c] = NoMonitor
                        /\ ~monitors[c].initialized =>
                             monitors[c] = NoMonitor /\ bursts'[c] = 0 /\ plainBursts'[c] = 0
                        /\ monitors[c].bad = FaultSamples => monitors[c].fault
                        /\ monitors[c].fault => c \in latched
                        /\ errors'[c] = 0 /\ ~restarted'[c]
                        /\ plainBursts'[c] <= NextBad(c)' /\ NextBad(c)' <= bursts'[c]
      BY <1>1, <2>3 DEF StreaksAreBounded
    <3>1. /\ c \notin Enabled => monitors[c] = NoMonitor
          /\ ~monitors[c].initialized => monitors[c] = NoMonitor
          /\ monitors[c].bad = FaultSamples => monitors[c].fault
          /\ monitors[c].fault => c \in latched
      BY DEF IInv, StreaksAreBounded
    <3>2. errors'[c] = 0 /\ ~restarted'[c]
      BY <2>1
    <3>3. NextBad(c)' =
            IF monitors[c].initialized /\ Delta(monitors[c], counters'[c]) > DeltaThreshold
            THEN Saturated(monitors[c].bad, FaultSamples) ELSE 0
      BY <1>1, <2>3 DEF NextBad
    <3>4. CASE monitors[c].initialized
      <4>1. /\ Delta(monitors[c], counters'[c]) > DeltaThreshold => Burst(c, step)
            /\ Burst(c, step) /\ ~Hidden(c, reset) =>
                 Delta(monitors[c], counters'[c]) > DeltaThreshold
        BY <3>4, ExchangeChannel
      <4>2. plainBursts'[c] <= NextBad(c)' /\ NextBad(c)' <= bursts'[c]
        BY <1>2, <1>8, <2>1, <3>3, <3>4, <4>1
      <4>3. QED
        BY <3>1, <3>2, <3>4, <4>2
    <3>5. CASE ~monitors[c].initialized
      <4>1. ~Burst(c, step)
        BY <3>5 DEF Burst
      <4>2. bursts'[c] = 0 /\ plainBursts'[c] = 0 /\ NextBad(c)' = 0
        BY <2>1, <3>3, <3>5, <4>1
      <4>3. QED
        BY <1>2, <3>1, <3>2, <4>2
    <3>6. QED
      BY <3>4, <3>5
  <2>5. "can" \in condemned' =>
          latched' # {} \/ (Unread' /\ \E c \in Enabled : plainBursts'[c] = FaultSamples)
    BY <1>1, <1>3, <2>3 DEF IInv, FaultsAreLatched
  <2>6. QED
    BY <2>2, <2>4, <2>5
<1>10. ASSUME ~ok
      PROVE  /\ bursts' \in [Channels -> 0..FaultSamples]
             /\ plainBursts' \in [Channels -> 0..FaultSamples]
             /\ errors' \in [Channels -> 0..DeltaThreshold+1]
             /\ restarted' \in [Channels -> BOOLEAN]
             /\ StreaksAreBounded'
             /\ "can" \in condemned' =>
                  latched' # {} \/ (Unread' /\ \E c \in Enabled : plainBursts'[c] = FaultSamples)
  <2>1. /\ errors' = [c \in Channels |-> Bounded(Grown(c, step))]
        /\ restarted' = [c \in Channels |-> Hidden(c, reset)]
        /\ bursts' = bursts /\ plainBursts' = plainBursts
    BY <1>10 DEF Exchange, Account, Bounded
  <2>2. errors' \in [Channels -> 0..DeltaThreshold+1] /\ restarted' \in [Channels -> BOOLEAN]
    BY <1>8, <2>1 DEF Hidden
  <2>3. ~Unread'
    BY <1>1, <1>10 DEF Unread
  <2>4. StreaksAreBounded'
    <3> SUFFICES ASSUME NEW c \in Channels, monitors[c].initialized
                 PROVE  CounterShows(c)'
      BY <1>1, <1>3, <2>1, <2>3 DEF IInv, StreaksAreBounded
    <3>1. Shows(counters'[c], monitors[c].lastValue, Bounded(Grown(c, step)), Hidden(c, reset))
      BY ExchangeChannel
    <3>2. errors'[c] = Bounded(Grown(c, step)) /\ restarted'[c] = Hidden(c, reset)
      BY <2>1
    <3>3. QED
      BY <1>1, <3>1, <3>2 DEF CounterShows
  <2>5. "can" \in condemned' => latched' # {}
    <3>1. "can" \in condemned => latched # {}
      BY <1>3 DEF IInv, FaultsAreLatched
    <3>2. ASSUME NEW c \in Enabled, plainBursts[c] = FaultSamples
          PROVE  c \in latched
      <4>1. c \in Channels
        BY <1>2
      <4>2. monitors[c].bad = FaultSamples
        BY <1>2, <1>8, <3>2, <4>1
      <4>3. QED
        BY <4>1, <4>2 DEF IInv, StreaksAreBounded
    <3>3. QED
      BY <1>1, <2>1, <3>1, <3>2
  <2>6. QED
    BY <1>4, <2>1, <2>2, <2>4, <2>5
<1>11. TypeOK'
  <2>1. /\ bursts' \in [Channels -> 0..FaultSamples]
        /\ plainBursts' \in [Channels -> 0..FaultSamples]
        /\ errors' \in [Channels -> 0..DeltaThreshold+1] /\ restarted' \in [Channels -> BOOLEAN]
    BY <1>9, <1>10, Zenon
  <2>2. condemned' \in SUBSET {"bus", "can", "command"}
    BY <1>1 DEF IInv, TypeOK
  <2>3. QED
    BY <1>1, <1>5, <1>6, <1>7, <2>1, <2>2 DEF IInv, TypeOK, Monitor
<1>12. FaultsAreLatched'
  <2>1. "bus" \in condemned' => ethercatFault'
    <3>1. Invalid(recent') \in Nat
      <4>1. DOMAIN recent' = 1..Len(recent') /\ Len(recent') \in Nat
        BY <1>5
      <4>2. Invalid(recent') = LostCount(recent', 1, Len(recent'))
        BY <4>1 DEF Invalid, LostCount, Lost
      <4>3. QED
        BY <4>1, <4>2, LostCountType
    <3>2. Invalid(recent') > 2 * MaxErrors => ethercatFault'
      BY <1>2, <1>5, <3>1
    <3>3. QED
      BY <1>1, <1>6, <3>2 DEF IInv, FaultsAreLatched
  <2>2. "command" \in condemned' => nonFinite'
    BY <1>1 DEF IInv, FaultsAreLatched
  <2>3. QED
    <3>1. "can" \in condemned' =>
            latched' # {} \/ (Unread' /\ \E c \in Enabled : plainBursts'[c] = FaultSamples)
      BY <1>9, <1>10, Zenon
    <3>2. QED
      BY <2>1, <2>2, <3>1 DEF FaultsAreLatched
<1>13. CommandsAreFresh' /\ Frames'
  BY <1>1 DEF CommandsAreFresh, Frames, MotorFaultsFailClosed, BusFaultsFailClosed,
              NoLeftoverCommand, WholeFrames, Sent
<1>14. StreaksAreBounded'
  BY <1>9, <1>10, Zenon
<1>15. QED
  BY <1>5, <1>14, <1>11, <1>12, <1>13 DEF IInv

\* Every step keeps the invariant and latches only with a cause.
LEMMA NextStep ==
  ASSUME IInv, [Next]_vars
  PROVE  /\ IInv'
         /\ \A c \in latched' \ latched : bursts[c] = FaultSamples
         /\ ethercatFault' # ethercatFault => Invalid(recent') > MaxErrors
<1>1. CASE UNCHANGED vars
  <2>1. /\ UNCHANGED <<at, dataValid, cycleCount, errorCount, ethercatFault, counters, image,
                       monitors, latched, nonFinite>>
        /\ UNCHANGED <<commands, frame, commanded, recent, errors, restarted, bursts,
                       plainBursts, condemned>>
    BY <1>1 DEF vars, window, boards, can, history
  <2>2. TypeOK' /\ WindowIsCounted'
    BY <2>1 DEF IInv, TypeOK, WindowIsCounted, Monitor
  <2>3. StreaksAreBounded'
    BY <2>1 DEF IInv, StreaksAreBounded, CounterShows, Unread, NextBad
  <2>4. FaultsAreLatched' /\ CommandsAreFresh'
    BY <2>1 DEF IInv, FaultsAreLatched, CommandsAreFresh, Unread
  <2>5. Frames'
    BY <2>1 DEF IInv, Frames, MotorFaultsFailClosed, BusFaultsFailClosed, NoLeftoverCommand,
                WholeFrames, Sent, SafeFrame
  <2>6. QED
    BY <2>1, <2>2, <2>3, <2>4, <2>5 DEF IInv
<1>2. CASE Read
  BY <1>2, ReadStep DEF Read, window
<1>3. ASSUME NEW sets \in BOOLEAN, Update(sets)
      PROVE  IInv' /\ UNCHANGED <<latched, ethercatFault>>
  BY <1>3, UpdateStep DEF Update, can, window
<1>4. ASSUME NEW bad \in SUBSET Motors, Write(bad)
      PROVE  IInv' /\ UNCHANGED <<latched, ethercatFault>>
  BY <1>4, WriteStep DEF Write, can, window
<1>5. ASSUME NEW ok \in BOOLEAN, NEW step \in [Channels -> Growth],
             NEW reset \in SUBSET Channels, Exchange(ok, step, reset)
      PROVE  /\ IInv' /\ UNCHANGED latched
             /\ ethercatFault' # ethercatFault => Invalid(recent') > MaxErrors
  BY <1>5, ExchangeStep DEF Exchange, can
<1>6. QED
  BY <1>1, <1>2, <1>3, <1>4, <1>5 DEF Next

-----------------------------------------------------------------------------
(* The theorems. *)

\* The invariant holds throughout.
LEMMA AlwaysIInv == Spec => []IInv
<1>1. IInv /\ [Next]_vars => IInv'
  BY NextStep
<1>2. QED
  BY InitIInv, <1>1, PTL DEF Spec

\* Type correctness, for every number of motors and channels and all parameters.
THEOREM TypeCorrect == Spec => []TypeOK
<1>1. IInv => TypeOK
  BY DEF IInv
<1>2. QED
  BY AlwaysIInv, <1>1, PTL

\* After enough bursts of CAN errors or a command that is not finite no
\* controller's command reaches a motor (E2HW::write() fails closed).
THEOREM MotorFaultsAreFinal == Spec => []MotorFaultsFailClosed
<1>1. IInv => MotorFaultsFailClosed
  BY DEF IInv, Frames
<1>2. QED
  BY AlwaysIInv, <1>1, PTL

\* Wherever the fixed window falls, more than twice MaxErrors lost exchanges in
\* a row of WindowCycles damp the robot for good.
THEOREM BusFaultsAreFinal == Spec => []BusFaultsFailClosed
<1>1. IInv => BusFaultsFailClosed
  BY DEF IInv, Frames
<1>2. QED
  BY AlwaysIInv, <1>1, PTL

\* A command left behind by an invalid read is never sent.
THEOREM CommandsAreOfTheirCycle == Spec => []NoLeftoverCommand
<1>1. IInv => NoLeftoverCommand
  BY DEF IInv, Frames
<1>2. QED
  BY AlwaysIInv, <1>1, PTL

\* A frame with a value that is not finite is zero as a whole.
THEOREM FramesAreWhole == Spec => []WholeFrames
<1>1. IInv => WholeFrames
  BY DEF IInv, Frames
<1>2. QED
  BY AlwaysIInv, <1>1, PTL

\* No latch closes without its fault: not by wraps or resets of a board's
\* counter, not by lost exchanges between the samples.
THEOREM NoFalseAlarm == Spec => LatchesAreJustified
<1>1. IInv /\ [Next]_vars =>
        [/\ \A c \in latched' \ latched : bursts[c] = FaultSamples
         /\ ethercatFault' # ethercatFault => Invalid(recent') > MaxErrors]_vars
  BY NextStep
<1>2. QED
  BY AlwaysIInv, <1>1, PTL DEF Spec, LatchesAreJustified
=============================================================================
