------------------------- MODULE ReferenceRetryProofs -------------------------
(***************************************************************************)
(* The schedule of the retries, for any number of reversals and of runs    *)
(* that overlap, any batch size, limit and cap: no retry comes before its  *)
(* time, none counts twice, and none is given up with a reference that     *)
(* came in time.                                                           *)
(***************************************************************************)
EXTENDS ReferenceRetry, FiniteSetTheorems, SequenceTheorems, WellFoundedInduction, TLAPS

-----------------------------------------------------------------------------
(* The inductive invariant *)

(* What a run has written, by the reversals it has written of. *)
Written == UNION {[D -> Row] : D \in SUBSET Reversals}

Run == [pc : {"idle", "claim", "retry"}, now : 0..Horizon \cup {None},
        batch : Seq(Reversals), done : Written]

TypeInv ==
  /\ clock \in 0..Horizon
  /\ reference \in [Reversals -> 0..Horizon \cup {None}]
  /\ rows \in [Reversals -> Row \cup {None}]
  /\ run \in [Runs -> Run]
  /\ crashes \in 0..MaxCrashes

(* A reference that came, came no earlier than this. *)
NotBefore(k, time) == reference[k] # None => reference[k] >= time

(* A pending row is due when it has waited as long as its attempts say,    *)
(* and one that was given up has waited through all of them.               *)
RowSound(k, row) ==
  /\ row.created <= LastArrival
  /\ row.status = "PENDING_REFERENCE" =>
       row.next \in 0..Horizon /\ row.next >= row.created + Waited[row.attempts]
  /\ row.status = "REFERENCE_NOT_FOUND" =>
       clock >= row.created + Patience /\ NotBefore(k, row.created + Patience)

RowsSound == \A k \in Reversals : rows[k] # None => RowSound(k, rows[k])

(* A run works on rows that are due and stay so, because they are locked;  *)
(* what it has written is an outcome of the row as it is committed.        *)
RunSound(r) ==
  /\ run[r].pc # "idle" => run[r].now \in 0..clock
  /\ run[r].pc # "retry" => run[r].done = << >>
  /\ \A i, j \in 1..Len(run[r].batch) : run[r].batch[i] = run[r].batch[j] => i = j
  /\ \A i \in 1..Len(run[r].batch) : run[r].batch[i] \notin DOMAIN run[r].done
  /\ \A k \in Locked(r) : Due(k, run[r].now)
  /\ \A k \in DOMAIN run[r].done :
       \/ run[r].done[k] = Settle(rows[k])
       \/ /\ run[r].done[k] = GiveUp(rows[k]) /\ Exhausted(rows[k])
          /\ NotBefore(k, run[r].now)
       \/ /\ run[r].done[k] = ScheduleReferenceRetry(rows[k], run[r].now, Delay(rows[k].attempts))
          /\ ~Exhausted(rows[k])

RunsSound == \A r \in Runs : RunSound(r)

(* FOR UPDATE: no two runs hold the same row. *)
LocksApart == \A r, t \in Runs : \A k \in Reversals : k \in Locked(r) /\ k \in Locked(t) => r = t

ScheduleInv == TypeInv /\ RowsSound /\ RunsSound /\ LocksApart

-----------------------------------------------------------------------------
(* Numbers *)

LEMMA Smaller ==
  ASSUME NEW a \in Int, NEW b \in Int
  PROVE  /\ Min({a, b}) \in Int /\ Min({a, b}) <= a /\ Min({a, b}) <= b
         /\ Min({a, b}) = a \/ Min({a, b}) = b
<1>1. \E x \in {a, b} : \A y \in {a, b} : x <= y
  BY a <= b \/ b <= a
<1>2. PICK m : m = Min({a, b})
  OBVIOUS
<1>3. m \in {a, b} /\ \A y \in {a, b} : m <= y
  BY <1>1, <1>2 DEF Min
<1> QED
  BY <1>2, <1>3

LEMMA Greater ==
  ASSUME NEW a \in Int, NEW b \in Int
  PROVE  Max({a, b}) \in Int /\ Max({a, b}) >= a /\ Max({a, b}) >= b
<1>1. \E x \in {a, b} : \A y \in {a, b} : x >= y
  BY a <= b \/ b <= a
<1>2. PICK m : m = Max({a, b})
  OBVIOUS
<1>3. m \in {a, b} /\ \A y \in {a, b} : m >= y
  BY <1>1, <1>2 DEF Max
<1> QED
  BY <1>2, <1>3

(* A set of naturals that is not empty has a least one. *)
LEMMA LeastNatural ==
  ASSUME NEW T, T \subseteq Nat, T # {}
  PROVE  \E n \in T : \A m \in T : n <= m
<1> DEFINE Before == OpToRel(<, Nat)
<1>1. \A m, n \in Nat : <<m, n>> \in Before <=> m < n
  BY DEF OpToRel
<1>2. IsWellFoundedOn(Before, Nat)
  BY NatLessThanWellFounded
<1> HIDE DEF Before
<1>3. PICK n \in T : \A m \in T : ~ (<<m, n>> \in Before)
  BY <1>2, WFMin
<1>4. \A m \in T : m \in Nat /\ n \in Nat /\ ~(m < n)
  BY <1>1, <1>3
<1> QED
  BY <1>4

(* Induction, with the property given as the set of what has it. *)
LEMMA Induction ==
  ASSUME NEW T, T \subseteq Nat, 0 \in T, \A n \in T : n + 1 \in T
  PROVE  T = Nat
<1> SUFFICES ASSUME Nat \ T # {} PROVE FALSE
  OBVIOUS
<1>1. PICK n \in Nat \ T : \A m \in Nat \ T : n <= m
  BY LeastNatural
<1>2. n # 0 /\ n - 1 \in Nat /\ n - 1 \in T
  BY <1>1
<1> QED
  BY <1>1, <1>2

-----------------------------------------------------------------------------
(* The delays *)

(* The n-th summand of Waited. *)
Wait(n) == Min({Base * 2 ^ (n - 1), Cap})

(* g is Waited as far as n. *)
WaitedTo(g, n) ==
  g = [i \in 0..n |-> IF i <= 1 THEN Base ELSE g[i - 1] + Wait(i)]

LEMMA WaitedToEach ==
  ASSUME NEW n \in Nat
  PROVE  \E g : WaitedTo(g, n)
<1> DEFINE T == {m \in Nat : \E g : WaitedTo(g, m)}
<1>1. 0 \in T
  <2>1. WaitedTo([i \in 0..0 |-> Base], 0)
    BY DEF WaitedTo
  <2> QED
    BY <2>1
<1>2. ASSUME NEW m \in T PROVE m + 1 \in T
  <2>1. PICK g : WaitedTo(g, m)
    OBVIOUS
  <2> DEFINE h == [i \in 0..(m + 1) |-> IF i <= 1 THEN Base ELSE g[i - 1] + Wait(i)]
  <2>2. ASSUME NEW i \in 0..m PROVE h[i] = g[i]
    BY <2>1 DEF WaitedTo
  <2>3. \A i \in 0..(m + 1) : ~(i <= 1) => i - 1 \in 0..m
    OBVIOUS
  <2>4. h = [i \in 0..(m + 1) |-> IF i <= 1 THEN Base ELSE h[i - 1] + Wait(i)]
    BY <2>2, <2>3
  <2>5. WaitedTo(h, m + 1)
    BY <2>4 DEF WaitedTo
  <2> QED
    BY <2>5
<1> HIDE DEF T
<1>3. T = Nat
  BY <1>1, <1>2, Induction DEF T
<1> QED
  BY <1>3 DEF T

(* Two that go far enough agree. *)
LEMMA WaitedAgree ==
  ASSUME NEW m \in Nat, NEW n \in Nat, NEW g, NEW h, WaitedTo(g, m), WaitedTo(h, n)
  PROVE  \A i \in Nat : i <= m /\ i <= n => g[i] = h[i]
<1> DEFINE T == {i \in Nat : i <= m /\ i <= n => g[i] = h[i]}
<1>1. 0 \in T
  BY DEF WaitedTo
<1>2. ASSUME NEW i \in T PROVE i + 1 \in T
  <2>1. ASSUME i + 1 <= m, i + 1 <= n PROVE g[i + 1] = h[i + 1]
    <3>1. i \in Nat /\ g[i] = h[i] /\ (i + 1) - 1 = i /\ i + 1 \in 0..m /\ i + 1 \in 0..n
      BY <2>1
    <3>2. /\ g[i + 1] = IF i + 1 <= 1 THEN Base ELSE g[(i + 1) - 1] + Wait(i + 1)
          /\ h[i + 1] = IF i + 1 <= 1 THEN Base ELSE h[(i + 1) - 1] + Wait(i + 1)
      BY <3>1 DEF WaitedTo
    <3> QED
      BY <3>1, <3>2
  <2> QED
    BY <2>1
<1> HIDE DEF T
<1>3. T = Nat
  BY <1>1, <1>2, Induction DEF T
<1> QED
  BY <1>3 DEF T

(* What the recursion of Waited says is so. *)
LEMMA WaitedUnfolds ==
  \A n \in Nat : Waited[n] = IF n <= 1 THEN Base ELSE Waited[n - 1] + Wait(n)
<1> DEFINE G(n) == CHOOSE g : WaitedTo(g, n)
           f == [n \in Nat |-> G(n)[n]]
<1>1. ASSUME NEW n \in Nat PROVE WaitedTo(G(n), n)
  BY WaitedToEach
<1>2. ASSUME NEW n \in Nat PROVE f[n] = IF n <= 1 THEN Base ELSE f[n - 1] + Wait(n)
  <2>1. G(n)[n] = IF n <= 1 THEN Base ELSE G(n)[n - 1] + Wait(n)
    <3> HIDE DEF G
    <3> QED
      BY <1>1 DEF WaitedTo
  <2>2. CASE ~(n <= 1)
    <3>1. n - 1 \in Nat /\ n - 1 <= n
      BY <2>2
    <3>2. PICK g, h : g = G(n) /\ h = G(n - 1)
      OBVIOUS
    <3>3. WaitedTo(g, n) /\ WaitedTo(h, n - 1)
      BY <1>1, <3>1, <3>2
    <3>4. g[n - 1] = h[n - 1]
      BY <3>1, <3>3, WaitedAgree
    <3> QED
      BY <2>1, <2>2, <3>1, <3>2, <3>4
  <2> QED
    BY <2>1, <2>2
<1> HIDE DEF f
<1>3. f = [n \in Nat |-> IF n <= 1 THEN Base ELSE f[n - 1] + Wait(n)]
  <2>1. f = [n \in Nat |-> f[n]]
    BY DEF f
  <2> QED
    BY <1>2, <2>1
<1>4. Waited = [n \in Nat |-> IF n <= 1 THEN Base ELSE Waited[n - 1] + Wait(n)]
  BY <1>3 DEF Waited, Wait
<1> QED
  BY <1>4

(* One attempt more waits for the delay of the one before; waiting never   *)
(* gets shorter.                                                           *)
LEMMA DelaysAddUp ==
  ASSUME NEW a \in 1..MaxAttempts
  PROVE  /\ Delay(a) \in Nat
         /\ Waited[a] \in Nat /\ Base <= Waited[a] /\ Waited[a] <= Patience
         /\ a < MaxAttempts => Waited[a + 1] = Waited[a] + Delay(a)
<1>1. ASSUME NEW b \in 1..MaxAttempts PROVE Delay(b) \in Nat
  <2>1. PICK x \in Nat, y \in Nat : x = Base * 2 ^ b /\ y = Cap
    BY PowersAssumption, HorizonAssumption DEF Base
  <2>2. Min({x, y}) \in Nat
    BY Smaller
  <2> QED
    BY <2>1, <2>2 DEF Delay
<1>2. ASSUME NEW b \in 1..MaxAttempts, b < MaxAttempts
      PROVE  Waited[b + 1] = Waited[b] + Delay(b)
  <2>1. b + 1 \in Nat /\ ~(b + 1 <= 1) /\ (b + 1) - 1 = b
    BY <1>2
  <2>2. Wait(b + 1) = Delay(b)
    BY <2>1 DEF Wait, Delay
  <2> QED
    BY <2>1, <2>2, WaitedUnfolds
<1>3. Waited[1] = Base
  BY WaitedUnfolds
<1> DEFINE T == {n \in Nat : n + 1 <= MaxAttempts =>
                   /\ Waited[n + 1] \in Nat
                   /\ \A b \in 1..(n + 1) : Waited[b] \in Nat /\ Base <= Waited[b]
                                            /\ Waited[b] <= Waited[n + 1]}
<1>4. 0 \in T
  BY <1>3 DEF Base
<1>5. ASSUME NEW n \in T PROVE n + 1 \in T
  <2>1. n \in Nat /\ n + 1 \in Nat
    OBVIOUS
  <2>2. ASSUME (n + 1) + 1 <= MaxAttempts
        PROVE  /\ Waited[(n + 1) + 1] \in Nat
               /\ \A b \in 1..((n + 1) + 1) :
                    Waited[b] \in Nat /\ Base <= Waited[b] /\ Waited[b] <= Waited[(n + 1) + 1]
    <3>1. n + 1 \in 1..MaxAttempts /\ n + 1 < MaxAttempts
      BY <2>1, <2>2, HorizonAssumption
    <3>2. Waited[(n + 1) + 1] = Waited[n + 1] + Delay(n + 1) /\ Delay(n + 1) \in Nat
      BY <1>1, <1>2, <3>1
    <3>3. /\ Waited[n + 1] \in Nat /\ Base <= Waited[n + 1]
          /\ \A b \in 1..(n + 1) : Waited[b] \in Nat /\ Base <= Waited[b]
                                   /\ Waited[b] <= Waited[n + 1]
      BY <2>1, <3>1
    <3>4. /\ Waited[(n + 1) + 1] \in Nat /\ Base <= Waited[(n + 1) + 1]
          /\ Waited[n + 1] <= Waited[(n + 1) + 1]
      BY <3>2, <3>3 DEF Base
    <3>5. \A b \in 1..((n + 1) + 1) : b \in 1..(n + 1) \/ b = (n + 1) + 1
      BY <2>1
    <3> QED
      BY <3>3, <3>4, <3>5
  <2> QED
    BY <2>1, <2>2
<1> HIDE DEF T
<1>6. T = Nat
  BY <1>4, <1>5, Induction DEF T
<1>7. MaxAttempts - 1 \in Nat /\ (MaxAttempts - 1) + 1 = MaxAttempts /\ MaxAttempts <= MaxAttempts
  BY HorizonAssumption
<1>8. \A b \in 1..MaxAttempts : Waited[b] \in Nat /\ Base <= Waited[b]
                                /\ Waited[b] <= Waited[MaxAttempts]
  BY <1>6, <1>7 DEF T
<1> QED
  BY <1>1, <1>2, <1>8 DEF Patience

(* The next attempt is after the delay, or at the end of time. *)
LEMMA AtCutOff ==
  ASSUME NEW time \in 0..Horizon, NEW delay \in Nat
  PROVE  /\ At(time, delay) \in 0..Horizon
         /\ At(time, delay) = time + delay \/ At(time, delay) = Horizon
<1>1. PICK x \in Nat, y \in Nat : x = time + delay /\ y = Horizon
  BY HorizonAssumption
<1>2. x \in Int /\ y \in Int
  OBVIOUS
<1>3. PICK m : m = Min({x, y}) /\ m \in Int /\ m <= y /\ (m = x \/ m = y)
  BY <1>2, Smaller
<1>4. m = At(time, delay)
  BY <1>1, <1>3 DEF At
<1> QED
  BY <1>1, <1>3, <1>4

(* The schedule of a row fits within the time the model has. *)
LEMMA ScheduleFits ==
  ASSUME NEW created \in 0..Horizon, created <= LastArrival,
         NEW time \in 0..Horizon, NEW delay \in Nat, NEW a \in 1..MaxAttempts,
         time + delay >= created + Waited[a]
  PROVE  At(time, delay) \in 0..Horizon /\ At(time, delay) >= created + Waited[a]
<1>1. /\ Horizon \in Nat /\ LastArrival \in Nat
      /\ Waited[a] \in Nat /\ Patience \in Int /\ Waited[a] <= Patience
      /\ Horizon >= LastArrival + Patience
  <2>1. MaxAttempts \in 1..MaxAttempts
    BY HorizonAssumption
  <2> QED
    BY <2>1, DelaysAddUp, HorizonAssumption DEF Patience
<1>2. PICK m \in 0..Horizon : m = At(time, delay) /\ (m = time + delay \/ m = Horizon)
  BY AtCutOff
<1> QED
  BY <1>1, <1>2

-----------------------------------------------------------------------------
(* What stays *)

(* Time does not go back, and a reference that comes, comes now. *)
Later ==
  /\ clock' >= clock
  /\ \A k \in Reversals : reference'[k] = reference[k] \/ reference'[k] >= clock

LEMMA RowTyped ==
  ASSUME TypeInv, NEW k \in Reversals, rows[k] # None
  PROVE  /\ rows[k] \in Row /\ rows[k].created \in 0..Horizon
         /\ rows[k].attempts \in 1..MaxAttempts
         /\ Waited[rows[k].attempts] \in Nat /\ Patience \in Nat
         /\ Delay(rows[k].attempts) \in Nat
<1>1. rows[k] \in Row
  BY DEF TypeInv
<1>2. rows[k].attempts \in 1..MaxAttempts /\ rows[k].created \in 0..Horizon
  BY <1>1 DEF Row
<1>3. MaxAttempts \in 1..MaxAttempts
  BY HorizonAssumption
<1> QED
  BY <1>1, <1>2, <1>3, DelaysAddUp DEF Patience

(* What a run has locked is in its batch or written; nothing else is.      *)
LEMMA LockedRows ==
  ASSUME TypeInv, NEW r \in Runs
  PROVE  /\ run[r] \in Run /\ Locked(r) \subseteq Reversals
         /\ run[r].batch \in Seq(Reversals) /\ Len(run[r].batch) \in Nat
         /\ DOMAIN run[r].done \subseteq Reversals
         /\ \A k \in DOMAIN run[r].done : run[r].done[k] \in Row
         /\ run[r].pc = "retry" => \A k : k \in Locked(r) <=>
              (\E i \in 1..Len(run[r].batch) : run[r].batch[i] = k) \/ k \in DOMAIN run[r].done
         /\ run[r].pc # "retry" => Locked(r) = {}
<1>1. run[r] \in Run
  BY DEF TypeInv
<1>2. PICK b \in Seq(Reversals), d \in Written : b = run[r].batch /\ d = run[r].done
  BY <1>1 DEF Run
<1>3. DOMAIN d \subseteq Reversals /\ \A k \in DOMAIN d : d[k] \in Row
  BY DEF Written
<1>4. /\ Len(b) \in Nat /\ DOMAIN b = 1..Len(b) /\ ToSet(b) \subseteq Reversals
      /\ \A k : k \in ToSet(b) <=> \E i \in 1..Len(b) : b[i] = k
  BY DEF ToSet
<1> QED
  BY <1>1, <1>2, <1>3, <1>4 DEF Locked

(* A run that does not step is sound while nobody touches what it locked.  *)
LEMMA RunStays ==
  ASSUME TypeInv, TypeInv', Later, NEW r \in Runs, RunSound(r), run'[r] = run[r],
         \A k \in Locked(r) : rows'[k] = rows[k]
  PROVE  RunSound(r)' /\ Locked(r)' = Locked(r)
<1>1. Locked(r)' = Locked(r)
  BY DEF Locked
<1>2. run[r].pc # "idle" => run[r].now \in 0..clock /\ run[r].now \in 0..clock'
  BY DEF RunSound, Later, TypeInv
<1>3. ASSUME NEW k \in DOMAIN run[r].done
      PROVE  /\ k \in Reversals /\ rows'[k] = rows[k]
             /\ NotBefore(k, run[r].now) => NotBefore(k, run[r].now)'
  <2>1. run[r].pc = "retry" /\ k \in Locked(r) /\ k \in Reversals
    BY <1>3, LockedRows DEF RunSound
  <2>2. reference[k] \in 0..Horizon \cup {None} /\ reference'[k] \in 0..Horizon \cup {None}
    BY <2>1 DEF TypeInv
  <2>3. clock \in Nat /\ Horizon \in Nat
    BY HorizonAssumption DEF TypeInv
  <2> QED
    BY <1>2, <2>1, <2>2, <2>3 DEF NotBefore, Later
<1>4. \A k \in Locked(r) : Due(k, run[r].now)'
  BY DEF RunSound, Due
<1> QED
  BY <1>1, <1>2, <1>3, <1>4 DEF RunSound

(* So is a row nobody writes: no reference comes for one given up.         *)
LEMMA RowStays ==
  ASSUME TypeInv, TypeInv', Later, NEW k \in Reversals, rows[k] # None, RowSound(k, rows[k]),
         rows'[k] = rows[k],
         rows[k].status = "REFERENCE_NOT_FOUND" => reference'[k] = reference[k]
  PROVE  RowSound(k, rows[k])'
<1>1. clock \in Int /\ clock' \in Int /\ Horizon \in Int
  BY HorizonAssumption DEF TypeInv
<1>2. rows[k].created \in Int /\ Patience \in Int
  BY RowTyped, HorizonAssumption
<1> QED
  BY <1>1, <1>2 DEF RowSound, NotBefore, Later

LEMMA OthersStayApart ==
  ASSUME LocksApart, NEW r \in Runs, \A t \in Runs \ {r} : Locked(t)' = Locked(t),
         \A t \in Runs \ {r} : \A k \in Reversals : k \in Locked(r)' => k \notin Locked(t)
  PROVE  LocksApart'
BY DEF LocksApart

-----------------------------------------------------------------------------
(* Every step *)

LEMMA IdleIsRun == Idle \in Run
<1>1. << >> \in Seq(Reversals)
  OBVIOUS
<1>2. << >> = [k \in {} |-> None]
  OBVIOUS
<1>3. << >> \in [{} -> Row] /\ {} \in SUBSET Reversals
  BY <1>2
<1>4. << >> \in Written
  BY <1>3 DEF Written
<1> QED
  BY <1>1, <1>4 DEF Idle, Run

LEMMA InitSchedule == Init => ScheduleInv
<1> SUFFICES ASSUME Init PROVE ScheduleInv
  OBVIOUS
<1>1. /\ \A r \in Runs : run[r] = Idle
      /\ \A k \in Reversals : rows[k] = None
  BY DEF Init
<1>2. DOMAIN << >> = {} /\ Len(<< >>) = 0
  OBVIOUS
<1>3. TypeInv
  BY IdleIsRun, HorizonAssumption DEF Init, TypeInv
<1>4. \A r \in Runs : Locked(r) = {}
  BY <1>1 DEF Locked, Idle
<1>5. ASSUME NEW r \in Runs PROVE RunSound(r)
  <2>1. run[r].pc = "idle" /\ run[r].done = << >> /\ run[r].batch = << >>
    BY <1>1 DEF Idle
  <2>2. \A i : i \notin 1..Len(run[r].batch)
    BY <1>2, <2>1
  <2> QED
    BY <1>2, <1>4, <2>1, <2>2 DEF RunSound
<1> QED
  BY <1>1, <1>3, <1>4, <1>5 DEF ScheduleInv, RowsSound, RunsSound, LocksApart

LEMMA TickKeeps == ASSUME ScheduleInv, Tick PROVE ScheduleInv'
<1>1. TypeInv' /\ Later
  BY HorizonAssumption DEF Tick, ScheduleInv, TypeInv, Later
<1>2. RowsSound'
  BY <1>1, RowStays DEF Tick, ScheduleInv, RowsSound
<1>3. \A r \in Runs : RunSound(r)' /\ Locked(r)' = Locked(r)
  BY <1>1, RunStays DEF Tick, ScheduleInv, RunsSound
<1> QED
  BY <1>1, <1>2, <1>3 DEF ScheduleInv, RunsSound, LocksApart

LEMMA ReferenceCommitsKeeps ==
  ASSUME ScheduleInv, NEW k \in Reversals, ReferenceCommits(k) PROVE ScheduleInv'
<1>1. TypeInv' /\ Later
  BY HorizonAssumption DEF ReferenceCommits, ScheduleInv, TypeInv, Later
<1>2. ASSUME NEW j \in Reversals, rows[j] # None PROVE RowSound(j, rows[j])'
  <2>1. rows[j].status = "REFERENCE_NOT_FOUND" => reference'[j] = reference[j]
    BY <1>2 DEF ReferenceCommits, ScheduleInv, TypeInv
  <2> QED
    BY <1>1, <1>2, <2>1, RowStays DEF ReferenceCommits, ScheduleInv, RowsSound
<1>3. \A r \in Runs : RunSound(r)' /\ Locked(r)' = Locked(r)
  BY <1>1, RunStays DEF ReferenceCommits, ScheduleInv, RunsSound
<1>4. RowsSound'
  BY <1>2 DEF ReferenceCommits, RowsSound
<1> QED
  BY <1>1, <1>3, <1>4 DEF ScheduleInv, RunsSound, LocksApart

LEMMA ArriveKeeps ==
  ASSUME ScheduleInv, NEW k \in Reversals, Arrive(k) PROVE ScheduleInv'
<1> DEFINE New(time) ==
      [status |-> IF reference[k] = None THEN "PENDING_REFERENCE" ELSE "SETTLED",
       created |-> time, attempts |-> 1, next |-> At(time, Base)]
<1>0. PICK now \in Max({0, clock - MaxLag})..clock : rows' = [rows EXCEPT ![k] = New(now)]
  BY DEF Arrive
<1>1. PICK row : row = New(now) /\ rows' = [rows EXCEPT ![k] = row]
  BY <1>0
<1>2. /\ now \in 0..Horizon /\ now \in 0..clock /\ now <= LastArrival
      /\ clock \in Nat /\ LastArrival \in Nat
  <2>1. clock \in 0..Horizon /\ clock <= LastArrival /\ MaxLag \in Nat /\ Horizon \in Nat
        /\ LastArrival \in Nat
    BY HorizonAssumption DEF Arrive, ScheduleInv, TypeInv
  <2>2. PICK x \in Int : x = clock - MaxLag
    BY <2>1
  <2>3. Max({0, x}) \in Int /\ Max({0, x}) >= 0
    BY Greater
  <2> QED
    BY <1>1, <2>1, <2>2, <2>3
<1>3. At(now, Base) \in 0..Horizon /\ At(now, Base) >= now + Waited[1]
  <2>1. 1 \in 1..MaxAttempts /\ Base \in Nat /\ Waited[1] = Base
    BY HorizonAssumption, WaitedUnfolds DEF Base
  <2> QED
    BY <1>2, <2>1, ScheduleFits
<1>4. row \in Row
  BY <1>1, <1>2, <1>3, HorizonAssumption DEF Row
<1>5. TypeInv' /\ Later
  BY <1>1, <1>4, HorizonAssumption DEF Arrive, ScheduleInv, TypeInv, Later
<1>6. ASSUME NEW j \in Reversals, rows'[j] # None PROVE RowSound(j, rows[j])'
  <2>1. CASE j = k
    <3>1. rows'[j] = row
      BY <1>1, <2>1 DEF ScheduleInv, TypeInv
    <3>2. /\ row.created = now /\ row.attempts = 1 /\ row.next = At(now, Base)
          /\ row.status # "REFERENCE_NOT_FOUND"
      BY <1>1
    <3> QED
      BY <1>2, <1>3, <3>1, <3>2 DEF RowSound
  <2>2. CASE j # k
    <3>1. rows'[j] = rows[j]
      BY <1>1, <2>2 DEF ScheduleInv, TypeInv
    <3> QED
      BY <1>5, <1>6, <3>1, RowStays DEF Arrive, ScheduleInv, RowsSound
  <2> QED
    BY <2>1, <2>2
<1>7. ASSUME NEW r \in Runs PROVE RunSound(r)' /\ Locked(r)' = Locked(r)
  <2>1. RunSound(r) /\ run' = run
    BY DEF ScheduleInv, RunsSound, Arrive
  <2>2. \A j \in Locked(r) : rows'[j] = rows[j]
    BY <1>1, <2>1, LockedRows DEF Arrive, RunSound, Due, ScheduleInv, TypeInv
  <2> QED
    BY <1>5, <2>1, <2>2, RunStays DEF ScheduleInv
<1>8. RowsSound'
  BY <1>6 DEF RowsSound
<1> QED
  BY <1>5, <1>7, <1>8 DEF ScheduleInv, RunsSound, LocksApart

(* A run that steps and writes nothing yet: the others go on.              *)
LEMMA RunSteps ==
  ASSUME ScheduleInv, NEW r \in Runs, NEW row \in Run, run' = [run EXCEPT ![r] = row],
         UNCHANGED <<clock, reference, rows>>, crashes' \in 0..MaxCrashes,
         RunSound(r)',
         \A t \in Runs \ {r} : \A k \in Reversals : k \in Locked(r)' => k \notin Locked(t)
  PROVE  ScheduleInv'
<1>1. TypeInv' /\ Later
  BY HorizonAssumption DEF ScheduleInv, TypeInv, Later
<1>2. RowsSound'
  BY <1>1, RowStays DEF ScheduleInv, RowsSound
<1>3. ASSUME NEW t \in Runs \ {r} PROVE RunSound(t)' /\ Locked(t)' = Locked(t)
  <2>1. run'[t] = run[t]
    BY DEF ScheduleInv, TypeInv
  <2> QED
    BY <1>1, <2>1, RunStays DEF ScheduleInv, RunsSound
<1>4. LocksApart'
  BY <1>3, OthersStayApart DEF ScheduleInv
<1> QED
  BY <1>1, <1>2, <1>3, <1>4 DEF ScheduleInv, RunsSound

(* A run with nothing in hand. *)
LEMMA EmptyHanded ==
  ASSUME NEW r \in Runs, NEW row, run'[r] = row, row.pc \in {"idle", "claim"},
         row.batch = << >>, row.done = << >>, row.pc # "idle" => row.now \in 0..clock'
  PROVE  RunSound(r)' /\ Locked(r)' = {}
<1>1. Locked(r)' = {}
  BY DEF Locked
<1>2. (\A i : i \notin 1..Len(row.batch)) /\ \A k : k \notin DOMAIN row.done
  OBVIOUS
<1> QED
  BY <1>1, <1>2 DEF RunSound

LEMMA BeginKeeps == ASSUME ScheduleInv, NEW r \in Runs, Begin(r) PROVE ScheduleInv'
<1>1. PICK row : row = [Idle EXCEPT !.pc = "claim", !.now = clock]
  OBVIOUS
<1>2. /\ row.pc = "claim" /\ row.now = clock /\ row.batch = << >> /\ row.done = << >>
      /\ clock \in Nat /\ clock \in 0..Horizon
  BY <1>1, HorizonAssumption DEF Idle, ScheduleInv, TypeInv
<1>3. row \in Run
  BY <1>1, <1>2, IdleIsRun DEF Run
<1>4. run' = [run EXCEPT ![r] = row] /\ run'[r] = row /\ crashes' \in 0..MaxCrashes
      /\ UNCHANGED <<clock, reference, rows>>
  BY <1>1 DEF Begin, ScheduleInv, TypeInv
<1>5. RunSound(r)' /\ Locked(r)' = {}
  BY <1>2, <1>4, EmptyHanded
<1> QED
  BY <1>3, <1>4, <1>5, RunSteps

LEMMA CrashKeeps == ASSUME ScheduleInv, NEW r \in Runs, Crash(r) PROVE ScheduleInv'
<1>1. Idle.pc = "idle" /\ Idle.batch = << >> /\ Idle.done = << >>
  BY DEF Idle
<1>2. /\ run' = [run EXCEPT ![r] = Idle] /\ run'[r] = Idle /\ crashes' \in 0..MaxCrashes
      /\ UNCHANGED <<clock, reference, rows>>
  BY HorizonAssumption DEF Crash, ScheduleInv, TypeInv
<1>3. RunSound(r)' /\ Locked(r)' = {}
  BY <1>1, <1>2, EmptyHanded
<1> QED
  BY <1>2, <1>3, IdleIsRun, RunSteps

BatchOf(order) == SubSeq(order, 1, Min({BatchSize, Len(order)}))

(* The batch of a claim: each row once, and only due ones.                 *)
LEMMA BatchOfDue ==
  ASSUME NEW due \in SUBSET Reversals, NEW order \in SetToSeqs(due)
  PROVE  \E batch \in Seq(Reversals) :
           /\ batch = BatchOf(order) /\ Len(batch) \in Nat
           /\ \A i \in 1..Len(batch) : batch[i] \in due
           /\ \A i, j \in 1..Len(batch) : batch[i] = batch[j] => i = j
<1>1. PICK n \in Nat : n = Cardinality(due)
  <2>1. IsFiniteSet(due)
    BY FS_Subset, HorizonAssumption
  <2> QED
    BY <2>1, FS_CardinalityType
<1>2. /\ order \in [1..n -> due]
      /\ \A i, j \in 1..n : i # j => order[i] # order[j]
  BY <1>1 DEF SetToSeqs
<1>3. order \in Seq(due) /\ Len(order) = n
  BY <1>2
<1>4. PICK m \in Int : m = Min({BatchSize, Len(order)}) /\ m <= n /\ m >= 0
  <2>1. PICK x \in Int, y \in Int : x = BatchSize /\ y = n /\ x >= 0
    BY HorizonAssumption
  <2>2. Min({x, y}) \in Int /\ Min({x, y}) <= y /\ (Min({x, y}) = x \/ Min({x, y}) = y)
    BY Smaller
  <2> QED
    BY <1>3, <2>1, <2>2
<1>5. PICK batch : batch = SubSeq(order, 1, m) /\ batch = BatchOf(order)
  BY <1>4 DEF BatchOf
<1>6. \A i \in 1..m : i \in 1..n /\ order[i] \in due /\ order[i] \in Reversals
  BY <1>2, <1>4
<1>7. /\ SubSeq(order, 1, m) \in Seq(Reversals)
      /\ Len(SubSeq(order, 1, m)) = IF 1 <= m THEN m - 1 + 1 ELSE 0
      /\ \A i \in 1..(m - 1 + 1) : SubSeq(order, 1, m)[i] = order[1 + i - 1]
  BY <1>6, SubSeqProperties
<1>8. /\ Len(batch) = m /\ batch \in Seq(Reversals)
      /\ \A i \in 1..m : i \in 1..n /\ batch[i] = order[i] /\ batch[i] \in due
  <2>1. m - 1 + 1 = m /\ (~(1 <= m) => m = 0) /\ \A i \in 1..m : 1 + i - 1 = i
    BY <1>4
  <2> QED
    BY <1>5, <1>6, <1>7, <2>1
<1>9. ASSUME NEW i \in 1..m, NEW j \in 1..m, batch[i] = batch[j] PROVE i = j
  BY <1>2, <1>8, <1>9
<1>10. Len(batch) \in Nat
  BY <1>4, <1>8
<1> QED
  BY <1>5, <1>8, <1>9, <1>10

LEMMA ClaimKeeps == ASSUME ScheduleInv, NEW r \in Runs, Claim(r) PROVE ScheduleInv'
<1> DEFINE due == {k \in Reversals : Due(k, run[r].now)}
<1>0. PICK order \in SetToSeqs(due) :
        /\ \A k \in ToSet(BatchOf(order)) : ~HeldByAnother(k, r)
        /\ run' = [run EXCEPT ![r].pc = "retry", ![r].batch = BatchOf(order)]
  BY DEF Claim, BatchOf
<1> HIDE DEF due
<1>1. PICK batch \in Seq(Reversals) :
        /\ batch = BatchOf(order) /\ Len(batch) \in Nat
        /\ \A i \in 1..Len(batch) : batch[i] \in due
        /\ \A i, j \in 1..Len(batch) : batch[i] = batch[j] => i = j
  BY BatchOfDue DEF due
<1>2. /\ \A k \in ToSet(batch) : ~HeldByAnother(k, r)
      /\ run' = [run EXCEPT ![r].pc = "retry", ![r].batch = batch]
  BY <1>0, <1>1
<1>3. PICK row : row = [run[r] EXCEPT !.pc = "retry", !.batch = batch]
  OBVIOUS
<1>4. /\ run[r] \in Run /\ run[r].pc = "claim" /\ run[r].done = << >> /\ run[r].now \in 0..clock
      /\ UNCHANGED <<clock, reference, rows>> /\ crashes' \in 0..MaxCrashes
  BY DEF Claim, ScheduleInv, TypeInv, RunsSound, RunSound
<1>5. /\ row \in Run /\ row.pc = "retry" /\ row.batch = batch /\ row.done = << >>
      /\ row.now = run[r].now
  BY <1>1, <1>3, <1>4 DEF Run
<1>6. run' = [run EXCEPT ![r] = row] /\ run'[r] = row
  BY <1>2, <1>3 DEF ScheduleInv, TypeInv
<1>7. DOMAIN << >> = {} /\ DOMAIN batch = 1..Len(batch)
  BY <1>1
<1>8. Locked(r)' = ToSet(batch)
  BY <1>5, <1>6, <1>7 DEF Locked
<1>9. \A k \in ToSet(batch) : k \in due
  BY <1>1, <1>7 DEF ToSet
<1>10. RunSound(r)'
  BY <1>1, <1>4, <1>5, <1>6, <1>7, <1>8, <1>9 DEF RunSound, Due, due
<1> QED
  BY <1>2, <1>4, <1>5, <1>6, <1>8, <1>10, RunSteps DEF HeldByAnother

(* The next row of the batch is written: it stays locked.                  *)
LEMMA RetryKeeps == ASSUME ScheduleInv, NEW r \in Runs, Retry(r) PROVE ScheduleInv'
<1>1. PICK b \in Seq(Reversals), d \in Written, now \in 0..Horizon \cup {None} :
        b = run[r].batch /\ d = run[r].done /\ now = run[r].now
  BY LockedRows DEF ScheduleInv, Run
<1>2. /\ run[r].pc = "retry" /\ b # << >> /\ run[r] \in Run /\ RunSound(r) /\ TypeInv
      /\ now \in 0..clock /\ clock \in 0..Horizon
  BY <1>1 DEF Retry, ScheduleInv, TypeInv, RunsSound, RunSound
<1>3. PICK k \in Reversals : k = Head(b)
  BY <1>2
<1>4. PICK n \in Nat, tail \in Seq(Reversals) :
        /\ Len(b) = n + 1 /\ tail = Tail(b) /\ Len(tail) = n /\ b[1] = k
        /\ \A i \in 1..n : tail[i] = b[i + 1]
  <2>1. /\ Len(b) \in Nat /\ Len(b) # 0 /\ Tail(b) \in Seq(Reversals)
        /\ Len(Tail(b)) = Len(b) - 1 /\ Head(b) = b[1]
        /\ \A i \in 1..Len(Tail(b)) : Tail(b)[i] = b[i + 1]
    BY <1>2, HeadTailProperties
  <2>2. Len(b) - 1 \in Nat /\ Len(b) = (Len(b) - 1) + 1
    BY <2>1
  <2> QED
    BY <1>3, <2>1, <2>2
<1>5. /\ k \notin DOMAIN d /\ k \in Locked(r) /\ Due(k, now) /\ rows[k] \in Row
  <2>1. 1 \in 1..Len(b)
    BY <1>4
  <2>2. k \in Locked(r) /\ k \notin DOMAIN d
    BY <1>1, <1>2, <1>4, <2>1, LockedRows DEF RunSound
  <2>3. Due(k, now)
    BY <1>1, <1>2, <2>2 DEF RunSound
  <2> QED
    BY <1>2, <2>2, <2>3, RowTyped DEF Due
<1>6. PICK row :
        /\ Write(r, k, row)
        /\ \/ row = Settle(rows[k])
           \/ row = GiveUp(rows[k]) /\ Exhausted(rows[k]) /\ reference[k] = None
           \/ /\ row = ScheduleReferenceRetry(rows[k], now, Delay(rows[k].attempts))
              /\ ~Exhausted(rows[k])
  BY <1>1, <1>3 DEF Retry
<1>7. row \in Row
  <2>1. CASE row = Settle(rows[k])
    BY <1>5, <2>1 DEF Settle, Row
  <2>2. CASE row = GiveUp(rows[k])
    BY <1>5, <2>2 DEF GiveUp, Row
  <2>3. CASE /\ row = ScheduleReferenceRetry(rows[k], now, Delay(rows[k].attempts))
             /\ ~Exhausted(rows[k])
    <3>1. PICK next : next = At(now, Delay(rows[k].attempts))
      OBVIOUS
    <3>2. next \in 0..Horizon
      <4>1. Delay(rows[k].attempts) \in Nat
        BY <1>2, <1>5, RowTyped DEF Due
      <4>2. now \in 0..Horizon
        BY <1>2, HorizonAssumption
      <4> QED
        BY <3>1, <4>1, <4>2, AtCutOff
    <3>3. rows[k].attempts + 1 \in 1..MaxAttempts
      BY <1>5, <2>3, HorizonAssumption DEF Exhausted, Row
    <3> QED
      BY <1>5, <2>3, <3>1, <3>2, <3>3 DEF ScheduleReferenceRetry, Row
  <2> QED
    BY <1>6, <2>1, <2>2, <2>3
<1>8. PICK new : new = [j \in DOMAIN d \cup {k} |-> IF j = k THEN row ELSE d[j]]
  OBVIOUS
<1>9. /\ new \in Written /\ DOMAIN new = DOMAIN d \cup {k} /\ new[k] = row
      /\ \A j \in DOMAIN d : new[j] = d[j]
  <2>1. DOMAIN d \cup {k} \in SUBSET Reversals /\ \A j \in DOMAIN d : d[j] \in Row
    BY <1>1, <1>2, LockedRows
  <2>2. new \in [DOMAIN d \cup {k} -> Row]
    BY <1>7, <1>8, <2>1
  <2> QED
    BY <1>5, <1>8, <2>1, <2>2 DEF Written
<1>10. PICK next : next = [run[r] EXCEPT !.batch = tail, !.done = new]
  OBVIOUS
<1>11. /\ next \in Run /\ next.pc = "retry" /\ next.now = now
       /\ next.batch = tail /\ next.done = new
  BY <1>1, <1>2, <1>4, <1>9, <1>10 DEF Run
<1>12. /\ run' = [run EXCEPT ![r] = next] /\ run'[r] = next
       /\ UNCHANGED <<clock, reference, rows>> /\ crashes' \in 0..MaxCrashes
  <2>1. run' = [run EXCEPT ![r].batch = tail, ![r].done = new]
    BY <1>1, <1>4, <1>6, <1>8 DEF Write
  <2> QED
    BY <1>2, <1>10, <2>1 DEF Retry, TypeInv
<1>13. \A j : j \in Locked(r)' <=> j \in Locked(r)
  <2>1. \A j : j \in Locked(r)' <=> (\E i \in 1..n : tail[i] = j) \/ j \in DOMAIN new
    <3>1. DOMAIN tail = 1..n
      BY <1>4
    <3> QED
      BY <1>11, <1>12, <3>1 DEF Locked, ToSet
  <2>2. \A j : j \in Locked(r) <=> (\E i \in 1..(n + 1) : b[i] = j) \/ j \in DOMAIN d
    BY <1>1, <1>2, <1>4, LockedRows
  <2>3. \A j : (\E i \in 1..(n + 1) : b[i] = j) <=> j = k \/ \E i \in 1..n : tail[i] = j
    <3>1. \A i \in 1..n : i + 1 \in 1..(n + 1)
      OBVIOUS
    <3>2. \A i \in 1..(n + 1) : i = 1 \/ (i - 1 \in 1..n /\ (i - 1) + 1 = i)
      OBVIOUS
    <3>3. 1 \in 1..(n + 1) /\ b[1] = k
      BY <1>4
    <3>4. \A i \in 1..n : tail[i] = b[i + 1]
      BY <1>4
    <3>5. ASSUME NEW j, NEW i \in 1..(n + 1), b[i] = j PROVE j = k \/ \E h \in 1..n : tail[h] = j
      <4>1. CASE i = 1
        BY <3>3, <3>5, <4>1
      <4>2. CASE i # 1
        <5>1. PICK h \in 1..n : h + 1 = i
          BY <3>2, <4>2
        <5> QED
          BY <3>4, <3>5, <5>1
      <4> QED
        BY <4>1, <4>2
    <3> QED
      BY <3>1, <3>3, <3>4, <3>5
  <2> QED
    BY <1>9, <2>1, <2>2, <2>3
<1>14. RunSound(r)'
  <2>1. \A i \in 1..n : i + 1 \in 1..Len(b) /\ tail[i] = b[i + 1]
    BY <1>4
  <2>2. \A i, j \in 1..Len(b) : b[i] = b[j] => i = j
    BY <1>1, <1>2 DEF RunSound
  <2>3. \A i, j \in 1..n : tail[i] = tail[j] => i = j
    BY <2>1, <2>2
  <2>4. ASSUME NEW i \in 1..n PROVE tail[i] \notin DOMAIN new
    <3>1. tail[i] \notin DOMAIN d
      BY <1>1, <1>2, <2>1 DEF RunSound
    <3>2. tail[i] # k
      BY <1>4, <2>1, <2>2
    <3> QED
      BY <1>9, <3>1, <3>2
  <2>5. \A j \in Locked(r)' : Due(j, now)'
    BY <1>1, <1>2, <1>12, <1>13 DEF RunSound, Due
  <2>6. ASSUME NEW j \in DOMAIN new
        PROVE  \/ new[j] = Settle(rows[j])
               \/ new[j] = GiveUp(rows[j]) /\ Exhausted(rows[j]) /\ NotBefore(j, now)
               \/ /\ new[j] = ScheduleReferenceRetry(rows[j], now, Delay(rows[j].attempts))
                  /\ ~Exhausted(rows[j])
    <3>1. CASE j = k
      BY <1>6, <1>9, <3>1 DEF NotBefore
    <3>2. CASE j # k
      BY <1>1, <1>2, <1>9, <3>2 DEF RunSound
    <3> QED
      BY <3>1, <3>2
  <2>7. /\ run'[r].pc = "retry" /\ run'[r].now = now /\ now \in 0..clock'
        /\ run'[r].batch = tail /\ Len(tail) = n /\ run'[r].done = new
    BY <1>2, <1>4, <1>11, <1>12
  <2>8. ASSUME NEW j PROVE rows'[j] = rows[j] /\ (NotBefore(j, now) => NotBefore(j, now)')
    BY <1>12 DEF NotBefore
  <2> QED
    BY <2>3, <2>4, <2>5, <2>6, <2>7, <2>8 DEF RunSound
<1>15. \A t \in Runs \ {r} : \A j \in Reversals : j \in Locked(r)' => j \notin Locked(t)
  BY <1>13 DEF ScheduleInv, LocksApart
<1> QED
  BY <1>11, <1>12, <1>14, <1>15, RunSteps

(* What a run commits of a row it has locked. *)
LEMMA CommittedRow ==
  ASSUME ScheduleInv, NEW r \in Runs, run[r].pc = "retry", NEW k \in DOMAIN run[r].done
  PROVE  /\ k \in Locked(r) /\ k \in Reversals /\ rows[k] # None /\ run[r].done[k] \in Row
         /\ clock >= rows[k].next
         /\ run[r].done[k].attempts - rows[k].attempts \in 0..1
         /\ RowSound(k, run[r].done[k])
<1>1. k \in Locked(r) /\ k \in Reversals /\ run[r].done[k] \in Row /\ Due(k, run[r].now)
      /\ run[r].now \in 0..clock /\ clock \in 0..Horizon /\ Horizon \in Nat
  BY LockedRows, HorizonAssumption DEF ScheduleInv, RunsSound, RunSound, TypeInv
<1>2. PICK now \in 0..clock : now = run[r].now
  BY <1>1
<1> DEFINE row == run[r].done[k]
<1> HIDE DEF row
<1>3. PICK old \in Row, a \in 1..MaxAttempts, created \in 0..Horizon :
        /\ old = rows[k] /\ a = old.attempts /\ created = old.created
        /\ old # None /\ old.status = "PENDING_REFERENCE" /\ old.next <= now
  <2>1. rows[k] # None /\ rows[k] \in Row
    BY <1>1, RowTyped DEF Due, ScheduleInv
  <2> QED
    BY <1>1, <1>2, <2>1 DEF Due, Row
<1>4. /\ Waited[a] \in Nat /\ Patience \in Nat /\ Waited[a] <= Patience /\ Delay(a) \in Nat
      /\ a < MaxAttempts => Waited[a + 1] = Waited[a] + Delay(a)
  <2>1. MaxAttempts \in 1..MaxAttempts
    BY HorizonAssumption
  <2> QED
    BY <2>1, DelaysAddUp DEF Patience
<1>5. /\ created <= LastArrival /\ old.next \in 0..Horizon /\ old.next >= created + Waited[a]
  BY <1>1, <1>3 DEF ScheduleInv, RowsSound, RowSound
<1>6. now >= created + Waited[a] /\ now \in 0..Horizon
  BY <1>1, <1>3, <1>4, <1>5
<1>7. CASE row = Settle(old)
  <2>1. row.attempts = a /\ row.created = created /\ row.status = "SETTLED"
    BY <1>3, <1>7 DEF Settle, Row
  <2> QED
    BY <1>1, <1>3, <1>5, <2>1 DEF RowSound, row
<1>8. CASE row = GiveUp(old) /\ Exhausted(old) /\ NotBefore(k, now)
  <2>1. row.attempts = a /\ row.created = created /\ row.status = "REFERENCE_NOT_FOUND"
    BY <1>3, <1>8 DEF GiveUp, Row
  <2>2. a = MaxAttempts
    BY <1>3, <1>8, HorizonAssumption DEF Exhausted
  <2>3. now >= created + Patience
    BY <1>6, <2>2 DEF Patience
  <2>4. clock >= created + Patience
    BY <1>1, <1>4, <2>3
  <2>5. NotBefore(k, created + Patience)
    <3>1. reference[k] \in 0..Horizon \cup {None}
      BY <1>1 DEF ScheduleInv, TypeInv
    <3> QED
      BY <1>1, <1>4, <1>8, <2>3, <3>1 DEF NotBefore
  <2> QED
    BY <1>1, <1>3, <1>5, <2>1, <2>4, <2>5 DEF RowSound, row
<1>9. CASE row = ScheduleReferenceRetry(old, now, Delay(old.attempts)) /\ ~Exhausted(old)
  <2>1. PICK next : next = At(now, Delay(a))
    OBVIOUS
  <2>2. /\ row.attempts = a + 1 /\ row.created = created /\ row.next = next
        /\ row.status = "PENDING_REFERENCE"
    BY <1>3, <1>9, <2>1 DEF ScheduleReferenceRetry, Row
  <2>3. a + 1 \in 1..MaxAttempts /\ Waited[a + 1] = Waited[a] + Delay(a)
    BY <1>3, <1>4, <1>9, HorizonAssumption DEF Exhausted
  <2>4. now + Delay(a) >= created + Waited[a + 1]
    BY <1>4, <1>6, <2>3
  <2>5. next \in 0..Horizon /\ next >= created + Waited[a + 1]
    BY <1>4, <1>5, <1>6, <2>1, <2>3, <2>4, ScheduleFits
  <2> QED
    BY <1>1, <1>3, <1>5, <2>2, <2>5 DEF RowSound, row
<1>10. \/ row = Settle(old)
       \/ row = GiveUp(old) /\ Exhausted(old) /\ NotBefore(k, now)
       \/ row = ScheduleReferenceRetry(old, now, Delay(old.attempts)) /\ ~Exhausted(old)
  BY <1>2, <1>3 DEF ScheduleInv, RunsSound, RunSound, row
<1> QED
  BY <1>7, <1>8, <1>9, <1>10

LEMMA CommitKeeps == ASSUME ScheduleInv, NEW r \in Runs, Commit(r) PROVE ScheduleInv'
<1>1. /\ run' = [run EXCEPT ![r] = Idle] /\ run'[r] = Idle /\ run[r].pc = "retry"
      /\ UNCHANGED <<clock, reference, crashes>>
      /\ rows' = [k \in Reversals |->
                    IF k \in DOMAIN run[r].done THEN run[r].done[k] ELSE rows[k]]
  BY DEF Commit, ScheduleInv, TypeInv
<1>2. rows' \in [Reversals -> Row \cup {None}]
  BY <1>1, CommittedRow DEF ScheduleInv, TypeInv
<1>3. TypeInv' /\ Later
  BY <1>1, <1>2, IdleIsRun, HorizonAssumption DEF ScheduleInv, TypeInv, Later
<1>4. ASSUME NEW k \in Reversals, rows'[k] # None PROVE RowSound(k, rows[k])'
  <2>1. CASE k \in DOMAIN run[r].done
    <3>1. rows'[k] = run[r].done[k] /\ RowSound(k, run[r].done[k])
      BY <1>1, <2>1, CommittedRow
    <3> QED
      BY <1>1, <3>1 DEF RowSound, NotBefore
  <2>2. CASE k \notin DOMAIN run[r].done
    <3>1. rows'[k] = rows[k]
      BY <1>1, <2>2
    <3> QED
      BY <1>1, <1>3, <1>4, <3>1, RowStays DEF ScheduleInv, RowsSound
  <2> QED
    BY <2>1, <2>2
<1>5. RunSound(r)' /\ Locked(r)' = {}
  BY <1>1, EmptyHanded DEF Idle
<1>6. ASSUME NEW t \in Runs \ {r} PROVE RunSound(t)' /\ Locked(t)' = Locked(t)
  <2>1. run'[t] = run[t] /\ RunSound(t)
    BY <1>1 DEF ScheduleInv, TypeInv, RunsSound
  <2>2. ASSUME NEW k \in Locked(t) PROVE rows'[k] = rows[k]
    <3>1. k \in Reversals
      BY LockedRows DEF ScheduleInv
    <3>2. k \notin DOMAIN run[r].done
      BY <1>1, <2>2, <3>1, CommittedRow DEF ScheduleInv, LocksApart
    <3> QED
      BY <1>1, <3>1, <3>2
  <2> QED
    BY <1>3, <2>1, <2>2, RunStays DEF ScheduleInv
<1>7. LocksApart'
  BY <1>5, <1>6, OthersStayApart DEF ScheduleInv
<1>8. RowsSound'
  BY <1>4 DEF RowsSound
<1> QED
  BY <1>3, <1>5, <1>6, <1>7, <1>8 DEF ScheduleInv, RunsSound

LEMMA NextKeepsSchedule == ScheduleInv /\ [Next]_vars => ScheduleInv'
<1> SUFFICES ASSUME ScheduleInv, [Next]_vars PROVE ScheduleInv'
  OBVIOUS
<1>1. CASE UNCHANGED vars
  BY <1>1 DEF vars, ScheduleInv, TypeInv, RowsSound, RowSound, NotBefore, RunsSound, RunSound,
              Locked, Due, LocksApart
<1>2. CASE Next
  BY <1>2, TickKeeps, ArriveKeeps, ReferenceCommitsKeeps, BeginKeeps, ClaimKeeps, RetryKeeps,
     CommitKeeps, CrashKeeps DEF Next, Step
<1> QED
  BY <1>1, <1>2

LEMMA ScheduleAlways == Spec => []ScheduleInv
BY InitSchedule, NextKeepsSchedule, PTL DEF Spec

-----------------------------------------------------------------------------
(* Every variable keeps its type, whatever the rows, runs and limits.      *)
THEOREM RetryTyped == Spec => []TypeOK
<1>1. ScheduleInv => TypeOK
  <2> SUFFICES ASSUME ScheduleInv PROVE TypeOK
    OBVIOUS
  <2>1. ASSUME NEW r \in Runs
        PROVE  /\ run[r].pc \in {"idle", "claim", "retry"}
               /\ run[r].now \in 0..Horizon \cup {None}
               /\ ToSet(run[r].batch) \subseteq Reversals
               /\ \A k \in DOMAIN run[r].done : run[r].done[k] \in Row
    <3>1. run[r] \in Run /\ \A k \in DOMAIN run[r].done : run[r].done[k] \in Row
      BY LockedRows DEF ScheduleInv
    <3>2. PICK b \in Seq(Reversals) : b = run[r].batch
      BY <3>1 DEF Run
    <3>3. ToSet(b) \subseteq Reversals
      BY DEF ToSet
    <3> QED
      BY <3>1, <3>2, <3>3 DEF Run
  <2> QED
    BY <2>1 DEF ScheduleInv, TypeInv, TypeOK
<1> QED
  BY <1>1, ScheduleAlways, PTL

(* A reversal is given up only if its reference was still missing when all *)
(* its delays had passed, whatever crashes and however the runs overlap.   *)
THEOREM ReferenceFound == Spec => []ReferenceInTimeIsFound
<1>1. ScheduleInv => ReferenceInTimeIsFound
  BY DEF ScheduleInv, RowsSound, RowSound, NotBefore, ReferenceInTimeIsFound
<1> QED
  BY <1>1, ScheduleAlways, PTL

(* No row is retried before its time, nor twice for one schedule: only the *)
(* run that holds it writes it.                                            *)
THEOREM RetriedOnce == Spec => RetriedOncePerSchedule
<1> DEFINE Once ==
      \A k \in Reversals :
        rows[k] # None /\ rows'[k] # rows[k] =>
          /\ clock >= rows[k].next
          /\ rows'[k].attempts - rows[k].attempts \in 0..1
          /\ \A r \in Runs : k \in Locked(r) =>
               k \in DOMAIN run[r].done /\ rows'[k] = run[r].done[k]
<1>1. ASSUME ScheduleInv, [Next]_vars, NEW k \in Reversals, rows[k] # None, rows'[k] # rows[k]
      PROVE  /\ clock >= rows[k].next
             /\ rows'[k].attempts - rows[k].attempts \in 0..1
             /\ \A r \in Runs : k \in Locked(r) =>
                  k \in DOMAIN run[r].done /\ rows'[k] = run[r].done[k]
  <2>1. PICK r \in Runs : Commit(r)
    <3>1. ASSUME NEW j \in Reversals, Arrive(j) PROVE FALSE
      BY <1>1, <3>1 DEF Arrive, ScheduleInv, TypeInv
    <3> QED
      BY <1>1, <3>1 DEF Next, Step, vars, Tick, ReferenceCommits, Begin, Claim, Retry, Crash
  <2>2. /\ k \in DOMAIN run[r].done /\ rows'[k] = run[r].done[k] /\ run[r].pc = "retry"
    BY <1>1, <2>1 DEF Commit
  <2>3. /\ k \in Locked(r) /\ clock >= rows[k].next
        /\ rows'[k].attempts - rows[k].attempts \in 0..1
    BY <1>1, <2>2, CommittedRow
  <2> QED
    BY <1>1, <2>2, <2>3 DEF ScheduleInv, LocksApart
<1>2. ScheduleInv /\ [Next]_vars => [Once]_vars
  BY <1>1
<1> QED
  BY <1>2, ScheduleAlways, PTL DEF Spec, RetriedOncePerSchedule
=============================================================================
