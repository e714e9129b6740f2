----------------------- MODULE VmpiDistribute_proofs -----------------------
(***************************************************************************)
(* What is proved of DistributeWork, for any machines, threads, units,     *)
(* calls and lost connections.                                             *)
(*                                                                         *)
(* First its promise to the caller: the results of each unit are received  *)
(* once in a call, the caller is told the length of the finished prefix,   *)
(* and no call returns by itself with a unit unfinished.  The argument     *)
(* does not ask who holds a unit, so it covers the lost partitions too: it *)
(* rests on the window of the books and the tracker's trigger only.        *)
(*                                                                         *)
(* Then who holds a unit.  Lists of partitions stay sound under every way  *)
(* to deal, adopt, split, hand over, shorten and delete; each step of the  *)
(* master changes them as Moved says; the numbers of calls tell messages   *)
(* of this call from those of earlier ones.  From these follow that        *)
(* without a lost connection no unit is lost, and that an owner has, or is *)
(* sent, what the books say he has; and that the first call cannot come to *)
(* a standstill.                                                           *)
(***************************************************************************)
EXTENDS VmpiDistribute, TLAPS, WellFoundedInduction, SequenceTheorems

LEMMA LeastExists ==
  ASSUME NEW S, S \subseteq Nat, S # {}
  PROVE  Min(S) \in S /\ \A y \in S : Min(S) <= y
<1> DEFINE R == OpToRel(<, Nat)
<1>1. IsWellFoundedOn(R, Nat)
  BY NatLessThanWellFounded
<1>2. PICK x \in S : \A y \in S : ~ (<<y, x>> \in R)
  <2> HIDE DEF R
  <2> QED BY <1>1, WFMin
<1>3. \A y \in S : ~ (y < x)
  BY <1>2 DEF OpToRel
<1>4. \A y \in S : x =< y
  BY <1>3
<1> QED BY <1>4 DEF Min

LEMMA LesserOfTwo ==
  ASSUME NEW a \in Nat, NEW b \in Nat
  PROVE  Min({a, b}) = IF a <= b THEN a ELSE b
BY LeastExists
---------------------------------------------------------------------------
(* The books. *)

IsBook(d) ==
  /\ d \in [parts : {d.parts}, pending : SUBSET Units, first : 0 .. NumUnits, past : 0 .. NumUnits]
  /\ d.first <= d.past
  /\ d.pending \subseteq d.first .. d.past - 1
  /\ d.first = d.past \/ d.first \in d.pending

\* The master has only dealt units, if anything.
Grown(d, e) ==
  /\ IsBook(e) /\ e.first = d.first /\ d.past <= e.past
  /\ e.pending = d.pending \cup (d.past .. e.past - 1)

LEMMA OnlyParts ==
  ASSUME NEW d, IsBook(d), NEW p
  PROVE  Grown(d, [d EXCEPT !.parts = p])
<1>1. d.past .. d.past - 1 = {}
  BY DEF IsBook
<1> QED BY <1>1 DEF IsBook, Grown

LEMMA GrownAgain ==
  ASSUME NEW d, NEW e, NEW f, IsBook(d), Grown(d, e), Grown(e, f)
  PROVE  Grown(d, f)
<1>1. /\ d.past \in 0 .. NumUnits /\ e.past \in 0 .. NumUnits /\ f.past \in 0 .. NumUnits
      /\ d.past <= e.past /\ e.past <= f.past
  BY DEF IsBook, Grown
<1>2. (d.past .. e.past - 1) \cup (e.past .. f.past - 1) = d.past .. f.past - 1
  BY <1>1, PartitionAssumption
<1> QED BY <1>1, <1>2, PartitionAssumption DEF Grown

LEMMA BatchIsNatural == BatchSize \in Nat
<1>1. NumUnits \div MaxWorkerCount \in Int
  BY PartitionAssumption
<1> QED BY <1>1, PartitionAssumption DEF BatchSize

LEMMA DealGrows ==
  ASSUME NEW d, IsBook(d), NEW w
  PROVE  Grown(d, Deal(d, w).book)
<1> DEFINE end == Min({d.past + MaxWorkerCount * BatchSize, NumUnits})
<1>1. MaxWorkerCount * BatchSize \in Nat
  BY BatchIsNatural, PartitionAssumption
<1>2. d.past \in Nat /\ NumUnits \in Nat /\ d.past <= NumUnits
  BY PartitionAssumption DEF IsBook
<1>3. end \in d.past .. NumUnits
  <2> DEFINE all == MaxWorkerCount * BatchSize
  <2>1. d.past + all \in Nat
    BY <1>1, <1>2
  <2>2. end = IF d.past + all <= NumUnits THEN d.past + all ELSE NumUnits
    BY <2>1, <1>2, LesserOfTwo
  <2> HIDE DEF end
  <2> QED BY <1>1, <1>2, <2>2
<1>4. PICK p : Deal(d, w).book = [d EXCEPT !.parts = p,
                                           !.pending = @ \cup (d.past .. end - 1),
                                           !.past = end]
  BY DEF Deal, Outcome
<1> HIDE DEF end
<1> DEFINE e == [d EXCEPT !.parts = p, !.pending = @ \cup (d.past .. end - 1), !.past = end]
<1>5. /\ e \in [parts : {p}, pending : {d.pending \cup (d.past .. end - 1)},
                   first : {d.first}, past : {end}]
      /\ e.parts = p /\ e.pending = d.pending \cup (d.past .. end - 1)
      /\ e.first = d.first /\ e.past = end
  BY DEF IsBook
<1>6. d.past .. end - 1 \subseteq Units /\ d.past .. end - 1 \subseteq d.first .. end - 1
  BY <1>2, <1>3 DEF IsBook, Units
<1>7. d.pending \subseteq d.first .. end - 1
  BY <1>2, <1>3 DEF IsBook
<1> HIDE DEF e
<1>8. IsBook(e)
  <2>1. e \in [parts : {e.parts}, pending : SUBSET Units, first : 0 .. NumUnits, past : 0 .. NumUnits]
    BY <1>2, <1>3, <1>5, <1>6 DEF IsBook
  <2> QED BY <2>1, <1>2, <1>3, <1>5, <1>6, <1>7 DEF IsBook
<1> QED BY <1>2, <1>3, <1>4, <1>5, <1>8 DEF Grown, e

LEMMA AdoptGrows ==
  ASSUME NEW d, IsBook(d), NEW i, NEW w
  PROVE  Grown(d, Adopt(d, i, w).book)
<1>1. PICK p : Adopt(d, i, w).book = [d EXCEPT !.parts = p]
  BY DEF Adopt, Outcome
<1> QED BY <1>1, OnlyParts

LEMMA SplitGrows ==
  ASSUME NEW d, IsBook(d), NEW i, NEW w
  PROVE  Grown(d, SplitWUsPartition(d, i, w).book)
<1>1. PICK p : SplitWUsPartition(d, i, w).book = [d EXCEPT !.parts = p]
  BY DEF SplitWUsPartition, Outcome
<1> QED BY <1>1, OnlyParts

\* Whatever source the work of a worker comes from, no unit is struck off.
LEMMA AssignGrows ==
  ASSUME NEW d, IsBook(d), NEW w
  PROVE  Grown(d, AssignWUsToWorker(d, w).book)
<1> DEFINE mine == FindPartitionByWorker(d.parts, w)
           left == IF mine = 0 THEN d ELSE [d EXCEPT !.parts = RemoveAt(@, mine)]
           free == FindPartitionByWorker(left.parts, Nobody)
<1>1. d = [d EXCEPT !.parts = d.parts]
  BY DEF IsBook
<1>2. Grown(d, left)
  BY <1>1, OnlyParts
<1>3. IsBook(left)
  BY <1>2 DEF Grown
<1>4. AssignWUsToWorker(d, w) =
        IF free # 0 THEN Adopt(left, free, w)
        ELSE IF left.past < NumUnits THEN Deal(left, w)
        ELSE IF left.parts # <<>>
             THEN SplitWUsPartition(left, FindSoonestPartition(left.parts), w)
        ELSE Outcome(left, {})
  BY DEF AssignWUsToWorker
<1> HIDE DEF left, free, mine
<1>5. left = [left EXCEPT !.parts = left.parts]
  BY <1>3 DEF IsBook
<1>6. Grown(left, Outcome(left, {}).book)
  BY <1>3, <1>5, OnlyParts DEF Outcome
<1>7. Grown(left, AssignWUsToWorker(d, w).book)
  BY <1>3, <1>4, <1>6, AdoptGrows, DealGrows, SplitGrows
<1> QED BY <1>2, <1>7, GrownAgain

LEMMA LeaveGrows ==
  ASSUME NEW d, IsBook(d), NEW u
  PROVE  Grown(d, LeavePartition(d, u).book)
<1> DEFINE i    == PartitionOf(d.parts, u)
           rest == RemoveFirst(d.parts[i].units, u)
           kept == [d EXCEPT !.parts[i].units = rest]
           left == [d EXCEPT !.parts = RemoveAt(@, i)]
<1>1. PICK p : kept = [d EXCEPT !.parts = p]
  OBVIOUS
<1>2. Grown(d, kept) /\ Grown(d, left) /\ IsBook(left)
  BY <1>1, OnlyParts DEF Grown
<1>3. CASE rest # <<>>
  BY <1>2, <1>3 DEF LeavePartition, Outcome
<1>4. CASE rest = <<>> /\ d.first < NumUnits
  <2>1. LeavePartition(d, u) = AssignWUsToWorker(left, d.parts[i].worker)
    BY <1>4 DEF LeavePartition
  <2>2. Grown(left, AssignWUsToWorker(left, d.parts[i].worker).book)
    BY <1>2, AssignGrows
  <2> QED BY <1>2, <2>1, <2>2, GrownAgain
<1>5. CASE rest = <<>> /\ ~(d.first < NumUnits)
  BY <1>2, <1>5 DEF LeavePartition, Outcome
<1> QED BY <1>3, <1>4, <1>5

\* A unit struck off leaves the books; the window keeps what is not finished.
LEMMA StrikeKeepsWindow ==
  ASSUME NEW d, IsBook(d), NEW u, Outstanding(d, u)
  PROVE  /\ u \in Units
         /\ IsBook(StrikeOff(d, u)) /\ StrikeOff(d, u).past = d.past
         /\ StrikeOff(d, u).pending = d.pending \ {u}
<1>1. u \in Units /\ d.first \in 0 .. NumUnits /\ d.past \in 0 .. NumUnits /\ u < d.past
  BY DEF IsBook, Outstanding
<1> DEFINE S    == {d.past} \cup {k \in d.pending : k > u}
           next == NextOutstanding(d, u)
           e    == StrikeOff(d, u)
<1>2. S \subseteq Nat /\ S # {} /\ next = Min(S)
  BY <1>1, PartitionAssumption DEF NextOutstanding, IsBook, Units
<1>3. next \in S /\ \A k \in S : next <= k
  BY <1>2, LeastExists
<1>4. next \in 0 .. NumUnits /\ next <= d.past
  BY <1>1, <1>2, <1>3, PartitionAssumption DEF IsBook, Units
<1> HIDE DEF next
<1>5. /\ e \in [parts : {d.parts}, pending : {d.pending \ {u}},
                first : {IF u = d.first THEN next ELSE d.first}, past : {d.past}]
      /\ e.parts = d.parts /\ e.pending = d.pending \ {u} /\ e.past = d.past
      /\ e.first = IF u = d.first THEN next ELSE d.first
  BY DEF IsBook, StrikeOff, next
<1> HIDE DEF e
<1>6. \A k \in d.pending \ {u} : e.first <= k /\ k <= d.past - 1 /\ k \in Int
  <2> SUFFICES ASSUME NEW k \in d.pending \ {u} PROVE e.first <= k /\ k <= d.past - 1 /\ k \in Int
    OBVIOUS
  <2>1. k \in d.first .. d.past - 1
    BY DEF IsBook
  <2>2. CASE u = d.first
    <3>1. k > u
      BY <2>1, <2>2, <1>1
    <3>2. k \in S
      BY <3>1
    <3> QED BY <1>3, <1>5, <2>1, <2>2, <3>2
  <2> QED BY <1>5, <2>1, <2>2
<1>7. e.first \in 0 .. NumUnits /\ e.first <= d.past
  BY <1>1, <1>4, <1>5 DEF IsBook
<1>8. d.pending \ {u} \subseteq e.first .. d.past - 1
  BY <1>1, <1>6, <1>7
<1>9. e.first = e.past \/ e.first \in e.pending
  <2>1. next \in S => next = d.past \/ (next \in d.pending /\ next # u)
    <3>1. u \in Int
      BY <1>1, PartitionAssumption DEF Units
    <3> QED BY <3>1
  <2>2. u # d.first => d.first \in d.pending \ {u}
    BY <1>1 DEF IsBook, Outstanding
  <2> HIDE DEF S
  <2> QED BY <1>3, <1>5, <2>1, <2>2
<1>10. IsBook(e)
  BY <1>1, <1>5, <1>7, <1>8, <1>9 DEF IsBook
<1> QED BY <1>1, <1>5, <1>10 DEF e
---------------------------------------------------------------------------
(* The tracker. *)

\* The trigger is at n, the least unit not finished; past it, what is done is finished.
Told(t, n, got) ==
  /\ t \in [first : 0 .. NumUnits, info : [0 .. NumUnits -> T!Entries]]
  /\ n \in 0 .. NumUnits /\ t.first <= n
  /\ t.info[n] = "trigger"
  /\ \A u \in Units : u < n => got[u] = 1
  /\ n < NumUnits => got[n] = 0
  /\ \A k \in 0 .. NumUnits : k > n =>
       /\ t.info[k] # "trigger"
       /\ t.info[k] = "done" <=> (k \in Units /\ got[k] = 1)

LEMMA TrackerTells ==
  ASSUME NEW t, NEW n, NEW got \in [Units -> {0, 1}], Told(t, n, got),
         NEW u \in Units, got[u] = 0
  PROVE  LET step == T!WorkUnitFinished(t, u)
         IN Told(step.tracker, IF step.done # 0 THEN step.done ELSE n, [got EXCEPT ![u] = 1])
<1> DEFINE info == [t.info EXCEPT ![u] = "done"]
           next == T!NextNotDone(info, u)
           got2 == [got EXCEPT ![u] = 1]
           step == T!WorkUnitFinished(t, u)
<1>1. /\ NumUnits \in Nat /\ NumUnits > 0 /\ u \in 0 .. NumUnits - 1
      /\ n \in 0 .. NumUnits /\ t.first \in 0 .. NumUnits /\ t.first <= n
  BY PartitionAssumption DEF Units, Told
<1>2. n <= u
  BY <1>1 DEF Told
<1>3. /\ info \in [0 .. NumUnits -> T!Entries] /\ info[u] = "done"
      /\ \A k \in 0 .. NumUnits : k # u => info[k] = t.info[k]
      /\ got2[u] = 1 /\ \A k \in Units : k # u => got2[k] = got[k]
  BY <1>1 DEF Told, T!Entries
<1> DEFINE S == {k \in u + 1 .. NumUnits : info[k] # "done"}
<1>4. info[NumUnits] # "done"
  BY <1>1, <1>2, <1>3 DEF Told, Units
<1>5. next = Min(S) /\ S \subseteq Nat /\ NumUnits \in S
  BY <1>1, <1>4 DEF T!NextNotDone, T!Min, Min
<1>6. next \in S /\ \A k \in S : next <= k
  BY <1>5, LeastExists
<1> HIDE DEF next, got2, info, S
<1>7. next \in u + 1 .. NumUnits /\ info[next] # "done"
  BY <1>6 DEF S
<1>8. \A k \in Int : u < k /\ k < next => info[k] = "done"
  <2> SUFFICES ASSUME NEW k \in Int, u < k, k < next, info[k] # "done" PROVE FALSE
    OBVIOUS
  <2>1. k \in u + 1 .. NumUnits
    BY <1>1, <1>7
  <2>2. k \in S
    BY <2>1 DEF S
  <2> QED BY <1>1, <1>6, <1>7, <2>2
<1>9. CASE u = n
  <2> DEFINE after == [first |-> next, info |-> [info EXCEPT ![next] = "trigger"]]
  <2>1. step = [tracker |-> after, done |-> next]
    BY <1>1, <1>9 DEF T!WorkUnitFinished, Told, info, next
  <2>2. next # 0 /\ next \in 0 .. NumUnits
    BY <1>1, <1>7
  <2>3. /\ after \in [first : 0 .. NumUnits, info : [0 .. NumUnits -> T!Entries]]
        /\ after.first = next /\ after.info[next] = "trigger"
        /\ \A k \in 0 .. NumUnits : k # next => after.info[k] = info[k]
    BY <1>3, <2>2 DEF T!Entries
  <2> HIDE DEF after
  <2>4. \A k \in Units : k < next => got2[k] = 1
    <3> SUFFICES ASSUME NEW k \in Units, k < next PROVE got2[k] = 1
      OBVIOUS
    <3>1. CASE k < u
      BY <1>1, <1>3, <1>9, <3>1 DEF Told, Units
    <3>2. CASE k = u
      BY <1>3, <3>2
    <3>3. CASE k > u
      <4>1. k \in 0 .. NumUnits /\ k \in Int /\ k # u /\ k > n
        BY <1>1, <1>9, <3>3 DEF Units
      <4>2. t.info[k] = "done"
        BY <1>3, <1>8, <3>3, <4>1
      <4> QED BY <1>3, <4>1, <4>2 DEF Told
    <3> QED BY <1>1, <3>1, <3>2, <3>3 DEF Units
  <2>5. next < NumUnits => got2[next] = 0
    <3> SUFFICES ASSUME next < NumUnits PROVE got2[next] = 0
      OBVIOUS
    <3>1. next \in Units /\ next # u /\ next > n /\ next \in 0 .. NumUnits
      BY <1>1, <1>7, <1>9 DEF Units
    <3>2. t.info[next] # "done"
      BY <1>3, <1>7, <3>1
    <3> QED BY <1>3, <3>1, <3>2 DEF Told
  <2>6. \A k \in 0 .. NumUnits : k > next =>
          /\ after.info[k] # "trigger"
          /\ after.info[k] = "done" <=> (k \in Units /\ got2[k] = 1)
    <3> SUFFICES ASSUME NEW k \in 0 .. NumUnits, k > next
                 PROVE  /\ after.info[k] # "trigger"
                        /\ after.info[k] = "done" <=> (k \in Units /\ got2[k] = 1)
      OBVIOUS
    <3>1. k # next /\ k # u /\ k > n
      BY <1>1, <1>7, <1>9
    <3>2. after.info[k] = t.info[k]
      BY <1>3, <2>3, <3>1
    <3> QED BY <1>3, <3>1, <3>2 DEF Told
  <2>7. Told(after, next, got2)
    BY <2>2, <2>3, <2>4, <2>5, <2>6 DEF Told
  <2> QED BY <2>1, <2>2, <2>7 DEF got2
<1>10. CASE u # n
  <2> DEFINE after == [t EXCEPT !.info = info]
  <2>1. u > n /\ u # t.first /\ ~(u < t.first)
    BY <1>1, <1>2, <1>10
  <2>2. t.info[u] # "trigger"
    BY <1>1, <2>1 DEF Told
  <2>3. t = [t EXCEPT !.first = t.first]
    BY DEF Told
  <2>4. step.tracker = after /\ step.done = 0
    BY <2>1, <2>2, <2>3 DEF T!WorkUnitFinished, info, Told
  <2>5. /\ after \in [first : 0 .. NumUnits, info : [0 .. NumUnits -> T!Entries]]
        /\ after.first = t.first /\ after.info = info
    BY <1>3 DEF Told
  <2> HIDE DEF after
  <2>6. \A k \in Units : k < n => got2[k] = 1
    BY <1>1, <1>3, <2>1 DEF Told, Units
  <2>7. n < NumUnits => got2[n] = 0
    BY <1>1, <1>3, <1>10 DEF Told, Units
  <2>8. \A k \in 0 .. NumUnits : k > n =>
          /\ after.info[k] # "trigger"
          /\ after.info[k] = "done" <=> (k \in Units /\ got2[k] = 1)
    <3> SUFFICES ASSUME NEW k \in 0 .. NumUnits, k > n
                 PROVE  /\ info[k] # "trigger"
                        /\ info[k] = "done" <=> (k \in Units /\ got2[k] = 1)
      BY <2>5
    <3>1. CASE k = u
      BY <1>3, <3>1
    <3>2. CASE k # u
      BY <1>3, <3>2 DEF Told
    <3> QED BY <3>1, <3>2
  <2>9. Told(after, n, got2)
    BY <1>1, <1>3, <1>10, <2>5, <2>6, <2>7, <2>8 DEF Told
  <2> QED BY <2>4, <2>9 DEF got2
<1> QED BY <1>9, <1>10
---------------------------------------------------------------------------
(* The calls. *)

\* In a call, finished is what has been dealt and is not in the books any more.
Ledger ==
  /\ IsBook(book) /\ received \in [Units -> {0, 1}]
  /\ Told(tracker, reported, received)
  /\ phase = "distributing" =>
       \A u \in Units : received[u] = 1 <=> (u < book.past /\ u \notin book.pending)

LEMMA FreshCall ==
  /\ IsBook(NoBook) /\ NoBook.past = 0
  /\ Told(T!PrepareForWorkUnits, 0, [u \in Units |-> 0])
<1>1. IsBook(NoBook) /\ NoBook.past = 0
  BY PartitionAssumption DEF IsBook, NoBook
<1>2. Told(T!PrepareForWorkUnits, 0, [u \in Units |-> 0])
  BY PartitionAssumption DEF Told, T!PrepareForWorkUnits, T!Entries, Units
<1> QED BY <1>1, <1>2

LEMMA LedgerInit == Init => Ledger /\ WorkBag!Init
BY FreshCall DEF Init, Ledger, WorkBag!Init, WorkBag!Units, Units

\* To deal or hand over units changes no results.
LEMMA BooksGrow ==
  ASSUME Ledger, Grown(book, book'), UNCHANGED <<call, phase, tracker, reported, received>>
  PROVE  Ledger' /\ UNCHANGED WorkBag!vars
<1>1. ASSUME NEW u \in Units, phase = "distributing"
      PROVE  (u < book.past /\ u \notin book.pending) <=> (u < book'.past /\ u \notin book'.pending)
  <2>1. /\ book.past \in 0 .. NumUnits /\ book'.past \in 0 .. NumUnits /\ book.past <= book'.past
        /\ book'.pending = book.pending \cup (book.past .. book'.past - 1)
        /\ book.pending \subseteq book.first .. book.past - 1 /\ book.first \in 0 .. NumUnits
        /\ u \in Int
    BY PartitionAssumption DEF Ledger, Grown, IsBook, Units
  <2> QED BY <2>1
<1> QED BY <1>1 DEF Ledger, Grown, WorkBag!vars

LEMMA SameBooks ==
  ASSUME Ledger, UNCHANGED masterVars
  PROVE  Ledger' /\ UNCHANGED WorkBag!vars
BY DEF Ledger, masterVars, WorkBag!vars

LEMMA StartStep ==
  ASSUME Ledger, StartCall
  PROVE  Ledger' /\ WorkBag!Open
<1>1. IsBook(book') /\ Told(tracker', reported', received') /\ book'.past = 0
  BY FreshCall DEF StartCall
<1>2. received' = [u \in Units |-> 0]
  BY DEF StartCall
<1>3. Ledger'
  BY <1>1, <1>2, PartitionAssumption DEF Ledger, Units
<1> QED BY <1>3 DEF StartCall, WorkBag!Open, WorkBag!Units, Units

LEMMA EndStep ==
  ASSUME Ledger, FinishCall \/ StopCall
  PROVE  Ledger' /\ WorkBag!Close
<1>1. EndCall /\ phase = "distributing"
  BY DEF FinishCall, StopCall
<1>2. Ledger'
  BY <1>1, FreshCall DEF EndCall, Ledger
<1>3. FinishCall => \A u \in Units : received[u] = 1
  <2> SUFFICES ASSUME FinishCall, NEW u \in Units PROVE received[u] = 1
    OBVIOUS
  <2>1. book.first = NumUnits /\ book.past = NumUnits
    BY PartitionAssumption DEF FinishCall, Ledger, IsBook
  <2>2. u < book.past /\ u \notin book.pending
    BY <2>1, PartitionAssumption DEF Ledger, IsBook, Units
  <2> QED BY <1>1, <2>2 DEF Ledger
<1>4. call \in Stoppable \/ \A u \in Units : received[u] = 1
  BY <1>3 DEF StopCall
<1> QED BY <1>1, <1>2, <1>4 DEF EndCall, WorkBag!Close, WorkBag!Units, Units

\* The first results of a unit that is outstanding
LEMMA ReceiveStep ==
  ASSUME Ledger, phase = "distributing", NEW u, Outstanding(book, u), NEW after,
         Grown(StrikeOff(book, u), after.book), Receive(u, after), UNCHANGED call
  PROVE  Ledger' /\ WorkBag!Next
<1> DEFINE struck == StrikeOff(book, u)
<1>1. u \in Units /\ IsBook(struck) /\ struck.past = book.past /\ struck.pending = book.pending \ {u}
  BY StrikeKeepsWindow DEF Ledger
<1>2. received[u] = 0
  <2>1. u \in book.pending
    BY DEF Outstanding
  <2> QED BY <1>1, <2>1 DEF Ledger
<1>3. received' = [received EXCEPT ![u] = 1]
  <2>1. received' = [received EXCEPT ![u] = received[u] + 1]
    BY DEF Receive
  <2>2. received[u] + 1 = 1
    BY <1>2
  <2> QED BY <2>1, <2>2
<1>4. received' \in [Units -> {0, 1}]
  BY <1>1, <1>3 DEF Ledger
<1>5. Told(tracker', reported', received')
  <2> DEFINE step == T!WorkUnitFinished(tracker, u)
  <2>1. tracker' = step.tracker /\ reported' = IF step.done # 0 THEN step.done ELSE reported
    BY DEF Receive
  <2>2. Told(step.tracker, IF step.done # 0 THEN step.done ELSE reported, [received EXCEPT ![u] = 1])
    BY <1>1, <1>2, TrackerTells DEF Ledger
  <2> QED BY <1>3, <2>1, <2>2
<1> HIDE DEF struck
<1>6. IsBook(book') /\ book'.pending = struck.pending \cup (struck.past .. book'.past - 1)
      /\ struck.past <= book'.past
  BY DEF Receive, Grown, struck
<1>7. ASSUME NEW k \in Units
      PROVE  received'[k] = 1 <=> (k < book'.past /\ k \notin book'.pending)
  <2>1. k \in Int /\ u \in Int /\ u < book.past /\ book.past \in 0 .. NumUnits /\ book'.past \in 0 .. NumUnits
    BY <1>1, <1>6, PartitionAssumption DEF Units, Outstanding, Ledger, IsBook
  <2>2. received[k] = 1 <=> (k < book.past /\ k \notin book.pending)
    BY DEF Ledger
  <2>3. \A j \in book.pending : j < book.past /\ j \in Int
    BY <2>1 DEF Ledger, IsBook
  <2>4. CASE k = u
    <3>1. received'[k] = 1 /\ k < book'.past /\ k \notin book'.pending
      BY <1>1, <1>3, <1>6, <2>1, <2>4 DEF Ledger
    <3> QED BY <3>1
  <2>5. CASE k # u
    <3>1. received'[k] = received[k]
      BY <1>3, <2>5 DEF Ledger
    <3>2. k \in book'.pending <=> (k \in book.pending \/ (book.past <= k /\ k < book'.past))
      BY <1>1, <1>6, <2>1, <2>5
    <3> QED BY <1>1, <1>6, <2>1, <2>2, <2>3, <3>1, <3>2
  <2> QED BY <2>4, <2>5
<1>8. Ledger'
  BY <1>4, <1>5, <1>6, <1>7 DEF Ledger, Receive
<1>9. WorkBag!Prefix(received', reported')
  BY <1>5 DEF Told, WorkBag!Prefix, WorkBag!Units, Units
<1>10. WorkBag!Receive(u)
  BY <1>2, <1>3, <1>9 DEF WorkBag!Receive, Receive
<1> QED BY <1>1, <1>8, <1>10 DEF WorkBag!Next, WorkBag!Units, Units

LEMMA DownStep ==
  ASSUME Ledger, phase = "distributing", GoDown, UNCHANGED call
  PROVE  Ledger' /\ WorkBag!Next
BY DEF Ledger, GoDown, WorkBag!GoDown, WorkBag!Next

LEMMA ResultsStep ==
  ASSUME Ledger, NEW w \in Workers, OnResults(w)
  PROVE  Ledger' /\ (WorkBag!Next \/ UNCHANGED WorkBag!vars)
<1> DEFINE m      == Head(toMaster[w])
           struck == StrikeOff(book, m.what)
<1>1. phase = "distributing" /\ UNCHANGED call
  BY DEF OnResults, Dispatch
<1>2. CASE Outstanding(book, m.what) /\ FirstResults(m.what)
  <2>1. IsBook(struck)
    BY <1>2, StrikeKeepsWindow DEF Ledger
  <2>2. CASE GoDown
    BY <1>1, <2>2, DownStep
  <2>3. CASE Receive(m.what, Outcome(struck, {}))
    <3>1. struck = [struck EXCEPT !.parts = struck.parts]
      BY <2>1 DEF IsBook
    <3>2. Grown(struck, Outcome(struck, {}).book)
      BY <2>1, <3>1, OnlyParts DEF Outcome
    <3> QED BY <1>1, <1>2, <2>3, <3>2, ReceiveStep
  <2>4. ASSUME NEW v, Receive(m.what, LeavePartition(struck, v))
        PROVE  Ledger' /\ WorkBag!Next
    BY <1>1, <1>2, <2>1, <2>4, LeaveGrows, ReceiveStep
  <2> QED BY <1>2, <2>2, <2>3, <2>4 DEF FirstResults
<1>3. CASE UNCHANGED <<phase, book, toWorker, tracker, reported, received>>
  BY <1>1, <1>3, SameBooks DEF Ledger, masterVars
<1> QED BY <1>2, <1>3 DEF OnResults

LEMMA ReadyStep ==
  ASSUME Ledger, NEW w \in Workers, OnWorkerReady(w)
  PROVE  Ledger' /\ UNCHANGED WorkBag!vars
<1>1. UNCHANGED <<call, phase, tracker, reported, received>>
  BY DEF OnWorkerReady
<1>2. CASE UNCHANGED book
  BY <1>1, <1>2, SameBooks DEF masterVars
<1>3. CASE book' = AssignWUsToWorker(book, w).book
  BY <1>1, <1>3, AssignGrows, BooksGrow DEF Ledger
<1> QED BY <1>2, <1>3 DEF OnWorkerReady

LEMMA LossStep ==
  ASSUME Ledger, NEW w \in Workers, Disconnect(w)
  PROVE  Ledger' /\ UNCHANGED WorkBag!vars
<1>1. UNCHANGED <<call, phase, tracker, reported, received>>
  BY DEF Disconnect
<1>2. CASE book' = book
  BY <1>1, <1>2, SameBooks DEF masterVars
<1>3. CASE book' = Abandon(book, w) /\ book' # book
  <2>1. PICK p : Abandon(book, w) = [book EXCEPT !.parts = p]
    BY <1>3 DEF Abandon
  <2> QED BY <1>1, <1>3, <2>1, OnlyParts, BooksGrow DEF Ledger
<1> QED BY <1>2, <1>3 DEF Disconnect

LEMMA LedgerStep ==
  ASSUME Ledger, [Next]_vars
  PROVE  Ledger' /\ [WorkBag!Next]_(WorkBag!vars)
<1>1. CASE StartCall
  BY <1>1, StartStep DEF WorkBag!Next
<1>2. CASE FinishCall \/ StopCall
  BY <1>2, EndStep DEF WorkBag!Next
<1>3. ASSUME NEW w \in Workers, OnWorkerReady(w) PROVE Ledger' /\ [WorkBag!Next]_(WorkBag!vars)
  BY <1>3, ReadyStep
<1>4. ASSUME NEW w \in Workers, OnResults(w) PROVE Ledger' /\ [WorkBag!Next]_(WorkBag!vars)
  BY <1>4, ResultsStep
<1>5. ASSUME NEW w \in Workers, Disconnect(w) PROVE Ledger' /\ [WorkBag!Next]_(WorkBag!vars)
  BY <1>5, LossStep
<1>6. ASSUME NEW w \in Workers, Join(w) \/ WorkerNext(w) \/ \E t \in Threads : ThreadNext(w, t)
      PROVE  Ledger' /\ [WorkBag!Next]_(WorkBag!vars)
  <2>1. UNCHANGED masterVars
    BY <1>6 DEF Join, WorkerNext, HearMasterReady, HearAssignment, HearMasterFinished,
                CloseThreads, ThreadNext, TakeWorkUnit, FinishWorkUnit
  <2> QED BY <2>1, SameBooks
<1>7. CASE UNCHANGED vars
  BY <1>7, SameBooks DEF vars
<1> QED BY <1>1, <1>2, <1>3, <1>4, <1>5, <1>6, <1>7 DEF Next, MasterNext

\* DistributeWork is the work bag: no result is received twice in a call, the
\* caller is told prefixes, and a call returns with all units finished unless its
\* user stops it.
THEOREM DistributeIsAWorkBag == Safe => ImplementsWorkBag
<1>1. Init => Ledger /\ WorkBag!Init
  BY LedgerInit
<1>2. Ledger /\ [Next]_vars => Ledger' /\ [WorkBag!Next]_(WorkBag!vars)
  BY LedgerStep
<1> QED BY <1>1, <1>2, PTL DEF Safe, ImplementsWorkBag, WorkBag!Spec
---------------------------------------------------------------------------
(* Lists of partitions. *)

PartType == [worker : Workers \cup {Nobody}, units : Seq(Units)]
Rising(s) == \A j, k \in DOMAIN s : j < k => s[j] < s[k]
Good(p, P) == p.units # <<>> /\ ToSet(p.units) \subseteq P /\ Rising(p.units)
Apart(p, q) ==
  ToSet(p.units) \cap ToSet(q.units) = {} /\ (p.worker = q.worker => p.worker = Nobody)
Sound(parts, P) ==
  /\ parts \in Seq(PartType)
  /\ \A i \in 1 .. Len(parts) : Good(parts[i], P)
  /\ \A i, j \in 1 .. Len(parts) : i # j => Apart(parts[i], parts[j])

LEMMA InList ==
  ASSUME NEW S, NEW s \in Seq(S)
  PROVE  /\ Len(s) \in Nat /\ DOMAIN s = 1 .. Len(s)
         /\ \A k \in 1 .. Len(s) : s[k] \in S /\ s[k] \in ToSet(s)
         /\ \A x : x \in ToSet(s) <=> \E k \in 1 .. Len(s) : x = s[k]
         /\ ToSet(s) \subseteq S
BY DEF ToSet

LEMMA RemoveAtIs ==
  ASSUME NEW S, NEW s \in Seq(S), NEW i \in 1 .. Len(s)
  PROVE  /\ RemoveAt(s, i) \in Seq(S) /\ Len(RemoveAt(s, i)) = Len(s) - 1
         /\ \A k \in 1 .. Len(s) - 1 : RemoveAt(s, i)[k] = s[IF k < i THEN k ELSE k + 1]
<1> DEFINE a == SubSeq(s, 1, i - 1)
           b == SubSeq(s, i + 1, Len(s))
<1>1. a \in Seq(S) /\ Len(a) = i - 1 /\ \A k \in 1 .. i - 1 : a[k] = s[k]
  OBVIOUS
<1>2. b \in Seq(S) /\ Len(b) = Len(s) - i /\ \A k \in 1 .. Len(s) - i : b[k] = s[i + k]
  OBVIOUS
<1> HIDE DEF a, b
<1>3. /\ a \o b \in Seq(S) /\ Len(a \o b) = Len(s) - 1
      /\ \A k \in 1 .. Len(s) - 1 : (a \o b)[k] = IF k <= i - 1 THEN a[k] ELSE b[k - (i - 1)]
  <2>1. Len(a) + Len(b) = Len(s) - 1
    BY <1>1, <1>2
  <2>2. /\ a \o b \in Seq(S) /\ Len(a \o b) = Len(a) + Len(b)
        /\ \A k \in 1 .. Len(a) + Len(b) : (a \o b)[k] = IF k <= Len(a) THEN a[k] ELSE b[k - Len(a)]
    BY <1>1, <1>2, ConcatProperties
  <2>3. Len(a) = i - 1
    BY <1>1
  <2> QED BY <2>1, <2>2, <2>3
<1>4. ASSUME NEW k \in 1 .. Len(s) - 1
      PROVE  (a \o b)[k] = s[IF k < i THEN k ELSE k + 1]
  <2>1. CASE k < i
    BY <1>1, <1>3, <2>1
  <2>2. CASE ~(k < i)
    <3>1. k - (i - 1) \in 1 .. Len(s) - i /\ i + (k - (i - 1)) = k + 1 /\ ~(k <= i - 1)
      BY <2>2
    <3> QED BY <1>2, <1>3, <2>2, <3>1
  <2> QED BY <2>1, <2>2
<1> QED BY <1>3, <1>4 DEF RemoveAt, a, b

LEMMA PartsAre ==
  ASSUME NEW parts, NEW P, Sound(parts, P)
  PROVE  /\ \A p \in ToSet(parts) : p \in PartType /\ Good(p, P)
         /\ \A p, q \in ToSet(parts) : p # q => Apart(p, q)
         /\ \A i, j \in 1 .. Len(parts) : i # j => parts[i] # parts[j]
<1>1. parts \in Seq(PartType)
  BY DEF Sound
<1>2. \A p \in PartType : Good(p, P) => ~Apart(p, p)
  <2> SUFFICES ASSUME NEW p \in PartType, Good(p, P) PROVE ~Apart(p, p)
    OBVIOUS
  <2>1. p.units \in Seq(Units) /\ p.units # <<>>
    BY DEF PartType, Good
  <2>2. p.units[1] \in ToSet(p.units)
    BY <2>1, InList
  <2> QED BY <2>2 DEF Apart
<1>3. \A i \in 1 .. Len(parts) : parts[i] \in PartType
  BY <1>1
<1>4. \A i, j \in 1 .. Len(parts) : i # j => parts[i] # parts[j]
  BY <1>2, <1>3 DEF Sound
<1>5. \A p : p \in ToSet(parts) <=> \E k \in 1 .. Len(parts) : p = parts[k]
  BY <1>1, InList
<1> QED BY <1>3, <1>4, <1>5 DEF Sound

LEMMA SoundWithout ==
  ASSUME NEW parts, NEW P, Sound(parts, P), NEW i \in 1 .. Len(parts)
  PROVE  /\ Sound(RemoveAt(parts, i), P)
         /\ ToSet(RemoveAt(parts, i)) = ToSet(parts) \ {parts[i]}
<1> DEFINE r == RemoveAt(parts, i)
           at(k) == IF k < i THEN k ELSE k + 1
<1>1. parts \in Seq(PartType) /\ Len(parts) \in Nat
  BY DEF Sound
<1>2. /\ r \in Seq(PartType) /\ Len(r) = Len(parts) - 1
      /\ \A k \in 1 .. Len(r) : r[k] = parts[at(k)]
  BY <1>1, RemoveAtIs
<1> HIDE DEF r
<1>3. \A k \in 1 .. Len(r) : at(k) \in 1 .. Len(parts) /\ at(k) # i
  BY <1>1, <1>2
<1>4. \A j, k \in 1 .. Len(r) : j # k => at(j) # at(k)
  BY <1>1, <1>2
<1>5. \A j \in 1 .. Len(parts) : j # i => \E k \in 1 .. Len(r) : at(k) = j
  <2> SUFFICES ASSUME NEW j \in 1 .. Len(parts), j # i PROVE \E k \in 1 .. Len(r) : at(k) = j
    OBVIOUS
  <2>1. CASE j < i
    BY <1>1, <1>2, <2>1
  <2>2. CASE j > i
    <3>1. j - 1 \in 1 .. Len(r) /\ at(j - 1) = j
      BY <1>1, <1>2, <2>2
    <3> QED BY <3>1
  <2> QED BY <2>1, <2>2
<1> HIDE DEF at
<1>6. Sound(r, P)
  BY <1>2, <1>3, <1>4 DEF Sound
<1>7. \A p : p \in ToSet(parts) <=> \E k \in 1 .. Len(parts) : p = parts[k]
  BY <1>1, InList
<1>8. \A p : p \in ToSet(r) <=> \E k \in 1 .. Len(r) : p = r[k]
  BY <1>2, InList
<1>9. ToSet(r) = ToSet(parts) \ {parts[i]}
  <2>1. \A j \in 1 .. Len(parts) : j # i => parts[j] # parts[i]
    BY PartsAre
  <2>2. ASSUME NEW p \in ToSet(r) PROVE p \in ToSet(parts) /\ p # parts[i]
    <3>1. PICK k \in 1 .. Len(r) : p = r[k]
      BY <1>8
    <3> QED BY <1>2, <1>3, <1>7, <2>1, <3>1
  <2>3. ASSUME NEW p \in ToSet(parts), p # parts[i] PROVE p \in ToSet(r)
    <3>1. PICK j \in 1 .. Len(parts) : p = parts[j]
      BY <1>7
    <3>2. PICK k \in 1 .. Len(r) : at(k) = j
      BY <1>5, <2>3, <3>1
    <3> QED BY <1>2, <1>8, <3>1, <3>2
  <2> QED BY <2>2, <2>3
<1> QED BY <1>6, <1>9 DEF r

Replaced(parts, i, q) == [parts EXCEPT ![i] = q]

LEMMA SoundReplaced ==
  ASSUME NEW parts, NEW P, Sound(parts, P), NEW i \in 1 .. Len(parts),
         NEW q \in PartType, Good(q, P), \A p \in ToSet(parts) \ {parts[i]} : Apart(p, q)
  PROVE  /\ Sound(Replaced(parts, i, q), P)
         /\ ToSet(Replaced(parts, i, q)) = (ToSet(parts) \ {parts[i]}) \cup {q}
<1> DEFINE r == [parts EXCEPT ![i] = q]
<1>1. parts \in Seq(PartType)
  BY DEF Sound
<1>2. /\ r \in Seq(PartType) /\ Len(r) = Len(parts)
      /\ \A k \in 1 .. Len(parts) : r[k] = IF k = i THEN q ELSE parts[k]
  BY <1>1, ExceptSeq
<1> HIDE DEF r
<1>3. \A j \in 1 .. Len(parts) : j # i => parts[j] \in ToSet(parts) \ {parts[i]}
  BY <1>1, PartsAre, InList
<1>4. \A p, s : Apart(p, s) => Apart(s, p)
  BY DEF Apart
<1>5. Sound(r, P)
  BY <1>2, <1>3, <1>4 DEF Sound
<1>6. \A p : p \in ToSet(parts) <=> \E k \in 1 .. Len(parts) : p = parts[k]
  BY <1>1, InList
<1>7. \A p : p \in ToSet(r) <=> \E k \in 1 .. Len(parts) : p = r[k]
  BY <1>2, InList
<1>8. ToSet(r) = (ToSet(parts) \ {parts[i]}) \cup {q}
  BY <1>2, <1>3, <1>6, <1>7
<1> QED BY <1>5, <1>8 DEF r, Replaced

LEMMA SoundJoined ==
  ASSUME NEW a, NEW b, NEW P, Sound(a, P), Sound(b, P),
         \A p \in ToSet(a), q \in ToSet(b) : Apart(p, q)
  PROVE  Sound(a \o b, P) /\ ToSet(a \o b) = ToSet(a) \cup ToSet(b)
<1> DEFINE r == a \o b
<1>1. a \in Seq(PartType) /\ b \in Seq(PartType) /\ Len(a) \in Nat /\ Len(b) \in Nat
  BY DEF Sound
<1>2. /\ r \in Seq(PartType) /\ Len(r) = Len(a) + Len(b)
      /\ \A k \in 1 .. Len(r) : r[k] = IF k <= Len(a) THEN a[k] ELSE b[k - Len(a)]
  BY <1>1, ConcatProperties
<1> HIDE DEF r
<1>3. \A k \in 1 .. Len(r) : k <= Len(a) => k \in 1 .. Len(a)
  BY <1>1, <1>2
<1>4. \A k \in 1 .. Len(r) : ~(k <= Len(a)) => k - Len(a) \in 1 .. Len(b)
  BY <1>1, <1>2
<1>5. \A k \in 1 .. Len(a) : k \in 1 .. Len(r) /\ r[k] = a[k]
  BY <1>1, <1>2
<1>6. \A k \in 1 .. Len(b) : k + Len(a) \in 1 .. Len(r) /\ r[k + Len(a)] = b[k]
  <2> SUFFICES ASSUME NEW k \in 1 .. Len(b)
               PROVE  k + Len(a) \in 1 .. Len(r) /\ r[k + Len(a)] = b[k]
    OBVIOUS
  <2>1. k + Len(a) \in 1 .. Len(r) /\ ~(k + Len(a) <= Len(a)) /\ k + Len(a) - Len(a) = k
    BY <1>1, <1>2
  <2> QED BY <1>2, <2>1
<1>7. \A p, s : Apart(p, s) => Apart(s, p)
  BY DEF Apart
<1>8. \A p : p \in ToSet(a) <=> \E k \in 1 .. Len(a) : p = a[k]
  BY <1>1, InList
<1>9. \A p : p \in ToSet(b) <=> \E k \in 1 .. Len(b) : p = b[k]
  BY <1>1, InList
<1>10. \A p : p \in ToSet(r) <=> \E k \in 1 .. Len(r) : p = r[k]
  BY <1>2, InList
<1>11. \A k \in 1 .. Len(r) : Good(r[k], P)
  BY <1>2, <1>3, <1>4 DEF Sound
<1>12. ASSUME NEW j \in 1 .. Len(r), NEW k \in 1 .. Len(r), j # k
       PROVE  Apart(r[j], r[k])
  <2>1. CASE j <= Len(a) /\ k <= Len(a)
    BY <1>2, <1>3, <1>12, <2>1 DEF Sound
  <2>2. CASE j <= Len(a) /\ ~(k <= Len(a))
    BY <1>2, <1>3, <1>4, <1>8, <1>9, <2>2
  <2>3. CASE ~(j <= Len(a)) /\ k <= Len(a)
    BY <1>2, <1>3, <1>4, <1>7, <1>8, <1>9, <2>3
  <2>4. CASE ~(j <= Len(a)) /\ ~(k <= Len(a))
    <3>1. j - Len(a) # k - Len(a)
      BY <1>1, <1>2, <1>12
    <3> QED BY <1>2, <1>4, <2>4, <3>1 DEF Sound
  <2> QED BY <2>1, <2>2, <2>3, <2>4
<1>13. Sound(r, P)
  BY <1>2, <1>11, <1>12 DEF Sound
<1>14. ToSet(r) = ToSet(a) \cup ToSet(b)
  <2>1. ASSUME NEW p \in ToSet(r) PROVE p \in ToSet(a) \cup ToSet(b)
    BY <1>2, <1>3, <1>4, <1>8, <1>9, <1>10
  <2>2. ASSUME NEW p \in ToSet(a) PROVE p \in ToSet(r)
    <3>1. PICK k \in 1 .. Len(a) : p = a[k]
      BY <1>8
    <3> QED BY <1>5, <1>10, <3>1
  <2>3. ASSUME NEW p \in ToSet(b) PROVE p \in ToSet(r)
    <3>1. PICK k \in 1 .. Len(b) : p = b[k]
      BY <1>9
    <3> QED BY <1>6, <1>10, <3>1
  <2> QED BY <2>1, <2>2, <2>3
<1> QED BY <1>13, <1>14 DEF r

LEMMA SoundSingle ==
  ASSUME NEW P, NEW q \in PartType, Good(q, P)
  PROVE  Sound(<<q>>, P) /\ ToSet(<<q>>) = {q}
BY DEF Sound, ToSet

LEMMA SoundEmpty ==
  ASSUME NEW P
  PROVE  Sound(<<>>, P) /\ ToSet(<<>>) = {}
BY DEF Sound, ToSet

LEMMA SoundIn ==
  ASSUME NEW parts, NEW P, Sound(parts, P), NEW Q,
         \A p \in ToSet(parts) : ToSet(p.units) \subseteq Q
  PROVE  Sound(parts, Q)
<1>1. \A k \in 1 .. Len(parts) : parts[k] \in ToSet(parts)
  BY InList DEF Sound
<1> QED BY <1>1 DEF Sound, Good
---------------------------------------------------------------------------
(* Finding, removing and shortening partitions. *)

LEMMA FoundPartition ==
  ASSUME NEW parts \in Seq(PartType), NEW w
  PROVE  \/ /\ FindPartitionByWorker(parts, w) = 0
            /\ \A k \in 1 .. Len(parts) : parts[k].worker # w
         \/ /\ FindPartitionByWorker(parts, w) \in 1 .. Len(parts)
            /\ parts[FindPartitionByWorker(parts, w)].worker = w
<1> DEFINE I == {k \in 1 .. Len(parts) : parts[k].worker = w}
<1>1. FindPartitionByWorker(parts, w) = IF I # {} THEN Min(I) ELSE 0
  BY DEF FindPartitionByWorker, SelectInSeq
<1>2. I \subseteq Nat
  OBVIOUS
<1> QED BY <1>1, <1>2, LeastExists

LEMMA FoundUnit ==
  ASSUME NEW parts \in Seq(PartType), NEW u \in Listed(parts)
  PROVE  /\ PartitionOf(parts, u) \in 1 .. Len(parts)
         /\ u \in ToSet(parts[PartitionOf(parts, u)].units)
<1> DEFINE I == {k \in 1 .. Len(parts) : u \in ToSet(parts[k].units)}
<1>1. PartitionOf(parts, u) = IF I # {} THEN Min(I) ELSE 0
  BY DEF PartitionOf, SelectInSeq
<1>2. I \subseteq Nat
  OBVIOUS
<1>3. PICK p \in ToSet(parts) : u \in ToSet(p.units)
  BY DEF Listed
<1>4. I # {}
  BY <1>3, InList
<1> QED BY <1>1, <1>2, <1>4, LeastExists

LEMMA RemoveFirstIs ==
  ASSUME NEW s \in Seq(Units), Rising(s), NEW u \in ToSet(s)
  PROVE  /\ RemoveFirst(s, u) \in Seq(Units) /\ Rising(RemoveFirst(s, u))
         /\ ToSet(RemoveFirst(s, u)) = ToSet(s) \ {u}
<1> DEFINE I == {k \in 1 .. Len(s) : s[k] = u}
           i == Min(I)
           r == RemoveAt(s, i)
<1>1. I # {} /\ I \subseteq Nat
  BY InList
<1>2. i \in 1 .. Len(s) /\ s[i] = u
  BY <1>1, LeastExists
<1>3. RemoveFirst(s, u) = r
  BY <1>1 DEF RemoveFirst, SelectInSeq
<1> HIDE DEF i
<1>4. /\ r \in Seq(Units) /\ Len(r) = Len(s) - 1 /\ DOMAIN r = 1 .. Len(r)
      /\ \A k \in 1 .. Len(r) : r[k] = s[IF k < i THEN k ELSE k + 1]
  BY <1>2, RemoveAtIs
<1> HIDE DEF r
<1>5. \A j, k \in 1 .. Len(s) : j < k => s[j] < s[k]
  BY DEF Rising
<1>6. \A k \in 1 .. Len(s) : s[k] \in Int
  BY PartitionAssumption DEF Units
<1>7. Rising(r)
  BY <1>2, <1>4, <1>5 DEF Rising
<1>8. ASSUME NEW x \in ToSet(r) PROVE x \in ToSet(s) /\ x # u
  <2>1. PICK k \in 1 .. Len(r) : x = r[k]
    BY <1>4, <1>8, InList
  <2> DEFINE j == IF k < i THEN k ELSE k + 1
  <2>2. j \in 1 .. Len(s) /\ j # i /\ x = s[j]
    BY <1>2, <1>4, <2>1
  <2> QED BY <1>2, <1>5, <1>6, <2>2, InList
<1>9. ASSUME NEW x \in ToSet(s), x # u PROVE x \in ToSet(r)
  <2>1. PICK j \in 1 .. Len(s) : x = s[j]
    BY <1>9, InList
  <2>2. CASE j < i
    <3>1. j \in 1 .. Len(r) /\ r[j] = x
      BY <1>2, <1>4, <2>1, <2>2
    <3> QED BY <1>4, <3>1, InList
  <2>3. CASE j > i
    <3>1. j - 1 \in 1 .. Len(r) /\ r[j - 1] = x
      BY <1>2, <1>4, <2>1, <2>3
    <3> QED BY <1>4, <3>1, InList
  <2> QED BY <1>2, <1>9, <2>1, <2>2, <2>3
<1> QED BY <1>3, <1>4, <1>7, <1>8, <1>9

\* Of several with distinct third keys one comes first.
SomeIsFirst(N, f, g, h) ==
  \E i \in N : \A j \in N \ {i} :
    \/ f[i] < f[j]
    \/ f[i] = f[j] /\ g[i] < g[j]
    \/ f[i] = f[j] /\ g[i] = g[j] /\ h[i] < h[j]

LEMMA FirstByThreeKeys ==
  ASSUME NEW N, N # {}, NEW f \in [N -> Nat], NEW g \in [N -> Nat], NEW h \in [N -> Nat],
         \A i, j \in N : i # j => h[i] # h[j]
  PROVE  SomeIsFirst(N, f, g, h)
<1> DEFINE F == {f[k] : k \in N}
<1>1. PICK a \in N : \A j \in N : f[a] <= f[j]
  <2>1. F # {} /\ F \subseteq Nat
    OBVIOUS
  <2>2. Min(F) \in F /\ \A y \in F : Min(F) <= y
    <3> HIDE DEF F
    <3> QED BY <2>1, LeastExists
  <2> QED BY <2>2
<1> DEFINE A == {k \in N : f[k] = f[a]}
           G == {g[k] : k \in A}
<1>2. PICK b \in A : \A j \in A : g[b] <= g[j]
  <2>1. G # {} /\ G \subseteq Nat
    OBVIOUS
  <2>2. Min(G) \in G /\ \A y \in G : Min(G) <= y
    <3> HIDE DEF G
    <3> QED BY <2>1, LeastExists
  <2> QED BY <2>2
<1> DEFINE B == {k \in A : g[k] = g[b]}
           H == {h[k] : k \in B}
<1>3. PICK c \in B : \A j \in B : h[c] <= h[j]
  <2>1. H # {} /\ H \subseteq Nat
    OBVIOUS
  <2>2. Min(H) \in H /\ \A y \in H : Min(H) <= y
    <3> HIDE DEF H
    <3> QED BY <2>1, LeastExists
  <2> QED BY <2>2
<1>4. ASSUME NEW j \in N \ {c}
      PROVE  \/ f[c] < f[j]
             \/ f[c] = f[j] /\ g[c] < g[j]
             \/ f[c] = f[j] /\ g[c] = g[j] /\ h[c] < h[j]
  <2>1. f[c] = f[a] /\ g[c] = g[b] /\ c \in N
    OBVIOUS
  <2>2. f[c] <= f[j]
    BY <1>1, <2>1
  <2>3. f[j] = f[c] => g[c] <= g[j]
    BY <1>2, <2>1
  <2>4. f[j] = f[c] /\ g[j] = g[c] => h[c] <= h[j]
    BY <1>3, <2>1
  <2>5. h[c] # h[j]
    OBVIOUS
  <2>6. {f[c], f[j], g[c], g[j], h[c], h[j]} \subseteq Nat
    BY <2>1
  <2> QED BY <2>2, <2>3, <2>4, <2>5, <2>6
<1> QED BY <1>4 DEF SomeIsFirst

LEMMA SoonestFound ==
  ASSUME NEW parts, NEW P, Sound(parts, P), parts # <<>>
  PROVE  FindSoonestPartition(parts) \in 1 .. Len(parts)
<1> DEFINE N    == 1 .. Len(parts)
           J(k) == [i \in N |-> Job(parts[i].units, k)]
<1>1. parts \in Seq(PartType) /\ N # {} /\ DOMAIN parts = N
  BY DEF Sound
<1>2. \A i \in N : parts[i].units \in Seq(Units) /\ parts[i].units # <<>>
  <2>1. \A i \in N : parts[i] \in PartType /\ Good(parts[i], P)
    BY <1>1 DEF Sound
  <2> QED BY <2>1 DEF Good, PartType
<1>3. ASSUME NEW k \in {1, 2, 4} PROVE J(k) \in [N -> Nat]
  <2>1. ASSUME NEW i \in N PROVE Job(parts[i].units, k) \in Nat
    BY <1>2, PartitionAssumption DEF Job, Units
  <2> QED BY <2>1
<1>4. ASSUME NEW i \in N, NEW j \in N, i # j PROVE J(1)[i] # J(1)[j]
  <2>1. J(1)[i] = parts[i].units[1] /\ J(1)[j] = parts[j].units[1]
    BY <1>2 DEF Job
  <2>2. parts[i].units[1] \in ToSet(parts[i].units) /\ parts[j].units[1] \in ToSet(parts[j].units)
    BY <1>2, InList
  <2>3. ToSet(parts[i].units) \cap ToSet(parts[j].units) = {}
    BY <1>4 DEF Sound, Apart
  <2> QED BY <2>1, <2>2, <2>3
<1> DEFINE f == J(4)  g == J(2)  h == J(1)
<1>5. f \in [N -> Nat] /\ g \in [N -> Nat] /\ h \in [N -> Nat]
      /\ \A i, j \in N : i # j => h[i] # h[j]
  BY <1>3, <1>4
<1>6. \A i, j \in N :
        Sooner(parts[i].units, parts[j].units) <=>
           \/ f[i] < f[j]
           \/ f[i] = f[j] /\ g[i] < g[j]
           \/ f[i] = f[j] /\ g[i] = g[j] /\ h[i] < h[j]
  BY DEF Sooner
<1> HIDE DEF f, g, h, J
<1>7. SomeIsFirst(N, f, g, h)
  <2> HIDE DEF N
  <2> QED BY <1>1, <1>5, FirstByThreeKeys
<1>8. \E i \in N : \A j \in N \ {i} : Sooner(parts[i].units, parts[j].units)
  BY <1>6, <1>7 DEF SomeIsFirst
<1> QED BY <1>1, <1>8 DEF FindSoonestPartition
---------------------------------------------------------------------------
(* Shares of the untouched units. *)

LEMMA Division ==
  ASSUME NEW m \in Nat, NEW n \in Nat \ {0}
  PROVE  /\ m \div n \in Nat
         /\ (m \div n) * n <= m /\ m < (m \div n) * n + n
OBVIOUS

LEMMA TimesKeepsOrder ==
  ASSUME NEW a \in Nat, NEW b \in Nat, NEW n \in Nat, a <= b
  PROVE  a * n \in Nat /\ b * n \in Nat /\ a * n <= b * n
<1>1. PICK c \in Nat : b = a + c
  <2>1. b - a \in Nat /\ b = a + (b - a)
    OBVIOUS
  <2> QED BY <2>1
<1>2. b * n = a * n + c * n
  BY <1>1
<1>3. a * n \in Nat /\ c * n \in Nat
  OBVIOUS
<1> QED BY <1>2, <1>3

LEMMA TimesFollows ==
  ASSUME NEW a \in Nat, NEW b \in Nat, NEW n \in Nat, a < b
  PROVE  a * n \in Nat /\ b * n \in Nat /\ a * n + n <= b * n
<1>1. (a + 1) * n <= b * n /\ b * n \in Nat
  BY TimesKeepsOrder
<1>2. (a + 1) * n = a * n + n /\ a * n \in Nat
  OBVIOUS
<1> QED BY <1>1, <1>2

\* The k-th of n hands that the units from past to end are dealt to in turn
Hand(past, end, n, k) ==
  [j \in 1 .. ((end - past - k) \div n) + 1 |-> past + (k - 1) + (j - 1) * n]

DealtTo(past, end, n, k, u) ==
  \E j \in 1 .. ((end - past - k) \div n) + 1 : u = past + (k - 1) + (j - 1) * n

LEMMA HandIs ==
  ASSUME NEW past \in Nat, NEW end \in Nat, NEW n \in Nat \ {0}, past + n <= end, end <= NumUnits,
         NEW k \in 1 .. n
  PROVE  /\ Hand(past, end, n, k) \in Seq(Units) /\ Hand(past, end, n, k) # <<>>
         /\ Rising(Hand(past, end, n, k))
         /\ \A u : u \in ToSet(Hand(past, end, n, k)) <=> DealtTo(past, end, n, k, u)
         /\ ToSet(Hand(past, end, n, k)) \subseteq past .. end - 1
<1> DEFINE q == (end - past - k) \div n
           e(j) == past + (k - 1) + (j - 1) * n
           s == Hand(past, end, n, k)
<1>1. end - past - k \in Nat
  OBVIOUS
<1>2. q \in Nat /\ q * n <= end - past - k
  BY <1>1, Division
<1> HIDE DEF q
<1>3. ASSUME NEW j \in 1 .. q + 1 PROVE e(j) \in past .. end - 1
  <2>1. (j - 1) \in Nat /\ j - 1 <= q
    BY <1>2
  <2>2. (j - 1) * n \in Nat /\ q * n \in Nat /\ (j - 1) * n <= q * n
    BY <1>2, <2>1, TimesKeepsOrder
  <2> QED BY <1>2, <2>2
<1>4. ASSUME NEW i \in 1 .. q + 1, NEW j \in 1 .. q + 1, i < j PROVE e(i) < e(j)
  <2>1. i - 1 \in Nat /\ j - 1 \in Nat /\ i - 1 < j - 1
    BY <1>2, <1>4
  <2>2. (i - 1) * n \in Nat /\ (j - 1) * n \in Nat /\ (i - 1) * n + n <= (j - 1) * n
    BY <2>1, TimesFollows
  <2> QED BY <2>2
<1>5. past .. end - 1 \subseteq Units
  BY PartitionAssumption DEF Units
<1>6. s = [j \in 1 .. q + 1 |-> e(j)]
  BY DEF Hand, q
<1> HIDE DEF s, e
<1>7. s \in Seq(Units) /\ DOMAIN s = 1 .. q + 1 /\ Len(s) = q + 1
  <2>1. \A j \in 1 .. q + 1 : e(j) \in Units
    BY <1>3, <1>5
  <2> QED BY <1>2, <1>6, <2>1
<1>8. \A j \in 1 .. q + 1 : s[j] = e(j)
  BY <1>6
<1>9. Rising(s)
  BY <1>4, <1>7, <1>8 DEF Rising
<1>10. s # <<>>
  BY <1>2, <1>7
<1>11. \A u : u \in ToSet(s) <=> \E j \in 1 .. q + 1 : u = e(j)
  BY <1>7, <1>8, InList
<1>12. ToSet(s) \subseteq past .. end - 1
  BY <1>3, <1>11
<1> QED BY <1>7, <1>9, <1>10, <1>11, <1>12 DEF s, e, q, DealtTo

LEMMA HandsApart ==
  ASSUME NEW past \in Nat, NEW end \in Nat, NEW n \in Nat \ {0}, past + n <= end, end <= NumUnits,
         NEW k \in 1 .. n, NEW l \in 1 .. n, k < l
  PROVE  ToSet(Hand(past, end, n, k)) \cap ToSet(Hand(past, end, n, l)) = {}
<1> SUFFICES ASSUME NEW u \in ToSet(Hand(past, end, n, k)), u \in ToSet(Hand(past, end, n, l))
             PROVE  FALSE
  OBVIOUS
<1>1. PICK i \in 1 .. ((end - past - k) \div n) + 1 : u = past + (k - 1) + (i - 1) * n
  <2>1. DealtTo(past, end, n, k, u)
    BY HandIs
  <2> QED BY <2>1 DEF DealtTo
<1>2. PICK j \in 1 .. ((end - past - l) \div n) + 1 : u = past + (l - 1) + (j - 1) * n
  <2>1. DealtTo(past, end, n, l, u)
    BY HandIs
  <2> QED BY <2>1 DEF DealtTo
<1>3. (end - past - k) \div n \in Nat /\ (end - past - l) \div n \in Nat
  <2>1. end - past - k \in Nat /\ end - past - l \in Nat
    OBVIOUS
  <2> QED BY <2>1, Division
<1> DEFINE a == i - 1  b == j - 1
<1>4. a \in Nat /\ b \in Nat
  BY <1>3
<1>5. u = past + (k - 1) + a * n /\ u = past + (l - 1) + b * n
  BY <1>1, <1>2
<1> HIDE DEF a, b
<1>6. CASE a <= b
  <2>1. a * n \in Nat /\ b * n \in Nat /\ a * n <= b * n
    BY <1>4, <1>6, TimesKeepsOrder
  <2> QED BY <1>5, <2>1
<1>7. CASE b < a
  <2>1. a * n \in Nat /\ b * n \in Nat /\ b * n + n <= a * n
    BY <1>4, <1>7, TimesFollows
  <2> QED BY <1>5, <2>1
<1> QED BY <1>4, <1>6, <1>7

LEMMA HandsCover ==
  ASSUME NEW past \in Nat, NEW end \in Nat, NEW n \in Nat \ {0}, past + n <= end, end <= NumUnits,
         NEW u \in past .. end - 1
  PROVE  \E k \in 1 .. n : u \in ToSet(Hand(past, end, n, k))
<1> DEFINE q == (u - past) \div n
           k == (u - past) - q * n + 1
           m == end - past - k
<1>1. q \in Nat /\ q * n <= u - past /\ u - past < q * n + n
  <2>1. u - past \in Nat
    OBVIOUS
  <2> QED BY <2>1, Division
<1>2. q * n \in Nat
  BY <1>1
<1>3. k \in 1 .. n /\ u = past + (k - 1) + q * n
  <2> DEFINE x == q * n
  <2>1. x \in Nat /\ x <= u - past /\ u - past < x + n
    BY <1>1, <1>2
  <2> HIDE DEF x
  <2>2. (u - past) - x + 1 \in 1 .. n /\ u = past + (((u - past) - x + 1) - 1) + x
    BY <2>1
  <2> QED BY <2>2 DEF x
<1>4. m \in Nat /\ q * n <= m
  BY <1>1, <1>2, <1>3
<1> HIDE DEF q, k, m
<1>5. m \div n \in Nat /\ m < (m \div n) * n + n
  BY <1>4, Division
<1>6. q <= m \div n
  <2> SUFFICES ASSUME m \div n < q PROVE FALSE
    BY <1>1, <1>5
  <2>1. (m \div n) * n + n <= q * n /\ (m \div n) * n \in Nat
    BY <1>1, <1>5, TimesFollows
  <2> QED BY <1>2, <1>4, <1>5, <2>1
<1>7. q + 1 \in 1 .. (m \div n) + 1 /\ q + 1 - 1 = q
  BY <1>1, <1>5, <1>6
<1>8. u = past + (k - 1) + ((q + 1) - 1) * n
  <2>1. (q + 1) - 1 = q
    BY <1>1
  <2> QED BY <1>3, <2>1, Zenon
<1>9. u \in ToSet(Hand(past, end, n, k))
  <2>1. m = end - past - k
    BY DEF m
  <2>2. DealtTo(past, end, n, k, u)
    BY <1>7, <1>8, <2>1 DEF DealtTo
  <2> QED BY <1>3, <2>2, HandIs
<1> QED BY <1>3, <1>9
---------------------------------------------------------------------------
(* Work dealt anew. *)

\* What becomes of the partitions X when they are dealt anew as Y: each worker is
\* sent what he owns or owns no more than he did,
OwnersTold(X, Y, sends) ==
  /\ \A p \in Y : p.worker \in Workers =>
       \/ Assignment(p.worker, p.units) \in sends
       \/ /\ \A s \in sends : s.to # p.worker
          /\ \E q \in X : q.worker = p.worker /\ ToSet(p.units) \subseteq ToSet(q.units)
  /\ \A s, t \in sends : s.to = t.to => s = t
  /\ \A s \in sends : \E p \in Y : s = Assignment(p.worker, p.units)

\* w is the only new owner,
OwnersKept(X, Y, w) ==
  \A p \in Y : p.worker = w \/ p.worker = Nobody \/ \E q \in X : q.worker = p.worker

\* and what nobody owns is as it was, or fresh.
FreeOrFresh(X, Y, past) ==
  \A p \in Y : p.worker = Nobody => (p \in X \/ \A u \in ToSet(p.units) : past <= u)

Redealt(d, o, w) ==
  /\ Sound(o.book.parts, o.book.pending)
  /\ OwnersTold(ToSet(d.parts), ToSet(o.book.parts), o.sends)
  /\ OwnersKept(ToSet(d.parts), ToSet(o.book.parts), w)
  /\ w # Nobody => /\ FreeOrFresh(ToSet(d.parts), ToSet(o.book.parts), d.past)
                    /\ \A s \in o.sends : s.to # Nobody

\* No unit falls out of the list.
NoneDropped(d, o) ==
  Listed(d.parts) \cup (o.book.pending \ d.pending) \subseteq Listed(o.book.parts)

SoundBook(d) == IsBook(d) /\ Sound(d.parts, d.pending)
OwnsNothing(parts, w) == \A p \in ToSet(parts) : p.worker # w

\* Nothing is left for who asks but a part of what another owns.
Exhausted(d) == d.past = NumUnits /\ OwnsNothing(d.parts, Nobody)

\* Who owned a partition, and w, owns one now, or there is none to be had.
Provided(d, e, w) ==
  /\ Exhausted(d) => Exhausted(e)
  /\ \/ Exhausted(e)
     \/ \A v \in Workers : OwnsNothing(e.parts, v) => v # w /\ OwnsNothing(d.parts, v)
Owning(d, e, w) ==
  /\ \E p \in ToSet(e.parts) : p.worker = w
  /\ \A p \in ToSet(d.parts) : p.worker # Nobody => p \in ToSet(e.parts)

LEMMA PartitionIs ==
  ASSUME NEW w \in Workers \cup {Nobody}, NEW units \in Seq(Units)
  PROVE  /\ Partition(w, units) \in PartType
         /\ Partition(w, units).worker = w /\ Partition(w, units).units = units
BY DEF Partition, PartType

LEMMA PartTypeIs ==
  ASSUME NEW p \in PartType
  PROVE  /\ p.worker \in Workers \cup {Nobody} /\ p.units \in Seq(Units)
         /\ p = Partition(p.worker, p.units)
BY DEF Partition, PartType

LEMMA AssignmentIs ==
  ASSUME NEW w, NEW units
  PROVE  Assignment(w, units).to = w /\ Assignment(w, units).units = units
BY DEF Assignment

LEMMA InListed ==
  ASSUME NEW parts, NEW u
  PROVE  u \in Listed(parts) <=> \E p \in ToSet(parts) : u \in ToSet(p.units)
BY DEF Listed

HandOver(parts, i, w) == Replaced(parts, i, Partition(w, parts[i].units))

\* A partition with the same units changes hands.
LEMMA HandedOver ==
  ASSUME NEW parts, NEW P, Sound(parts, P), NEW i \in 1 .. Len(parts),
         NEW w \in Workers \cup {Nobody}, \A p \in ToSet(parts) : p.worker = w => w = Nobody
  PROVE  /\ Sound(HandOver(parts, i, w), P)
         /\ ToSet(HandOver(parts, i, w)) =
              (ToSet(parts) \ {parts[i]}) \cup {Partition(w, parts[i].units)}
<1> DEFINE q == Partition(w, parts[i].units)
<1>1. parts[i] \in PartType /\ Good(parts[i], P) /\ parts[i] \in ToSet(parts)
  BY InList DEF Sound
<1>2. q \in PartType /\ q.worker = w /\ q.units = parts[i].units
  BY <1>1, PartTypeIs, PartitionIs
<1>3. Good(q, P)
  BY <1>1, <1>2 DEF Good
<1>4. ASSUME NEW p \in ToSet(parts) \ {parts[i]} PROVE Apart(p, q)
  <2>1. Apart(p, parts[i])
    BY <1>1, PartsAre
  <2> QED BY <1>2, <2>1 DEF Apart
<1> HIDE DEF q
<1>5. /\ Sound(Replaced(parts, i, q), P)
      /\ ToSet(Replaced(parts, i, q)) = (ToSet(parts) \ {parts[i]}) \cup {q}
  BY <1>2, <1>3, <1>4, SoundReplaced
<1> QED BY <1>5 DEF q, HandOver

LEMMA PartsOf ==
  ASSUME NEW d, IsBook(d), NEW q
  PROVE  /\ [d EXCEPT !.parts = q].parts = q /\ [d EXCEPT !.parts = q].pending = d.pending
         /\ [d EXCEPT !.parts = q].past = d.past /\ [d EXCEPT !.parts = q].first = d.first
BY DEF IsBook

LEMMA AdoptRedeals ==
  ASSUME NEW d, SoundBook(d), NEW w \in Workers \cup {Nobody},
         \A p \in ToSet(d.parts) : p.worker = w => w = Nobody,
         NEW i \in 1 .. Len(d.parts), d.parts[i].worker = Nobody
  PROVE  /\ Redealt(d, Adopt(d, i, w), w) /\ NoneDropped(d, Adopt(d, i, w))
         /\ Owning(d, Adopt(d, i, w).book, w)
<1> DEFINE p == d.parts[i]
           q == Partition(w, p.units)
           o == Adopt(d, i, w)
           X == ToSet(d.parts)
           Y == (X \ {p}) \cup {q}
<1>1. IsBook(d) /\ Sound(d.parts, d.pending)
  BY DEF SoundBook
<1>2. p \in PartType /\ p \in X
  BY <1>1, InList DEF Sound
<1>3. q \in PartType /\ q.worker = w /\ q.units = p.units
  BY <1>2, PartTypeIs, PartitionIs
<1>4. o.book = [d EXCEPT !.parts = [d.parts EXCEPT ![i] = q]] /\ o.sends = {Assignment(w, p.units)}
  <2>1. [p EXCEPT !.worker = w] = q
    BY <1>2 DEF Partition, PartType
  <2>2. o.book = [d EXCEPT !.parts = [d.parts EXCEPT ![i] = [p EXCEPT !.worker = w]]]
    BY DEF Adopt, Outcome
  <2> QED BY <2>1, <2>2 DEF Adopt, Outcome
<1>5. o.book.parts = HandOver(d.parts, i, w) /\ o.book.pending = d.pending
  BY <1>1, <1>4, PartsOf DEF HandOver, Replaced
<1>6. Sound(o.book.parts, o.book.pending) /\ ToSet(o.book.parts) = Y
  BY <1>1, <1>5, HandedOver
<1> HIDE DEF o, X, q, p
<1>7. OwnersTold(X, Y, o.sends)
  <2>1. ASSUME NEW x \in Y, x.worker \in Workers
        PROVE  \/ Assignment(x.worker, x.units) \in o.sends
               \/ /\ \A s \in o.sends : s.to # x.worker
                  /\ \E y \in X : y.worker = x.worker /\ ToSet(x.units) \subseteq ToSet(y.units)
    <3>1. CASE x = q
      BY <1>3, <1>4, <3>1
    <3>2. CASE x \in X
      <4>1. x.worker # w
        BY <2>1, <3>2, PartitionAssumption DEF X
      <4> QED BY <1>4, <3>2, <4>1, AssignmentIs
    <3> QED BY <3>1, <3>2
  <2>2. Assignment(w, p.units) = Assignment(q.worker, q.units) /\ q \in Y
    BY <1>3
  <2> HIDE DEF Y
  <2>3. \A s, t \in o.sends : s.to = t.to => s = t
    BY <1>4
  <2>4. \A s \in o.sends : \E x \in Y : s = Assignment(x.worker, x.units)
    BY <1>4, <2>2
  <2> QED BY <2>1, <2>3, <2>4 DEF OwnersTold
<1>8. OwnersKept(X, Y, w)
  BY <1>3 DEF OwnersKept
<1>9. w # Nobody => FreeOrFresh(X, Y, d.past)
  BY <1>3 DEF FreeOrFresh
<1>10. Redealt(d, o, w)
  <2>1. \A s \in o.sends : s.to = w
    BY <1>4, AssignmentIs
  <2> HIDE DEF Y
  <2> QED BY <1>6, <1>7, <1>8, <1>9, <2>1 DEF Redealt, X
<1>11. NoneDropped(d, o)
  <2>1. ASSUME NEW u \in Listed(d.parts) PROVE u \in Listed(o.book.parts)
    <3>1. PICK x \in X : u \in ToSet(x.units)
      BY InListed DEF X
    <3>2. \E y \in Y : u \in ToSet(y.units)
      BY <1>3, <3>1
    <3> QED BY <1>6, <3>2, InListed
  <2> QED BY <1>5, <2>1 DEF NoneDropped
<1>12. Owning(d, o.book, w)
  BY <1>3, <1>6 DEF Owning, X, p
<1> QED BY <1>10, <1>11, <1>12 DEF o

Hands(past, end, n, w) ==
  [k \in 1 .. n |-> Partition(IF k = 1 THEN w ELSE Nobody, Hand(past, end, n, k))]

LEMMA HandsAre ==
  ASSUME NEW past \in Nat, NEW end \in Nat, NEW n \in Nat \ {0}, past + n <= end, end <= NumUnits,
         NEW w \in Workers \cup {Nobody}
  PROVE  /\ Sound(Hands(past, end, n, w), past .. end - 1)
         /\ Hands(past, end, n, w)[1] \in ToSet(Hands(past, end, n, w))
         /\ Hands(past, end, n, w)[1].worker = w
         /\ \A p \in ToSet(Hands(past, end, n, w)) :
              p.worker = Nobody \/ p = Hands(past, end, n, w)[1]
         /\ \A u \in past .. end - 1 : \E p \in ToSet(Hands(past, end, n, w)) : u \in ToSet(p.units)
<1> DEFINE hs == Hands(past, end, n, w)
<1>1. \A k \in 1 .. n :
        /\ Hand(past, end, n, k) \in Seq(Units) /\ Hand(past, end, n, k) # <<>>
        /\ Rising(Hand(past, end, n, k)) /\ ToSet(Hand(past, end, n, k)) \subseteq past .. end - 1
  BY HandIs
<1>2. \A k \in 1 .. n :
        /\ hs[k] \in PartType /\ hs[k].units = Hand(past, end, n, k)
        /\ hs[k].worker = IF k = 1 THEN w ELSE Nobody
  BY <1>1, PartitionIs DEF Hands
<1>3. hs \in Seq(PartType) /\ Len(hs) = n
  <2>1. hs = [k \in 1 .. n |-> hs[k]]
    BY DEF Hands
  <2> HIDE DEF hs
  <2> QED BY <1>2, <2>1
<1> HIDE DEF hs
<1>4. \A k \in 1 .. n : Good(hs[k], past .. end - 1)
  BY <1>1, <1>2 DEF Good
<1>5. ASSUME NEW k \in 1 .. n, NEW l \in 1 .. n, k # l PROVE Apart(hs[k], hs[l])
  <2>1. ToSet(Hand(past, end, n, k)) \cap ToSet(Hand(past, end, n, l)) = {}
    <3>1. CASE k < l
      BY <3>1, HandsApart
    <3>2. CASE l < k
      BY <3>2, HandsApart
    <3> QED BY <1>5, <3>1, <3>2
  <2>2. hs[k].worker = hs[l].worker => hs[k].worker = Nobody
    BY <1>2, <1>5
  <2> QED BY <1>2, <2>1, <2>2 DEF Apart
<1>6. Sound(hs, past .. end - 1)
  BY <1>3, <1>4, <1>5 DEF Sound
<1>7. hs[1] \in ToSet(hs) /\ hs[1].worker = w
  BY <1>2, <1>3, InList
<1>8. \A p \in ToSet(hs) : p.worker = Nobody \/ p = hs[1]
  BY <1>2, <1>3, InList
<1>9. ASSUME NEW u \in past .. end - 1 PROVE \E p \in ToSet(hs) : u \in ToSet(p.units)
  <2>1. PICK k \in 1 .. n : u \in ToSet(Hand(past, end, n, k))
    BY HandsCover
  <2>2. hs[k] \in ToSet(hs) /\ u \in ToSet(hs[k].units)
    BY <1>2, <1>3, <2>1, InList
  <2> QED BY <2>2
<1> QED BY <1>6, <1>7, <1>8, <1>9 DEF hs

LEMMA DealRedeals ==
  ASSUME NEW d, SoundBook(d), NEW w \in Workers \cup {Nobody},
         OwnsNothing(d.parts, w), OwnsNothing(d.parts, Nobody), d.past < NumUnits
  PROVE  /\ Redealt(d, Deal(d, w), w) /\ NoneDropped(d, Deal(d, w))
         /\ Owning(d, Deal(d, w).book, w)
<1> DEFINE end == Min({d.past + MaxWorkerCount * BatchSize, NumUnits})
           n   == Min({end - d.past, MaxWorkerCount})
           hs  == Hands(d.past, end, n, w)
           o   == Deal(d, w)
           P   == d.pending \cup (d.past .. end - 1)
           X   == ToSet(d.parts)
           Z   == ToSet(hs)
<1>1. IsBook(d) /\ Sound(d.parts, d.pending)
  BY DEF SoundBook
<1>2. d.past \in Nat /\ NumUnits \in Nat /\ MaxWorkerCount \in Nat /\ MaxWorkerCount >= 2
  BY <1>1, PartitionAssumption DEF IsBook
<1>3. end \in Nat /\ d.past < end /\ end <= NumUnits
  <2> DEFINE all == MaxWorkerCount * BatchSize
  <2>1. BatchSize \in Nat /\ BatchSize > 0
    <3>1. NumUnits \div MaxWorkerCount \in Int
      BY <1>2
    <3> QED BY <3>1, PartitionAssumption DEF BatchSize
  <2>2. all \in Nat /\ all > 0
    BY <1>2, <2>1
  <2>3. end = IF d.past + all <= NumUnits THEN d.past + all ELSE NumUnits
    <3>1. d.past + all \in Nat
      BY <1>2, <2>2
    <3> QED BY <1>2, <3>1, LesserOfTwo
  <2> HIDE DEF end, all
  <2> QED BY <1>2, <2>2, <2>3
<1> HIDE DEF end
<1>4. n \in Nat \ {0} /\ d.past + n <= end
  <2>1. end - d.past \in Nat
    BY <1>2, <1>3
  <2>2. n = IF end - d.past <= MaxWorkerCount THEN end - d.past ELSE MaxWorkerCount
    BY <1>2, <2>1, LesserOfTwo
  <2> HIDE DEF n
  <2> QED BY <1>2, <1>3, <2>2
<1> HIDE DEF n
<1>5. /\ o.book = [d EXCEPT !.parts = d.parts \o hs, !.pending = P, !.past = end]
      /\ o.sends = {Assignment(w, hs[1].units)}
  <2>1. hs[1].units = Hand(d.past, end, n, 1) /\ 1 \in 1 .. n
    BY <1>4 DEF Hands, Partition
  <2> QED BY <2>1 DEF Deal, Outcome, Hands, Hand, end, n
<1> HIDE DEF o
<1>6. o.book.parts = d.parts \o hs /\ o.book.pending = P
  BY <1>1, <1>5 DEF IsBook
<1> HIDE DEF hs
<1>7. /\ Sound(hs, d.past .. end - 1) /\ hs[1] \in Z /\ hs[1].worker = w
      /\ \A p \in Z : p.worker = Nobody \/ p = hs[1]
      /\ \A u \in d.past .. end - 1 : \E p \in Z : u \in ToSet(p.units)
  BY <1>2, <1>3, <1>4, HandsAre DEF hs
<1>8. \A p \in X : p \in PartType /\ ToSet(p.units) \subseteq d.pending
  BY <1>1, PartsAre DEF Good
<1>9. \A p \in Z : p \in PartType /\ ToSet(p.units) \subseteq d.past .. end - 1
  BY <1>7, PartsAre DEF Good
<1>10. Sound(d.parts, P)
  BY <1>1, <1>8, SoundIn
<1>11. Sound(hs, P)
  BY <1>7, <1>9, SoundIn
<1>12. d.pending \cap (d.past .. end - 1) = {}
  BY <1>1, <1>2, <1>3 DEF IsBook
<1>13. ASSUME NEW p \in X, NEW q \in Z PROVE Apart(p, q)
  <2>1. ToSet(p.units) \cap ToSet(q.units) = {}
    BY <1>8, <1>9, <1>12
  <2>2. p.worker # w /\ p.worker # Nobody
    BY DEF OwnsNothing
  <2> QED BY <1>7, <2>1, <2>2 DEF Apart
<1> HIDE DEF P
<1>14. Sound(o.book.parts, o.book.pending) /\ ToSet(o.book.parts) = X \cup Z
  BY <1>6, <1>10, <1>11, <1>13, SoundJoined
<1>15. OwnersTold(X, X \cup Z, o.sends)
  <2>1. ASSUME NEW x \in X \cup Z, x.worker \in Workers
        PROVE  \/ Assignment(x.worker, x.units) \in o.sends
               \/ /\ \A s \in o.sends : s.to # x.worker
                  /\ \E y \in X : y.worker = x.worker /\ ToSet(x.units) \subseteq ToSet(y.units)
    <3>1. CASE x \in X
      <4>1. x.worker # w
        BY <3>1 DEF OwnsNothing
      <4> QED BY <1>5, <3>1, <4>1, AssignmentIs
    <3>2. CASE x \in Z
      BY <1>5, <1>7, <2>1, <3>2, PartitionAssumption
    <3> QED BY <3>1, <3>2
  <2>2. Assignment(w, hs[1].units) = Assignment(hs[1].worker, hs[1].units) /\ hs[1] \in X \cup Z
    BY <1>7
  <2>3. \A s, t \in o.sends : s.to = t.to => s = t
    BY <1>5
  <2>4. \A s \in o.sends : \E x \in X \cup Z : s = Assignment(x.worker, x.units)
    BY <1>5, <2>2
  <2> QED BY <2>1, <2>3, <2>4 DEF OwnersTold
<1>16. OwnersKept(X, X \cup Z, w)
  BY <1>7 DEF OwnersKept
<1>17. FreeOrFresh(X, X \cup Z, d.past)
  <2>1. \A u \in d.past .. end - 1 : d.past <= u
    BY <1>2, <1>3
  <2> QED BY <1>9, <2>1 DEF FreeOrFresh
<1>18. Redealt(d, o, w)
  BY <1>5, <1>14, <1>15, <1>16, <1>17, AssignmentIs DEF Redealt
<1>19. NoneDropped(d, o)
  <2>1. ASSUME NEW u \in Listed(d.parts) PROVE u \in Listed(o.book.parts)
    BY <1>14, InListed
  <2>2. ASSUME NEW u \in o.book.pending \ d.pending PROVE u \in Listed(o.book.parts)
    <3>1. u \in d.past .. end - 1
      BY <1>6 DEF P
    <3> QED BY <1>7, <1>14, <3>1, InListed
  <2> QED BY <2>1, <2>2 DEF NoneDropped
<1>20. Owning(d, o.book, w)
  BY <1>7, <1>14 DEF Owning
<1> QED BY <1>18, <1>19, <1>20 DEF o

LEMMA Halves ==
  ASSUME NEW s \in Seq(Units), Rising(s), NEW h \in 0 .. Len(s) - 1
  PROVE  LET a == SubSeq(s, 1, h)
             b == SubSeq(s, h + 1, Len(s))
         IN /\ a \in Seq(Units) /\ Rising(a) /\ (h # 0 => a # <<>>)
            /\ b \in Seq(Units) /\ Rising(b) /\ b # <<>>
            /\ ToSet(a) \cap ToSet(b) = {} /\ ToSet(a) \cup ToSet(b) = ToSet(s)
            /\ h = 0 => b = s
<1> DEFINE a == SubSeq(s, 1, h)
           b == SubSeq(s, h + 1, Len(s))
<1>1. /\ a \in Seq(Units) /\ Len(a) = h /\ DOMAIN a = 1 .. h
      /\ \A k \in 1 .. h : a[k] = s[k]
  OBVIOUS
<1>2. /\ b \in Seq(Units) /\ Len(b) = Len(s) - h /\ DOMAIN b = 1 .. Len(s) - h
      /\ \A k \in 1 .. Len(s) - h : b[k] = s[h + k]
  OBVIOUS
<1>3. h = 0 => b = s
  BY SubSeqFull
<1> HIDE DEF a, b
<1>4. \A j, k \in 1 .. Len(s) : j < k => s[j] < s[k]
  BY DEF Rising
<1>5. \A k \in 1 .. Len(s) : s[k] \in Int
  BY PartitionAssumption DEF Units
<1>6. Rising(a)
  BY <1>1, <1>4 DEF Rising
<1>7. Rising(b)
  BY <1>2, <1>4 DEF Rising
<1>8. (h # 0 => a # <<>>) /\ b # <<>>
  BY <1>1, <1>2
<1>9. \A u : u \in ToSet(a) <=> \E k \in 1 .. h : u = s[k]
  BY <1>1, InList
<1>10. \A u : u \in ToSet(b) <=> \E k \in 1 .. Len(s) - h : u = s[h + k]
  <2>1. \A u : u \in ToSet(b) <=> \E k \in 1 .. Len(b) : u = b[k]
    BY <1>2, InList
  <2>2. \A u : (\E k \in 1 .. Len(b) : u = b[k]) <=> \E k \in 1 .. Len(s) - h : u = s[h + k]
    BY <1>2
  <2> QED BY <2>1, <2>2
<1>11. \A u : u \in ToSet(s) <=> \E k \in 1 .. Len(s) : u = s[k]
  BY InList
<1>12. ToSet(a) \cap ToSet(b) = {}
  <2> SUFFICES ASSUME NEW u \in ToSet(a), u \in ToSet(b) PROVE FALSE
    OBVIOUS
  <2>1. PICK j \in 1 .. h : u = s[j]
    BY <1>9
  <2>2. PICK k \in 1 .. Len(s) - h : u = s[h + k]
    BY <1>10
  <2>3. j \in 1 .. Len(s) /\ h + k \in 1 .. Len(s) /\ j < h + k
    OBVIOUS
  <2>4. s[j] < s[h + k]
    BY <1>4, <2>3
  <2>5. u \in Int /\ u < u
    BY <1>5, <2>1, <2>2, <2>3, <2>4
  <2> QED BY <2>5
<1>13. ASSUME NEW u \in ToSet(s) PROVE u \in ToSet(a) \cup ToSet(b)
  <2>1. PICK k \in 1 .. Len(s) : u = s[k]
    BY <1>11
  <2>2. CASE k <= h
    BY <1>9, <2>1, <2>2
  <2>3. CASE h < k
    <3>1. k - h \in 1 .. Len(s) - h /\ h + (k - h) = k
      BY <2>3
    <3> QED BY <1>10, <2>1, <3>1
  <2> QED BY <2>2, <2>3
<1>14. ToSet(a) \subseteq ToSet(s) /\ ToSet(b) \subseteq ToSet(s)
  <2>1. \A k \in 1 .. h : k \in 1 .. Len(s)
    OBVIOUS
  <2>2. \A k \in 1 .. Len(s) - h : h + k \in 1 .. Len(s)
    OBVIOUS
  <2> QED BY <1>9, <1>10, <1>11, <2>1, <2>2
<1> QED BY <1>1, <1>2, <1>3, <1>6, <1>7, <1>8, <1>12, <1>13, <1>14 DEF a, b

LEMMA SplitRedeals ==
  ASSUME NEW d, SoundBook(d), NEW w \in Workers \cup {Nobody},
         OwnsNothing(d.parts, w), OwnsNothing(d.parts, Nobody), NEW i \in 1 .. Len(d.parts)
  PROVE  Redealt(d, SplitWUsPartition(d, i, w), w) /\ NoneDropped(d, SplitWUsPartition(d, i, w))
<1> DEFINE p    == d.parts[i]
           half == Len(p.units) \div 2
           a    == SubSeq(p.units, 1, half)
           b    == SubSeq(p.units, half + 1, Len(p.units))
           old  == Partition(p.worker, a)
           new  == Partition(w, b)
           rest == RemoveAt(d.parts, i)
           M    == IF half = 0 THEN <<>> ELSE <<old>>
           O    == IF half = 0 THEN {} ELSE {old}
           o    == SplitWUsPartition(d, i, w)
           X    == ToSet(d.parts)
           P    == d.pending
<1>1. IsBook(d) /\ Sound(d.parts, P)
  BY DEF SoundBook
<1>2. p \in PartType /\ p \in X /\ Good(p, P)
  BY <1>1, InList, PartsAre DEF Sound
<1>3. p.units \in Seq(Units) /\ p.worker \in Workers /\ p.worker # w
      /\ p.units # <<>> /\ ToSet(p.units) \subseteq P /\ Rising(p.units)
  BY <1>2 DEF PartType, Good, OwnsNothing
<1>4. half \in 0 .. Len(p.units) - 1
  <2>1. \A m \in Nat \ {0} : m \div 2 \in 0 .. m - 1
    OBVIOUS
  <2>2. Len(p.units) \in Nat \ {0}
    BY <1>3
  <2> QED BY <2>1, <2>2
<1>5. /\ a \in Seq(Units) /\ Rising(a) /\ (half # 0 => a # <<>>)
      /\ b \in Seq(Units) /\ Rising(b) /\ b # <<>>
      /\ ToSet(a) \cap ToSet(b) = {} /\ ToSet(a) \cup ToSet(b) = ToSet(p.units)
      /\ half = 0 => b = p.units
  <2> HIDE DEF half, p
  <2> QED BY <1>3, <1>4, Halves
<1>6. /\ o.book = [d EXCEPT !.parts = (rest \o M) \o <<new>>]
      /\ o.sends = {Assignment(new.worker, new.units)}
                   \cup (IF half = 0 THEN {} ELSE {Assignment(old.worker, old.units)})
  BY DEF SplitWUsPartition, Outcome
<1> HIDE DEF o, half, a, b
<1>7. o.book.parts = (rest \o M) \o <<new>> /\ o.book.pending = P
  <2> HIDE DEF rest, M, new
  <2> QED BY <1>1, <1>6, PartsOf
<1>8. /\ old \in PartType /\ old.worker = p.worker /\ old.units = a
      /\ new \in PartType /\ new.worker = w /\ new.units = b
  BY <1>3, <1>5, PartitionIs
<1> HIDE DEF old, new
<1>9. Sound(rest, P) /\ ToSet(rest) = X \ {p}
  BY <1>1, SoundWithout
<1> HIDE DEF rest
<1>10. half # 0 => Good(old, P)
  BY <1>3, <1>5, <1>8 DEF Good
<1>11. Good(new, P)
  BY <1>3, <1>5, <1>8 DEF Good
<1>12. Sound(M, P) /\ ToSet(M) = O
  BY <1>8, <1>10, SoundSingle, SoundEmpty
<1>13. Sound(<<new>>, P) /\ ToSet(<<new>>) = {new}
  BY <1>8, <1>11, SoundSingle
<1> HIDE DEF M
<1>14. \A x \in X \ {p} : Apart(x, p) /\ x.worker # w /\ x.worker # Nobody
  BY <1>1, <1>2, PartsAre DEF OwnsNothing
<1>15. \A x \in X \ {p} : Apart(x, old) /\ Apart(x, new)
  BY <1>5, <1>8, <1>14 DEF Apart
<1>16. Apart(old, new)
  BY <1>3, <1>5, <1>8 DEF Apart
<1>17. Sound(rest \o M, P) /\ ToSet(rest \o M) = (X \ {p}) \cup O
  <2>1. \A x \in ToSet(rest), y \in ToSet(M) : Apart(x, y)
    BY <1>9, <1>12, <1>15
  <2> QED BY <1>9, <1>12, <2>1, SoundJoined
<1> DEFINE Y == (X \ {p}) \cup O \cup {new}
<1>18. Sound(o.book.parts, o.book.pending) /\ ToSet(o.book.parts) = Y
  <2> DEFINE r == rest \o M
  <2>1. \A x \in ToSet(r), y \in ToSet(<<new>>) : Apart(x, y)
    BY <1>13, <1>15, <1>16, <1>17
  <2>2. Sound(r, P) /\ ToSet(r) = (X \ {p}) \cup O
    BY <1>17
  <2> HIDE DEF r, O
  <2>3. Sound(r \o <<new>>, P) /\ ToSet(r \o <<new>>) = ToSet(r) \cup ToSet(<<new>>)
    BY <1>13, <2>1, <2>2, SoundJoined
  <2> QED BY <1>7, <1>13, <2>2, <2>3 DEF r
<1> HIDE DEF p, X, P
<1>19. OwnersTold(X, Y, o.sends)
  <2>1. ASSUME NEW x \in Y, x.worker \in Workers
        PROVE  \/ Assignment(x.worker, x.units) \in o.sends
               \/ /\ \A s \in o.sends : s.to # x.worker
                  /\ \E y \in X : y.worker = x.worker /\ ToSet(x.units) \subseteq ToSet(y.units)
    <3>1. CASE x = new
      BY <1>6, <3>1
    <3>2. CASE x \in O
      BY <1>6, <3>2
    <3>3. CASE x \in X \ {p}
      <4>1. x.worker # w /\ x.worker # p.worker
        BY <1>14, <3>3 DEF Apart
      <4>2. \A s \in o.sends : s.to = w \/ s.to = p.worker
        BY <1>6, <1>8, AssignmentIs
      <4> QED BY <3>3, <4>1, <4>2
    <3> QED BY <3>1, <3>2, <3>3
  <2>2. \A s, t \in o.sends : s.to = t.to => s = t
    BY <1>3, <1>6, <1>8, AssignmentIs
  <2>3. \A s \in o.sends : \E x \in Y : s = Assignment(x.worker, x.units)
    BY <1>6
  <2> HIDE DEF Y
  <2> QED BY <2>1, <2>2, <2>3 DEF OwnersTold
<1>20. OwnersKept(X, Y, w)
  BY <1>2, <1>8 DEF OwnersKept
<1>21. w # Nobody => FreeOrFresh(X, Y, d.past)
  <2>1. p.worker # Nobody
    BY <1>3, PartitionAssumption
  <2> QED BY <1>8, <2>1 DEF FreeOrFresh
<1> HIDE DEF Y
<1>22. Redealt(d, o, w)
  <2>1. w # Nobody => \A s \in o.sends : s.to # Nobody
    BY <1>3, <1>6, <1>8, AssignmentIs, PartitionAssumption
  <2> QED BY <1>18, <1>19, <1>20, <1>21, <2>1 DEF Redealt, X
<1>23. NoneDropped(d, o)
  <2>1. ASSUME NEW u \in Listed(d.parts) PROVE u \in Listed(o.book.parts)
    <3>1. PICK x \in X : u \in ToSet(x.units)
      BY InListed DEF X
    <3>2. CASE x # p
      <4>1. x \in Y
        BY <3>1, <3>2 DEF Y
      <4> QED BY <1>18, <3>1, <4>1, InListed
    <3>3. CASE x = p /\ u \in ToSet(b)
      <4>1. new \in Y
        BY DEF Y
      <4> QED BY <1>8, <1>18, <3>3, <4>1, InListed
    <3>4. CASE x = p /\ u \notin ToSet(b)
      <4>1. half # 0 /\ u \in ToSet(a)
        BY <1>5, <3>1, <3>4
      <4>2. old \in Y
        BY <4>1 DEF Y
      <4> QED BY <1>8, <1>18, <4>1, <4>2, InListed
    <3> QED BY <3>2, <3>3, <3>4
  <2>2. o.book.pending \ d.pending = {}
    BY <1>7 DEF P
  <2> QED BY <2>1, <2>2 DEF NoneDropped
<1> QED BY <1>22, <1>23 DEF o

LEMMA NothingRedeals ==
  ASSUME NEW d, SoundBook(d), NEW w
  PROVE  Redealt(d, Outcome(d, {}), w) /\ NoneDropped(d, Outcome(d, {}))
<1>1. Outcome(d, {}).book = d /\ Outcome(d, {}).sends = {}
  BY DEF Outcome
<1>2. OwnersTold(ToSet(d.parts), ToSet(d.parts), {})
  BY DEF OwnersTold
<1>3. OwnersKept(ToSet(d.parts), ToSet(d.parts), w)
  BY DEF OwnersKept
<1>4. FreeOrFresh(ToSet(d.parts), ToSet(d.parts), d.past)
  BY DEF FreeOrFresh
<1>5. Redealt(d, Outcome(d, {}), w)
  BY <1>1, <1>2, <1>3, <1>4 DEF Redealt, SoundBook
<1>6. NoneDropped(d, Outcome(d, {}))
  BY <1>1 DEF NoneDropped
<1> QED BY <1>5, <1>6

\* What is true of a list without some of its partitions is true of the list.
LEMMA RedealtWider ==
  ASSUME NEW d, NEW e, NEW o, NEW w, Redealt(e, o, w),
         ToSet(e.parts) \subseteq ToSet(d.parts), e.past = d.past
  PROVE  Redealt(d, o, w)
BY DEF Redealt, OwnersTold, OwnersKept, FreeOrFresh

\* A book without one of its partitions
LEMMA BookWithout ==
  ASSUME NEW d, IsBook(d), NEW P, Sound(d.parts, P), NEW i \in 1 .. Len(d.parts)
  PROVE  LET e == [d EXCEPT !.parts = RemoveAt(d.parts, i)]
         IN /\ IsBook(e) /\ Sound(e.parts, P)
            /\ ToSet(e.parts) = ToSet(d.parts) \ {d.parts[i]}
            /\ e.past = d.past /\ e.first = d.first /\ e.pending = d.pending
<1> DEFINE r == RemoveAt(d.parts, i)
           e == [d EXCEPT !.parts = r]
<1>1. Sound(r, P) /\ ToSet(r) = ToSet(d.parts) \ {d.parts[i]}
  BY SoundWithout
<1>2. /\ e.parts = r /\ e.pending = d.pending /\ e.past = d.past /\ e.first = d.first
      /\ IsBook(e)
  <2> HIDE DEF r
  <2> QED BY PartsOf, OnlyParts DEF Grown
<1> QED BY <1>1, <1>2

\* What is exhausted stays so: all that is dealt anew has an owner.
LEMMA ExhaustedStays ==
  ASSUME NEW d, NEW o, NEW w, IsBook(o.book), d.past <= o.book.past, Redealt(d, o, w),
         w # Nobody, Exhausted(d)
  PROVE  Exhausted(o.book)
<1>1. /\ d.past = NumUnits /\ o.book.past \in 0 .. NumUnits /\ d.past <= o.book.past
      /\ o.book.pending \subseteq 0 .. NumUnits - 1
  BY DEF Exhausted, IsBook, Units
<1>2. o.book.past = NumUnits
  BY <1>1, PartitionAssumption
<1>3. ASSUME NEW p \in ToSet(o.book.parts), p.worker = Nobody PROVE FALSE
  <2>1. p \in PartType /\ p.units # <<>> /\ ToSet(p.units) \subseteq o.book.pending
    BY PartsAre DEF Redealt, Good
  <2>2. p.units \in Seq(Units) /\ Len(p.units) \in Nat /\ Len(p.units) >= 1
    BY <2>1 DEF PartType
  <2>3. p.units[1] \in ToSet(p.units)
    BY <2>2, InList
  <2>4. ~(d.past <= p.units[1])
    BY <1>1, <2>1, <2>3, PartitionAssumption
  <2>5. p \in ToSet(d.parts)
    BY <1>3, <2>3, <2>4 DEF Redealt, FreeOrFresh
  <2> QED BY <1>3, <2>5 DEF Exhausted, OwnsNothing
<1> QED BY <1>2, <1>3 DEF Exhausted, OwnsNothing

\* Whatever AssignWUsToWorker does, the books stay sound and owners are told; and
\* for a worker who owned nothing it drops no unit.
LEMMA AssignRedeals ==
  ASSUME NEW d, SoundBook(d), NEW w \in Workers \cup {Nobody}
  PROVE  /\ Redealt(d, AssignWUsToWorker(d, w), w)
         /\ OwnsNothing(d.parts, w) => NoneDropped(d, AssignWUsToWorker(d, w))
         /\ w # Nobody => Provided(d, AssignWUsToWorker(d, w).book, w)
<1> DEFINE mine == FindPartitionByWorker(d.parts, w)
           left == IF mine = 0 THEN d ELSE [d EXCEPT !.parts = RemoveAt(@, mine)]
           free == FindPartitionByWorker(left.parts, Nobody)
           o    == AssignWUsToWorker(d, w)
<1>1. IsBook(d) /\ Sound(d.parts, d.pending) /\ d.parts \in Seq(PartType)
  BY DEF SoundBook, Sound
<1>2. \/ mine = 0 /\ OwnsNothing(d.parts, w)
      \/ mine \in 1 .. Len(d.parts) /\ d.parts[mine].worker = w
  <2>1. \/ mine = 0 /\ \A k \in 1 .. Len(d.parts) : d.parts[k].worker # w
        \/ mine \in 1 .. Len(d.parts) /\ d.parts[mine].worker = w
    BY <1>1, FoundPartition
  <2>2. \A p \in ToSet(d.parts) : \E k \in 1 .. Len(d.parts) : p = d.parts[k]
    BY <1>1, InList
  <2> QED BY <2>1, <2>2 DEF OwnsNothing
<1>3. o = IF free # 0 THEN Adopt(left, free, w)
          ELSE IF left.past < NumUnits THEN Deal(left, w)
          ELSE IF left.parts # <<>>
               THEN SplitWUsPartition(left, FindSoonestPartition(left.parts), w)
          ELSE Outcome(left, {})
  BY DEF AssignWUsToWorker
<1>4. /\ SoundBook(left) /\ left.past = d.past /\ ToSet(left.parts) \subseteq ToSet(d.parts)
      /\ \A p \in ToSet(left.parts) : p.worker = w => w = Nobody
      /\ OwnsNothing(d.parts, w) => left = d
      /\ \A p \in ToSet(d.parts) : p.worker = w \/ p \in ToSet(left.parts)
  <2>1. CASE mine = 0
    <3>1. left = d /\ OwnsNothing(d.parts, w)
      BY <1>2, <2>1
    <3> QED BY <3>1 DEF OwnsNothing
  <2>2. CASE mine # 0
    <3> DEFINE e == [d EXCEPT !.parts = RemoveAt(d.parts, mine)]
    <3>1. mine \in 1 .. Len(d.parts) /\ d.parts[mine].worker = w /\ left = e
      BY <1>2, <2>2
    <3> HIDE DEF mine, left
    <3>2. /\ IsBook(e) /\ Sound(e.parts, d.pending)
          /\ ToSet(e.parts) = ToSet(d.parts) \ {d.parts[mine]}
          /\ e.past = d.past /\ e.pending = d.pending
      BY <1>1, <3>1, BookWithout
    <3> HIDE DEF e
    <3>3. d.parts[mine] \in ToSet(d.parts)
      BY <1>1, <3>1, InList
    <3>4. \A p \in ToSet(e.parts) : Apart(p, d.parts[mine])
      BY <1>1, <3>2, <3>3, PartsAre
    <3> QED BY <3>1, <3>2, <3>3, <3>4 DEF SoundBook, Apart, OwnsNothing
  <2> QED BY <2>1, <2>2
<1> HIDE DEF o, left
<1>5. /\ Redealt(left, o, w) /\ NoneDropped(left, o)
      /\ Owning(left, o.book, w) \/ Exhausted(left)
  <2>1. left.parts \in Seq(PartType) /\ Sound(left.parts, left.pending)
    BY <1>4 DEF SoundBook, Sound
  <2>2. \/ /\ free = 0
           /\ \A k \in 1 .. Len(left.parts) : left.parts[k].worker # Nobody
        \/ free \in 1 .. Len(left.parts) /\ left.parts[free].worker = Nobody
    BY <2>1, FoundPartition
  <2>3. CASE free # 0
    <3> HIDE DEF free
    <3> QED BY <1>3, <1>4, <2>2, <2>3, AdoptRedeals
  <2>4. CASE free = 0
    <3>1. \A p \in ToSet(left.parts) : \E k \in 1 .. Len(left.parts) : p = left.parts[k]
      BY <2>1, InList
    <3>2. OwnsNothing(left.parts, Nobody)
      BY <2>2, <2>4, <3>1 DEF OwnsNothing
    <3>3. OwnsNothing(left.parts, w)
      BY <1>4, <3>2 DEF OwnsNothing
    <3>7. ~(left.past < NumUnits) => Exhausted(left)
      <4>1. left.past \in 0 .. NumUnits
        BY <1>4 DEF SoundBook, IsBook
      <4> QED BY <3>2, <4>1, PartitionAssumption DEF Exhausted
    <3>4. CASE left.past < NumUnits
      BY <1>3, <1>4, <2>4, <3>2, <3>3, <3>4, DealRedeals
    <3>5. CASE ~(left.past < NumUnits) /\ left.parts # <<>>
      <4>1. FindSoonestPartition(left.parts) \in 1 .. Len(left.parts)
        BY <2>1, <3>5, SoonestFound
      <4> QED BY <1>3, <1>4, <2>4, <3>2, <3>3, <3>5, <3>7, <4>1, SplitRedeals
    <3>6. CASE ~(left.past < NumUnits) /\ left.parts = <<>>
      BY <1>3, <1>4, <2>4, <3>6, <3>7, NothingRedeals
    <3> QED BY <3>4, <3>5, <3>6
  <2> QED BY <2>3, <2>4
<1>6. Redealt(d, o, w)
  BY <1>4, <1>5, RedealtWider
<1>7. ASSUME w # Nobody PROVE Provided(d, o.book, w)
  <2>1. Grown(d, o.book)
    BY <1>1, AssignGrows DEF o
  <2>2. IsBook(o.book) /\ d.past <= o.book.past /\ left.past = d.past
    BY <1>4, <2>1 DEF Grown
  <2>3. Exhausted(d) => Exhausted(o.book)
    BY <1>6, <1>7, <2>2, ExhaustedStays
  <2>4. Exhausted(left) => Exhausted(o.book)
    BY <1>5, <1>7, <2>2, ExhaustedStays
  <2>5. ASSUME Owning(left, o.book, w), NEW v \in Workers, OwnsNothing(o.book.parts, v)
        PROVE  v # w /\ OwnsNothing(d.parts, v)
    <3>1. v # w /\ v # Nobody
      BY <2>5, PartitionAssumption DEF Owning, OwnsNothing
    <3> QED BY <1>4, <2>5, <3>1 DEF Owning, OwnsNothing
  <2> QED BY <1>5, <2>3, <2>4, <2>5 DEF Provided
<1> QED BY <1>4, <1>5, <1>6, <1>7 DEF o

\* A unit leaves its partition.  It may be struck off before.
LEMMA LeaveRedeals ==
  ASSUME NEW d, IsBook(d), NEW v \in Listed(d.parts), Sound(d.parts, d.pending \cup {v})
  PROVE  LET o     == LeavePartition(d, v)
             owner == d.parts[PartitionOf(d.parts, v)].worker
         IN /\ Redealt(d, o, owner)
            /\ owner # Nobody => Listed(d.parts) \ {v} \subseteq Listed(o.book.parts)
            /\ owner # Nobody => o.book.pending \ d.pending \subseteq Listed(o.book.parts)
            /\ owner # Nobody => Provided(d, o.book, owner)
<1> DEFINE i     == PartitionOf(d.parts, v)
           p     == d.parts[i]
           owner == p.worker
           rest  == RemoveFirst(p.units, v)
           left  == [d EXCEPT !.parts = RemoveAt(d.parts, i)]
           o     == LeavePartition(d, v)
           X     == ToSet(d.parts)
           P     == d.pending \cup {v}
<1>1. d.parts \in Seq(PartType)
  BY DEF Sound
<1>2. i \in 1 .. Len(d.parts) /\ v \in ToSet(p.units)
  BY <1>1, FoundUnit
<1> HIDE DEF i
<1>3. p \in PartType /\ p \in X /\ Good(p, P)
  BY <1>1, <1>2, InList, PartsAre
<1>4. p.units \in Seq(Units) /\ Rising(p.units) /\ ToSet(p.units) \subseteq P
      /\ owner \in Workers \cup {Nobody}
  BY <1>3 DEF PartType, Good
<1>5. rest \in Seq(Units) /\ Rising(rest) /\ ToSet(rest) = ToSet(p.units) \ {v}
  <2> HIDE DEF p
  <2> QED BY <1>2, <1>4, RemoveFirstIs
<1>6. \A x \in X \ {p} : Apart(x, p) /\ v \notin ToSet(x.units) /\ ToSet(x.units) \subseteq d.pending
  <2>1. \A x \in X \ {p} : Apart(x, p) /\ ToSet(x.units) \subseteq P
    BY <1>3, PartsAre DEF Good
  <2> QED BY <1>2, <2>1 DEF Apart
<1>7. CASE rest # <<>>
  <2> DEFINE q == Partition(owner, rest)
             Y == (X \ {p}) \cup {q}
  <2>1. q \in PartType /\ q.worker = owner /\ q.units = rest
    BY <1>4, <1>5, PartitionIs
  <2>2. [p EXCEPT !.units = rest] = q
    BY <1>3 DEF Partition, PartType
  <2>3. o = Outcome([d EXCEPT !.parts[i].units = rest], {})
    BY <1>7 DEF LeavePartition, i
  <2>4. [d EXCEPT !.parts[i].units = rest] = [d EXCEPT !.parts = [d.parts EXCEPT ![i] = [p EXCEPT !.units = rest]]]
    OBVIOUS
  <2>5. o.book = [d EXCEPT !.parts = Replaced(d.parts, i, q)] /\ o.sends = {}
    BY <2>2, <2>3, <2>4 DEF Outcome, Replaced
  <2> HIDE DEF q, o
  <2>6. o.book.parts = Replaced(d.parts, i, q) /\ o.book.pending = d.pending
    BY <2>5, PartsOf
  <2>7. Good(q, P)
    BY <1>4, <1>5, <1>7, <2>1 DEF Good
  <2>8. \A x \in X \ {p} : Apart(x, q)
    BY <1>5, <1>6, <2>1 DEF Apart
  <2>9. Sound(o.book.parts, P) /\ ToSet(o.book.parts) = Y
    <3> HIDE DEF P
    <3> QED BY <1>2, <2>1, <2>6, <2>7, <2>8, SoundReplaced DEF P
  <2>10. Sound(o.book.parts, o.book.pending)
    <3>1. \A x \in Y : ToSet(x.units) \subseteq d.pending
      BY <1>4, <1>5, <1>6, <2>1
    <3> HIDE DEF Y
    <3> QED BY <2>6, <2>9, <3>1, SoundIn
  <2>11. OwnersTold(X, Y, {})
    BY <1>3, <1>5, <2>1 DEF OwnersTold
  <2>12. OwnersKept(X, Y, owner)
    BY <2>1 DEF OwnersKept
  <2>13. owner # Nobody => FreeOrFresh(X, Y, d.past)
    BY <2>1 DEF FreeOrFresh
  <2>14. Redealt(d, o, owner)
    BY <2>5, <2>9, <2>10, <2>11, <2>12, <2>13 DEF Redealt
  <2>15. Listed(d.parts) \ {v} \subseteq Listed(o.book.parts)
    <3> SUFFICES ASSUME NEW u \in Listed(d.parts), u # v PROVE u \in Listed(o.book.parts)
      OBVIOUS
    <3>1. PICK x \in X : u \in ToSet(x.units)
      BY InListed
    <3>2. \E y \in Y : u \in ToSet(y.units)
      BY <1>5, <2>1, <3>1
    <3> QED BY <2>9, <3>2, InListed
  <2>16. Provided(d, o.book, owner)
    <3>1. o.book.past = d.past
      BY <2>5, PartsOf
    <3>2. Exhausted(d) => Exhausted(o.book)
      BY <1>3, <2>1, <2>9, <3>1 DEF Exhausted, OwnsNothing
    <3>3. \A w \in Workers : OwnsNothing(o.book.parts, w) => w # owner /\ OwnsNothing(d.parts, w)
      BY <1>3, <2>1, <2>9 DEF OwnsNothing
    <3> QED BY <3>2, <3>3 DEF Provided
  <2> QED BY <2>5, <2>6, <2>14, <2>15, <2>16 DEF i, o
<1>8. CASE rest = <<>>
  <2>1. /\ IsBook(left) /\ Sound(left.parts, P) /\ ToSet(left.parts) = X \ {p}
        /\ left.past = d.past /\ left.first = d.first /\ left.pending = d.pending
    <3> HIDE DEF P
    <3> QED BY <1>2, BookWithout DEF P
  <2>2. o = IF d.first < NumUnits THEN AssignWUsToWorker(left, owner) ELSE Outcome(left, {})
    BY <1>8 DEF LeavePartition, i
  <2> HIDE DEF o, left
  <2>3. SoundBook(left)
    <3>1. Sound(left.parts, left.pending)
      BY <1>6, <2>1, SoundIn
    <3> QED BY <2>1, <3>1 DEF SoundBook
  <2>4. owner # Nobody => OwnsNothing(left.parts, owner)
    BY <1>6, <2>1 DEF OwnsNothing, Apart
  <2>5. Redealt(left, o, owner) /\ (owner # Nobody => NoneDropped(left, o))
    BY <1>4, <2>2, <2>3, <2>4, AssignRedeals, NothingRedeals
  <2>6. Redealt(d, o, owner)
    BY <2>1, <2>5, RedealtWider
  <2>7. Listed(d.parts) \ {v} \subseteq Listed(left.parts)
    <3> SUFFICES ASSUME NEW u \in Listed(d.parts), u # v PROVE u \in Listed(left.parts)
      OBVIOUS
    <3>1. PICK x \in X : u \in ToSet(x.units)
      BY InListed
    <3>2. ToSet(rest) = {}
      BY <1>8 DEF ToSet
    <3>3. x # p
      BY <1>5, <3>1, <3>2
    <3> QED BY <2>1, <3>1, <3>3, InListed
  <2>8. ASSUME owner # Nobody PROVE Provided(d, o.book, owner)
    <3>1. Grown(d, o.book) /\ IsBook(o.book) /\ d.past <= o.book.past
      BY LeaveGrows DEF Grown, o
    <3>2. Exhausted(d) => Exhausted(o.book)
      BY <2>6, <2>8, <3>1, ExhaustedStays
    <3>3. \A x \in X : x.worker = owner \/ x \in ToSet(left.parts)
      BY <2>1
    <3>4. CASE d.first < NumUnits
      <4>1. Provided(left, o.book, owner)
        BY <1>4, <2>2, <2>3, <2>8, <3>4, AssignRedeals
      <4> QED BY <3>2, <3>3, <4>1 DEF Provided, OwnsNothing
    <3>5. CASE ~(d.first < NumUnits)
      <4>1. o.book = left
        BY <2>2, <3>5 DEF Outcome
      <4>2. d.past = NumUnits /\ d.pending = {}
        BY <3>5, PartitionAssumption DEF IsBook
      <4>3. ASSUME NEW x \in ToSet(left.parts) PROVE FALSE
        <5>1. x \in PartType /\ x.units # <<>> /\ ToSet(x.units) \subseteq {}
          BY <2>1, <2>3, <4>2, PartsAre DEF SoundBook, Good
        <5>2. x.units \in Seq(Units) /\ Len(x.units) \in Nat /\ Len(x.units) >= 1
          BY <5>1 DEF PartType
        <5>3. x.units[1] \in ToSet(x.units)
          BY <5>2, InList
        <5> QED BY <5>1, <5>3
      <4>4. Exhausted(left)
        BY <2>1, <4>2, <4>3 DEF Exhausted, OwnsNothing
      <4> QED BY <4>1, <4>4 DEF Provided
    <3> QED BY <3>4, <3>5
  <2> QED BY <2>1, <2>5, <2>6, <2>7, <2>8 DEF NoneDropped, i, o
<1> QED BY <1>7, <1>8
---------------------------------------------------------------------------
(* The steps of the master. *)

BooksSound == Sound(book.parts, book.pending)
Sent(w, units) == toWorker'[w] = Append(toWorker[w], Message("assign", call, units))

\* The partitions change by work that x is given, and owners learn of it.
Moved(x) ==
  /\ BooksSound' /\ book.past <= book'.past
  /\ book'.pending \subseteq book.pending \cup (book.past .. book'.past - 1)
  /\ toWorker' = [w \in Workers |-> toWorker'[w]]
  /\ \A w \in Workers :
       \/ toWorker'[w] = toWorker[w]
       \/ Connected(w) /\ \E p \in ToSet(book'.parts) : p.worker = w /\ Sent(w, p.units)
  /\ \A p \in ToSet(book'.parts) : p.worker \in Workers =>
       \/ ~Connected(p.worker)
       \/ Sent(p.worker, p.units)
       \/ /\ toWorker'[p.worker] = toWorker[p.worker]
          /\ \E q \in ToSet(book.parts) :
               q.worker = p.worker /\ ToSet(p.units) \subseteq ToSet(q.units)
  /\ OwnersKept(ToSet(book.parts), ToSet(book'.parts), x)
  /\ x # Nobody => FreeOrFresh(ToSet(book.parts), ToSet(book'.parts), book.past)

LEMMA DealMoves ==
  ASSUME NEW d, NEW o, NEW x, Redealt(d, o, x), d.parts = book.parts,
         d.past = book.past, book' = o.book, Send(o.sends), book.past <= book'.past,
         book'.pending \subseteq book.pending \cup (book.past .. book'.past - 1)
  PROVE  Moved(x)
<1> DEFINE X == ToSet(book.parts)
           Y == ToSet(book'.parts)
           pick(w) == CHOOSE s \in o.sends : s.to = w
<1>1. /\ BooksSound' /\ OwnersTold(X, Y, o.sends) /\ OwnersKept(X, Y, x)
      /\ x # Nobody => FreeOrFresh(X, Y, book.past)
  BY DEF Redealt, BooksSound
<1>2. toWorker' = [w \in Workers |->
        IF Connected(w) /\ \E s \in o.sends : s.to = w
        THEN Append(toWorker[w], Message("assign", call, pick(w).units)) ELSE toWorker[w]]
  BY DEF Send
<1>3. \A w : (\E s \in o.sends : s.to = w) => pick(w) \in o.sends /\ pick(w).to = w
  OBVIOUS
<1> HIDE DEF pick, X, Y
<1>4. ASSUME NEW w \in Workers
      PROVE  \/ toWorker'[w] = toWorker[w]
             \/ Connected(w) /\ \E p \in Y : p.worker = w /\ Sent(w, p.units)
  <2>1. CASE Connected(w) /\ \E s \in o.sends : s.to = w
    <3>1. pick(w) \in o.sends /\ pick(w).to = w
      BY <1>3, <2>1
    <3>2. PICK p \in Y : pick(w) = Assignment(p.worker, p.units)
      BY <1>1, <3>1 DEF OwnersTold
    <3>3. p.worker = w /\ p.units = pick(w).units
      BY <3>1, <3>2, AssignmentIs
    <3>4. Sent(w, p.units)
      BY <1>2, <2>1, <3>3 DEF Sent
    <3> QED BY <2>1, <3>3, <3>4
  <2>2. CASE ~(Connected(w) /\ \E s \in o.sends : s.to = w)
    BY <1>2, <2>2
  <2> QED BY <2>1, <2>2
<1>5. ASSUME NEW p \in Y, p.worker \in Workers, Connected(p.worker)
      PROVE  \/ Sent(p.worker, p.units)
             \/ /\ toWorker'[p.worker] = toWorker[p.worker]
                /\ \E q \in X : q.worker = p.worker /\ ToSet(p.units) \subseteq ToSet(q.units)
  <2>1. CASE Assignment(p.worker, p.units) \in o.sends
    <3>1. Assignment(p.worker, p.units).to = p.worker
      BY AssignmentIs
    <3>2. pick(p.worker) \in o.sends /\ pick(p.worker).to = p.worker
      BY <1>3, <2>1, <3>1
    <3>3. pick(p.worker) = Assignment(p.worker, p.units)
      BY <1>1, <2>1, <3>1, <3>2 DEF OwnersTold
    <3>4. pick(p.worker).units = p.units
      BY <3>3, AssignmentIs
    <3>5. \E s \in o.sends : s.to = p.worker
      BY <3>2
    <3>6. Sent(p.worker, p.units)
      BY <1>2, <1>5, <3>4, <3>5 DEF Sent
    <3> QED BY <3>6
  <2>2. CASE Assignment(p.worker, p.units) \notin o.sends
    <3>1. /\ \A s \in o.sends : s.to # p.worker
          /\ \E q \in X : q.worker = p.worker /\ ToSet(p.units) \subseteq ToSet(q.units)
      BY <1>1, <1>5, <2>2 DEF OwnersTold
    <3> QED BY <1>2, <1>5, <3>1
  <2> QED BY <2>1, <2>2
<1>6. toWorker' = [w \in Workers |-> toWorker'[w]]
  BY <1>2
<1> QED BY <1>1, <1>4, <1>5, <1>6 DEF Moved, X, Y

LEMMA StayMoves ==
  ASSUME BooksSound, Ledger, toWorker = [w \in Workers |-> toWorker[w]], UNCHANGED <<book, toWorker>>,
         NEW x
  PROVE  Moved(x)
<1>1. book.past <= book'.past
  BY DEF Ledger, IsBook
<1>2. OwnersKept(ToSet(book.parts), ToSet(book'.parts), x)
  BY DEF OwnersKept
<1>3. FreeOrFresh(ToSet(book.parts), ToSet(book'.parts), book.past)
  BY DEF FreeOrFresh
<1>4. BooksSound'
  BY DEF BooksSound
<1> QED BY <1>1, <1>2, <1>3, <1>4 DEF Moved

LEMMA ReadyMoves ==
  ASSUME BooksSound, Ledger, NEW w \in Workers, OnWorkerReady(w), Head(toMaster[w]).call = call
  PROVE  /\ Moved(w)
         /\ OwnsNothing(book.parts, w) /\ book.pending \subseteq Listed(book.parts) =>
              book'.pending \subseteq Listed(book'.parts)
         /\ Provided(book, book', w)
<1> DEFINE o == AssignWUsToWorker(book, w)
<1>1. book' = o.book /\ Send(o.sends)
  BY DEF OnWorkerReady
<1>2. SoundBook(book)
  BY DEF SoundBook, Ledger, BooksSound
<1>3. /\ Redealt(book, o, w)
      /\ OwnsNothing(book.parts, w) => NoneDropped(book, o)
      /\ Provided(book, o.book, w)
  BY <1>2, AssignRedeals, PartitionAssumption
<1>4. book.past <= book'.past /\ book'.pending = book.pending \cup (book.past .. book'.past - 1)
  BY <1>1, AssignGrows DEF Ledger, Grown
<1> HIDE DEF o
<1>5. Moved(w)
  BY <1>1, <1>3, <1>4, DealMoves
<1> QED BY <1>1, <1>3, <1>5 DEF NoneDropped

\* What the results of u do: nothing, or the master goes down, or u is finished.
\* Nobody who had no work gets any.
LEMMA ResultsMove ==
  ASSUME BooksSound, Ledger, toWorker = [w \in Workers |-> toWorker[w]],
         NEW w \in Workers, OnResults(w)
  PROVE  LET m == Head(toMaster[w])
         IN /\ \E x : Moved(x)
            /\ OwnersKept(ToSet(book.parts), ToSet(book'.parts), Nobody)
            /\ m.call = call /\ m.what < book.past => phase' = "down" \/ m.what \notin book'.pending
<1> DEFINE m      == Head(toMaster[w])
           u      == m.what
           struck == StrikeOff(book, u)
           kept   == OwnersKept(ToSet(book.parts), ToSet(book'.parts), Nobody)
<1>1. CASE m.call = call /\ Outstanding(book, u) /\ FirstResults(u)
  <2>1. u \in Units /\ IsBook(struck) /\ struck.past = book.past /\ struck.pending = book.pending \ {u}
    BY <1>1, StrikeKeepsWindow DEF Ledger
  <2>2. struck.parts = book.parts
    BY DEF StrikeOff, Ledger, IsBook
  <2> HIDE DEF u, struck
  <2>3. ASSUME GoDown PROVE (\E y : Moved(y)) /\ kept /\ phase' = "down"
    BY <2>3, StayMoves DEF GoDown, OwnersKept
  <2>4. ASSUME NEW after, NEW x, x = Nobody \/ (\E q \in ToSet(book.parts) : q.worker = x),
               Redealt(struck, after, x), Grown(struck, after.book), Receive(u, after)
        PROVE  (\E y : Moved(y)) /\ kept /\ u \notin book'.pending
    <3>1. book' = after.book /\ Send(after.sends)
      BY <2>4 DEF Receive
    <3>2. book.past <= book'.past /\ book'.pending = (book.pending \ {u}) \cup (book.past .. book'.past - 1)
      BY <2>1, <2>4, <3>1 DEF Grown
    <3>3. Moved(x)
      BY <2>1, <2>2, <2>4, <3>1, <3>2, DealMoves
    <3>4. u \notin book.past .. book'.past - 1
      <4>1. u \in Int /\ u < book.past /\ book.past \in Int
        BY <1>1, <2>1, PartitionAssumption DEF Outstanding, Units, Ledger, IsBook, u
      <4> QED BY <4>1
    <3>5. kept
      <4>1. OwnersKept(ToSet(book.parts), ToSet(book'.parts), x)
        BY <3>3 DEF Moved
      <4> QED BY <2>4, <4>1 DEF OwnersKept
    <3> QED BY <3>2, <3>3, <3>4, <3>5
  <2>5. ASSUME u \notin Listed(book.parts), Receive(u, Outcome(struck, {}))
        PROVE  (\E y : Moved(y)) /\ kept /\ u \notin book'.pending
    <3>1. \A p \in ToSet(book.parts) : ToSet(p.units) \subseteq struck.pending
      BY <2>1, <2>5, PartsAre DEF Listed, BooksSound, Good
    <3>2. SoundBook(struck)
      BY <2>1, <2>2, <3>1, SoundIn DEF SoundBook, BooksSound
    <3>3. Redealt(struck, Outcome(struck, {}), Nobody)
      BY <3>2, NothingRedeals
    <3>4. Grown(struck, Outcome(struck, {}).book)
      <4>1. struck = [struck EXCEPT !.parts = struck.parts]
        BY <2>1 DEF IsBook
      <4> QED BY <2>1, <4>1, OnlyParts DEF Outcome
    <3> QED BY <2>4, <2>5, <3>3, <3>4
  <2>6. ASSUME NEW v \in IF u \in Listed(book.parts) THEN {u} ELSE Listed(book.parts),
               Receive(u, LeavePartition(struck, v))
        PROVE  (\E y : Moved(y)) /\ kept /\ u \notin book'.pending
    <3>1. v \in Listed(struck.parts)
      BY <2>2
    <3>2. \A p \in ToSet(book.parts) : ToSet(p.units) \subseteq struck.pending \cup {v}
      <4>1. \A p \in ToSet(book.parts) : ToSet(p.units) \subseteq book.pending
        BY PartsAre DEF BooksSound, Good
      <4>2. u \in Listed(book.parts) => v = u
        OBVIOUS
      <4> QED BY <2>1, <4>1, <4>2 DEF Listed
    <3>3. Sound(struck.parts, struck.pending \cup {v})
      BY <2>2, <3>2, SoundIn DEF BooksSound
    <3>4. Redealt(struck, LeavePartition(struck, v), struck.parts[PartitionOf(struck.parts, v)].worker)
      BY <2>1, <3>1, <3>3, LeaveRedeals
    <3>5. Grown(struck, LeavePartition(struck, v).book)
      BY <2>1, LeaveGrows
    <3>6. \E q \in ToSet(book.parts) : q.worker = struck.parts[PartitionOf(struck.parts, v)].worker
      <4>1. struck.parts \in Seq(PartType)
        BY <3>3 DEF Sound
      <4>2. PartitionOf(struck.parts, v) \in 1 .. Len(struck.parts)
        BY <3>1, <4>1, FoundUnit
      <4> QED BY <2>2, <4>1, <4>2, InList
    <3> QED BY <2>4, <2>6, <3>4, <3>5, <3>6
  <2>7. \/ GoDown
        \/ u \notin Listed(book.parts) /\ Receive(u, Outcome(struck, {}))
        \/ \E v \in IF u \in Listed(book.parts) THEN {u} ELSE Listed(book.parts) :
             Receive(u, LeavePartition(struck, v))
    BY <1>1 DEF FirstResults, struck
  <2>8. (\E y : Moved(y)) /\ kept /\ (phase' = "down" \/ u \notin book'.pending)
    BY <2>3, <2>5, <2>6, <2>7
  <2> QED BY <2>8 DEF u
<1>2. CASE /\ ~(m.call = call /\ Outstanding(book, u))
           /\ UNCHANGED <<phase, book, toWorker, tracker, reported, received>>
  <2>1. Moved(w)
    BY <1>2, StayMoves
  <2>2. m.call = call /\ u < book.past => u \notin book'.pending
    <3>1. \A k \in book.pending : book.first <= k
      BY DEF Ledger, IsBook
    <3> QED BY <1>2, <3>1 DEF Outstanding
  <2>3. (\E x : Moved(x)) /\ kept
    BY <1>2, <2>1 DEF OwnersKept
  <2> HIDE DEF u
  <2> QED BY <2>2, <2>3 DEF u
<1> QED BY <1>1, <1>2 DEF OnResults

\* Results of a unit that a worker owns, while every unit dealt is in the list
LEMMA ResultsMoveSafely ==
  ASSUME BooksSound, Ledger, toWorker = [w \in Workers |-> toWorker[w]],
         book.pending \subseteq Listed(book.parts),
         NEW w \in Workers, OnResults(w),
         Head(toMaster[w]).call = call =>
           \A p \in ToSet(book.parts) : p.worker = Nobody => Head(toMaster[w]).what \notin ToSet(p.units)
  PROVE  /\ phase' = phase /\ book'.pending \subseteq Listed(book'.parts)
         /\ \E x : x # Nobody /\ Moved(x)
         /\ Provided(book, book', Nobody)
<1> DEFINE m      == Head(toMaster[w])
           u      == m.what
           struck == StrikeOff(book, u)
           after  == LeavePartition(struck, u)
           owner  == struck.parts[PartitionOf(struck.parts, u)].worker
<1>1. CASE m.call = call /\ Outstanding(book, u) /\ FirstResults(u)
  <2>1. u \in Units /\ IsBook(struck) /\ struck.past = book.past /\ struck.pending = book.pending \ {u}
    BY <1>1, StrikeKeepsWindow DEF Ledger
  <2>2. struck.parts = book.parts
    BY DEF StrikeOff, Ledger, IsBook
  <2>3. u \in Listed(book.parts)
    BY <1>1 DEF Outstanding
  <2>4. Receive(u, after) \/ ((\E s \in after.sends : s.to = Nobody) /\ GoDown)
    <3> HIDE DEF u, struck, after
    <3> QED BY <1>1, <2>3 DEF FirstResults, struck, after
  <2> HIDE DEF u, struck
  <2>5. \A p \in ToSet(book.parts) : ToSet(p.units) \subseteq struck.pending \cup {u}
    BY <2>1, PartsAre DEF BooksSound, Good
  <2>6. Sound(struck.parts, struck.pending \cup {u})
    BY <2>2, <2>5, SoundIn DEF BooksSound
  <2>7. /\ Redealt(struck, after, owner)
        /\ owner # Nobody => Listed(struck.parts) \ {u} \subseteq Listed(after.book.parts)
        /\ owner # Nobody => after.book.pending \ struck.pending \subseteq Listed(after.book.parts)
        /\ owner # Nobody => Provided(struck, after.book, owner)
    BY <2>1, <2>2, <2>3, <2>6, LeaveRedeals
  <2>8. owner # Nobody
    <3> DEFINE i == PartitionOf(book.parts, u)
    <3>1. book.parts \in Seq(PartType)
      BY DEF BooksSound, Sound
    <3>2. i \in 1 .. Len(book.parts) /\ u \in ToSet(book.parts[i].units)
      BY <2>3, <3>1, FoundUnit
    <3>3. book.parts[i] \in ToSet(book.parts)
      BY <3>1, <3>2, InList
    <3> HIDE DEF i
    <3>4. book.parts[i].worker # Nobody
      BY <1>1, <3>2, <3>3 DEF u
    <3> QED BY <2>2, <3>4 DEF i
  <2>9. Grown(struck, after.book)
    BY <2>1, LeaveGrows
  <2> HIDE DEF after, owner
  <2>10. Receive(u, after)
    BY <2>4, <2>7, <2>8 DEF Redealt
  <2>11. book' = after.book /\ Send(after.sends) /\ phase' = phase
    BY <2>10 DEF Receive
  <2>12. /\ book.past <= book'.past
         /\ book'.pending = (book.pending \ {u}) \cup (book.past .. book'.past - 1)
    BY <2>1, <2>9, <2>11 DEF Grown
  <2>13. Moved(owner)
    BY <2>1, <2>2, <2>7, <2>11, <2>12, DealMoves
  <2>14. Provided(book, book', Nobody)
    BY <2>1, <2>2, <2>7, <2>8, <2>11, PartitionAssumption DEF Provided, Exhausted
  <2> QED BY <2>1, <2>2, <2>7, <2>8, <2>11, <2>13, <2>14
<1>2. CASE UNCHANGED <<phase, book, toWorker, tracker, reported, received>>
  <2>1. Moved(w)
    BY <1>2, StayMoves
  <2>2. Provided(book, book', Nobody)
    BY <1>2, PartitionAssumption DEF Provided
  <2> QED BY <1>2, <2>1, <2>2, PartitionAssumption
<1> QED BY <1>1, <1>2 DEF OnResults

\* A lost worker's partition stays where it is, without an owner.
LEMMA LossMoves ==
  ASSUME BooksSound, Ledger, NEW w \in Workers, Disconnect(w)
  PROVE  /\ BooksSound' /\ book'.past = book.past /\ book'.pending = book.pending
         /\ Listed(book'.parts) = Listed(book.parts)
         /\ \A p \in ToSet(book'.parts) : p \in ToSet(book.parts) \/ p.worker = Nobody
<1> DEFINE i == FindPartitionByWorker(book.parts, w)
           p == book.parts[i]
           q == Partition(Nobody, p.units)
<1>1. CASE book' = book
  BY <1>1 DEF BooksSound
<1>2. CASE book' = Abandon(book, w) /\ book' # book
  <2>1. i # 0 /\ book' = [book EXCEPT !.parts[i].worker = Nobody]
    BY <1>2 DEF Abandon
  <2>2. book.parts \in Seq(PartType)
    BY DEF BooksSound, Sound
  <2>3. i \in 1 .. Len(book.parts)
    BY <2>1, <2>2, FoundPartition
  <2> HIDE DEF i
  <2>4. p \in PartType /\ p \in ToSet(book.parts)
    BY <2>2, <2>3, InList
  <2>5. [p EXCEPT !.worker = Nobody] = q
    BY <2>4 DEF Partition, PartType
  <2>6. book' = [book EXCEPT !.parts = [book.parts EXCEPT ![i] = [p EXCEPT !.worker = Nobody]]]
    BY <2>1
  <2>7. book' = [book EXCEPT !.parts = HandOver(book.parts, i, Nobody)]
    BY <2>5, <2>6 DEF HandOver, Replaced
  <2>8. /\ book'.parts = HandOver(book.parts, i, Nobody) /\ book'.past = book.past
        /\ book'.pending = book.pending
    BY <2>7, PartsOf DEF Ledger
  <2>9. /\ Sound(book'.parts, book.pending)
        /\ ToSet(book'.parts) = (ToSet(book.parts) \ {p}) \cup {q}
    BY <2>3, <2>8, HandedOver DEF BooksSound
  <2>10. q.worker = Nobody /\ q.units = p.units
    BY DEF Partition
  <2> HIDE DEF p, q
  <2>11. Listed(book'.parts) = Listed(book.parts)
    <3>1. \A u : (\E x \in ToSet(book'.parts) : u \in ToSet(x.units))
                   <=> (\E x \in ToSet(book.parts) : u \in ToSet(x.units))
      BY <2>4, <2>9, <2>10
    <3>2. \A u : u \in Listed(book'.parts) <=> u \in Listed(book.parts)
      BY <3>1 DEF Listed
    <3> QED BY <3>2
  <2> QED BY <2>8, <2>9, <2>10, <2>11 DEF BooksSound
<1> QED BY <1>1, <1>2 DEF Disconnect
---------------------------------------------------------------------------
(* Types. *)

ToWorkerMsgs ==
  [type : {"ready", "assign", "finished"}, call : 0 .. NumCalls, what : Seq(Units)]
ToMasterMsgs ==
  [type : {"workerReady", "results"}, call : 0 .. NumCalls, what : Units \cup {None}]

Typed ==
  /\ call \in 0 .. NumCalls /\ phase \in {"between", "distributing", "down"}
  /\ phase # "between" => call >= 1
  /\ state \in [Workers -> {"absent", "waiting", "working", "closing", "done", "gone"}]
  /\ wcall \in [Workers -> 0 .. NumCalls]
  /\ lost \in Seq(Workers) /\ Len(lost) <= MaxDisconnects
  /\ todo \in [Workers -> Seq(Units)]
  /\ running \in [Workers -> [Threads -> Units \cup {None}]]
  /\ busy \in [Workers -> [Threads -> Units \cup {None}]]
  /\ toWorker \in [Workers -> Seq(ToWorkerMsgs)]
  /\ toMaster \in [Workers -> Seq(ToMasterMsgs)]

LEMMA MessagesTyped ==
  ASSUME NEW c \in 0 .. NumCalls
  PROVE  /\ Message("ready", c, <<>>) \in ToWorkerMsgs /\ Message("finished", c, <<>>) \in ToWorkerMsgs
         /\ \A units \in Seq(Units) : Message("assign", c, units) \in ToWorkerMsgs
         /\ Message("workerReady", c, None) \in ToMasterMsgs
         /\ \A u \in Units : Message("results", c, u) \in ToMasterMsgs
<1>1. <<>> \in Seq(Units)
  OBVIOUS
<1> QED BY <1>1 DEF Message, ToWorkerMsgs, ToMasterMsgs

LEMMA AppendIs ==
  ASSUME NEW S, NEW s \in Seq(S), NEW e \in S
  PROVE  /\ Append(s, e) \in Seq(S) /\ Len(Append(s, e)) = Len(s) + 1
         /\ \A k \in 1 .. Len(s) : Append(s, e)[k] = s[k]
         /\ Append(s, e)[Len(s) + 1] = e
         /\ ToSet(Append(s, e)) = ToSet(s) \cup {e}
<1>1. /\ Append(s, e) \in Seq(S) /\ Len(Append(s, e)) = Len(s) + 1
      /\ \A k \in 1 .. Len(s) : Append(s, e)[k] = s[k]
      /\ Append(s, e)[Len(s) + 1] = e /\ Len(s) \in Nat
  BY AppendProperties
<1> DEFINE r == Append(s, e)
<1> HIDE DEF r
<1>2. r \in Seq(S) /\ Len(r) = Len(s) + 1 /\ r[Len(s) + 1] = e
      /\ \A k \in 1 .. Len(s) : r[k] = s[k]
  BY <1>1 DEF r
<1>3. \A x : x \in ToSet(r) <=> \E k \in 1 .. Len(r) : x = r[k]
  BY <1>2, InList
<1>4. \A x : x \in ToSet(s) <=> \E k \in 1 .. Len(s) : x = s[k]
  BY InList
<1>5. ASSUME NEW x \in ToSet(r) PROVE x \in ToSet(s) \cup {e}
  <2>1. PICK k \in 1 .. Len(s) + 1 : x = r[k]
    BY <1>2, <1>3
  <2>2. CASE k = Len(s) + 1
    BY <1>2, <2>1, <2>2
  <2>3. CASE k # Len(s) + 1
    <3>1. k \in 1 .. Len(s)
      BY <1>1, <2>3
    <3> QED BY <1>2, <1>4, <2>1, <3>1
  <2> QED BY <2>2, <2>3
<1>6. ASSUME NEW x \in ToSet(s) PROVE x \in ToSet(r)
  <2>1. PICK k \in 1 .. Len(s) : x = s[k]
    BY <1>4
  <2>2. k \in 1 .. Len(r) /\ x = r[k]
    BY <1>1, <1>2, <2>1
  <2> QED BY <1>3, <2>2
<1>7. e \in ToSet(r)
  <2>1. Len(s) + 1 \in 1 .. Len(r)
    BY <1>1, <1>2
  <2> QED BY <1>2, <1>3, <2>1
<1>8. ToSet(r) = ToSet(s) \cup {e}
  BY <1>5, <1>6, <1>7
<1> QED BY <1>1, <1>8 DEF r

LEMMA TailIs ==
  ASSUME NEW S, NEW s \in Seq(S), s # <<>>
  PROVE  /\ Head(s) = s[1] /\ Head(s) \in S /\ Head(s) \in ToSet(s)
         /\ Tail(s) \in Seq(S) /\ Len(Tail(s)) = Len(s) - 1
         /\ \A k \in 1 .. Len(s) - 1 : Tail(s)[k] = s[k + 1]
         /\ ToSet(s) = {Head(s)} \cup ToSet(Tail(s))
<1> DEFINE r == Tail(s)
<1>1. /\ Head(s) = s[1] /\ Head(s) \in S /\ 1 \in 1 .. Len(s)
      /\ r \in Seq(S) /\ Len(r) = Len(s) - 1 /\ \A k \in 1 .. Len(s) - 1 : r[k] = s[k + 1]
  OBVIOUS
<1> HIDE DEF r
<1>2. \A x : x \in ToSet(r) <=> \E k \in 1 .. Len(r) : x = r[k]
  BY <1>1, InList
<1>3. \A x : x \in ToSet(s) <=> \E k \in 1 .. Len(s) : x = s[k]
  BY InList
<1>4. ASSUME NEW x \in ToSet(s) PROVE x \in {Head(s)} \cup ToSet(r)
  <2>1. PICK k \in 1 .. Len(s) : x = s[k]
    BY <1>3
  <2>2. CASE k # 1
    <3>1. k - 1 \in 1 .. Len(r) /\ r[k - 1] = x
      BY <1>1, <2>1, <2>2
    <3> QED BY <1>2, <3>1
  <2> QED BY <1>1, <2>1, <2>2
<1>5. ASSUME NEW x \in ToSet(r) PROVE x \in ToSet(s)
  <2>1. PICK k \in 1 .. Len(r) : x = r[k]
    BY <1>2
  <2>2. k + 1 \in 1 .. Len(s) /\ x = s[k + 1]
    BY <1>1, <2>1
  <2> QED BY <1>3, <2>2
<1>6. ToSet(s) = {Head(s)} \cup ToSet(r)
  BY <1>1, <1>3, <1>4, <1>5
<1> QED BY <1>1, <1>3, <1>6 DEF r

LEMMA PrefixIs ==
  ASSUME NEW S, NEW s \in Seq(S), NEW p \in Prefixes(s)
  PROVE  /\ p \in Seq(S) /\ Len(p) <= Len(s) /\ \A k \in 1 .. Len(p) : p[k] = s[k]
         /\ ToSet(p) \subseteq ToSet(s)
<1>1. PICK l \in 0 .. Len(s) : p = SubSeq(s, 1, l)
  BY DEF Prefixes
<1>2. p \in Seq(S) /\ Len(p) = l /\ \A k \in 1 .. Len(p) : p[k] = s[k]
  BY <1>1
<1>3. \A x : x \in ToSet(p) <=> \E k \in 1 .. Len(p) : x = p[k]
  BY <1>2, InList
<1>4. \A x : x \in ToSet(s) <=> \E k \in 1 .. Len(s) : x = s[k]
  BY InList
<1>5. \A k \in 1 .. Len(p) : k \in 1 .. Len(s)
  BY <1>2
<1> QED BY <1>2, <1>3, <1>4, <1>5

LEMMA PersistentIs ==
  ASSUME Typed
  PROVE  /\ Persistent \in Seq(ToWorkerMsgs)
         /\ \A m \in ToSet(Persistent) :
              /\ m.type \in {"ready", "finished"} /\ 1 <= m.call /\ m.call <= call
              /\ m.type = "finished" /\ phase = "distributing" => m.call < call
<1> DEFINE n == IF phase = "distributing" THEN 2 * call - 1 ELSE 2 * call
           e(k) == IF k % 2 = 1 THEN Message("ready", (k + 1) \div 2, <<>>)
                                ELSE Message("finished", k \div 2, <<>>)
<1>1. n \in Nat /\ call \in 0 .. NumCalls /\ NumCalls \in Nat
  BY DistributeAssumption DEF Typed
<1>2. ASSUME NEW k \in 1 .. n
      PROVE  /\ e(k) \in ToWorkerMsgs
             /\ e(k).type \in {"ready", "finished"} /\ 1 <= e(k).call /\ e(k).call <= call
             /\ e(k).type = "finished" /\ phase = "distributing" => e(k).call < call
  <2>1. <<>> \in Seq(Units)
    OBVIOUS
  <2>2. CASE k % 2 = 1
    <3> DEFINE c == (k + 1) \div 2
    <3>1. c \in 1 .. call /\ c \in 0 .. NumCalls
      BY <1>1, <2>2
    <3>2. e(k) = Message("ready", c, <<>>)
      BY <2>2
    <3> HIDE DEF c, e
    <3>3. e(k).type = "ready" /\ e(k).call = c /\ e(k) \in ToWorkerMsgs
      BY <2>1, <3>1, <3>2 DEF Message, ToWorkerMsgs
    <3> QED BY <1>1, <3>1, <3>3
  <2>3. CASE k % 2 # 1
    <3> DEFINE c == k \div 2
    <3>1. c \in 1 .. call /\ c \in 0 .. NumCalls /\ (phase = "distributing" => c < call)
      BY <1>1, <2>3
    <3>2. e(k) = Message("finished", c, <<>>)
      BY <2>3
    <3> HIDE DEF c, e
    <3>3. e(k).type = "finished" /\ e(k).call = c /\ e(k) \in ToWorkerMsgs
      BY <2>1, <3>1, <3>2 DEF Message, ToWorkerMsgs
    <3> QED BY <1>1, <3>1, <3>3
  <2> QED BY <2>2, <2>3
<1>3. Persistent = [k \in 1 .. n |-> e(k)]
  BY DEF Persistent
<1> HIDE DEF n, e
<1>4. Persistent \in Seq(ToWorkerMsgs) /\ Len(Persistent) = n
      /\ \A k \in 1 .. n : Persistent[k] = e(k)
  <2>1. \A k \in 1 .. n : e(k) \in ToWorkerMsgs
    BY <1>2
  <2> QED BY <1>1, <1>3, <2>1
<1>5. \A m \in ToSet(Persistent) : \E k \in 1 .. n : m = e(k)
  BY <1>4, InList
<1> QED BY <1>2, <1>4, <1>5

LEMMA BroadcastTyped ==
  ASSUME Typed, NEW m \in ToWorkerMsgs, Broadcast(m)
  PROVE  toWorker' \in [Workers -> Seq(ToWorkerMsgs)]
<1>1. \A w \in Workers : Append(toWorker[w], m) \in Seq(ToWorkerMsgs)
  BY DEF Typed
<1> QED BY <1>1 DEF Broadcast, Typed

LEMMA MovedTyped ==
  ASSUME Typed, NEW x, Moved(x)
  PROVE  toWorker' \in [Workers -> Seq(ToWorkerMsgs)]
<1>1. ASSUME NEW w \in Workers PROVE toWorker'[w] \in Seq(ToWorkerMsgs)
  <2>1. toWorker[w] \in Seq(ToWorkerMsgs) /\ call \in 0 .. NumCalls
    BY DEF Typed
  <2>2. ASSUME NEW p \in ToSet(book'.parts), Sent(w, p.units)
        PROVE  toWorker'[w] \in Seq(ToWorkerMsgs)
    <3>1. Sound(book'.parts, book'.pending)
      BY DEF Moved, BooksSound
    <3>2. p.units \in Seq(Units)
      BY <3>1, PartsAre DEF PartType
    <3>3. Message("assign", call, p.units) \in ToWorkerMsgs
      BY <2>1, <3>2, MessagesTyped
    <3> QED BY <2>1, <2>2, <3>3, AppendIs DEF Sent
  <2> QED BY <2>1, <2>2 DEF Moved
<1>2. toWorker' = [w \in Workers |-> toWorker'[w]]
  BY DEF Moved
<1> QED BY <1>1, <1>2

\* What the master does
LEMMA TypedByMaster ==
  ASSUME Typed, BooksSound, Ledger,
         \/ StartCall \/ FinishCall \/ StopCall
         \/ \E w \in Workers : OnWorkerReady(w) \/ OnResults(w)
  PROVE  Typed' /\ BooksSound'
<1>1. toWorker = [w \in Workers |-> toWorker[w]]
  BY DEF Typed
<1>2. CASE StartCall
  <2>1. call' \in 0 .. NumCalls /\ call' >= 1
    BY <1>2, DistributeAssumption DEF StartCall, Typed
  <2>2. Message("ready", call', <<>>) \in ToWorkerMsgs
    BY <2>1, MessagesTyped
  <2>3. toWorker' \in [Workers -> Seq(ToWorkerMsgs)]
    BY <1>2, <2>2, BroadcastTyped DEF StartCall
  <2>4. BooksSound'
    BY <1>2, SoundEmpty DEF StartCall, NoBook, BooksSound
  <2> QED BY <1>2, <2>1, <2>3, <2>4 DEF Typed, StartCall, workerVars, threadVars
<1>3. CASE FinishCall \/ StopCall
  <2>1. EndCall
    BY <1>3 DEF FinishCall, StopCall
  <2>2. Message("finished", call, <<>>) \in ToWorkerMsgs
    BY MessagesTyped DEF Typed
  <2>3. toWorker' \in [Workers -> Seq(ToWorkerMsgs)]
    BY <2>1, <2>2, BroadcastTyped DEF EndCall
  <2>4. BooksSound'
    BY <2>1, SoundEmpty DEF EndCall, NoBook, BooksSound
  <2> QED BY <2>1, <2>3, <2>4 DEF Typed, EndCall, workerVars, threadVars
<1>4. ASSUME NEW w \in Workers, OnWorkerReady(w) \/ OnResults(w)
      PROVE  Typed' /\ BooksSound'
  <2>1. \E x : Moved(x)
    <3>1. CASE OnResults(w)
      BY <1>1, <3>1, ResultsMove
    <3>2. CASE OnWorkerReady(w) /\ Head(toMaster[w]).call = call
      BY <3>2, ReadyMoves
    <3>3. CASE OnWorkerReady(w) /\ Head(toMaster[w]).call # call
      <4>1. UNCHANGED <<book, toWorker>>
        BY <3>3 DEF OnWorkerReady
      <4> QED BY <1>1, <4>1, StayMoves
    <3> QED BY <1>4, <3>1, <3>2, <3>3
  <2>2. toWorker' \in [Workers -> Seq(ToWorkerMsgs)] /\ BooksSound'
    BY <2>1, MovedTyped DEF Moved
  <2>3. phase = "distributing" /\ phase' \in {"distributing", "down"} /\ UNCHANGED <<call, workerVars>>
    BY <1>4 DEF OnWorkerReady, OnResults, Dispatch, FirstResults, GoDown, Receive
  <2>4. toMaster[w] # <<>> /\ toMaster' = [toMaster EXCEPT ![w] = Tail(@)]
    BY <1>4 DEF OnWorkerReady, OnResults, Dispatch
  <2>5. toMaster' \in [Workers -> Seq(ToMasterMsgs)]
    <3>1. Tail(toMaster[w]) \in Seq(ToMasterMsgs)
      BY <2>4, TailIs DEF Typed
    <3> QED BY <2>4, <3>1 DEF Typed
  <2> QED BY <2>2, <2>3, <2>5 DEF Typed, workerVars, threadVars
<1> QED BY <1>2, <1>3, <1>4

\* A machine joins or is lost.
LEMMA TypedByNetwork ==
  ASSUME Typed, BooksSound, Ledger, NEW w \in Workers, Join(w) \/ Disconnect(w)
  PROVE  Typed' /\ BooksSound'
<1>1. CASE Join(w)
  <2>1. toWorker' \in [Workers -> Seq(ToWorkerMsgs)]
    BY <1>1, PersistentIs DEF Join, Typed
  <2>2. 1 \in 0 .. NumCalls
    BY DistributeAssumption
  <2> QED BY <1>1, <2>1, <2>2 DEF Join, Typed, masterVars, threadVars, BooksSound
<1>2. CASE Disconnect(w)
  <2>1. BooksSound'
    BY <1>2, LossMoves
  <2>2. PICK arrived \in Prefixes(toMaster[w]) : toMaster' = [toMaster EXCEPT ![w] = arrived]
    BY <1>2 DEF Disconnect
  <2>3. toMaster' \in [Workers -> Seq(ToMasterMsgs)]
    <3>1. arrived \in Seq(ToMasterMsgs)
      BY PrefixIs DEF Typed
    <3> QED BY <2>2, <3>1 DEF Typed
  <2>4. toWorker' \in [Workers -> Seq(ToWorkerMsgs)] /\ todo' \in [Workers -> Seq(Units)]
    <3>1. <<>> \in Seq(ToWorkerMsgs) /\ <<>> \in Seq(Units)
      OBVIOUS
    <3> QED BY <1>2, <3>1 DEF Disconnect, Typed
  <2>5. lost' \in Seq(Workers) /\ Len(lost') <= MaxDisconnects
    <3>1. lost \in Seq(Workers) /\ Len(lost) < MaxDisconnects /\ lost' = Append(lost, w)
      BY <1>2 DEF Disconnect, Typed
    <3>2. lost' \in Seq(Workers) /\ Len(lost') = Len(lost) + 1
      BY <3>1, AppendIs
    <3> QED BY <3>1, <3>2, DistributeAssumption
  <2>6. /\ running' \in [Workers -> [Threads -> Units \cup {None}]]
        /\ busy' \in [Workers -> [Threads -> Units \cup {None}]]
    BY <1>2 DEF Disconnect, Typed
  <2> QED BY <1>2, <2>1, <2>3, <2>4, <2>5, <2>6 DEF Typed, Disconnect
<1> QED BY <1>1, <1>2

\* What a worker and his threads do
LEMMA TypedByWorker ==
  ASSUME Typed, BooksSound, NEW w \in Workers,
         WorkerNext(w) \/ \E t \in Threads : ThreadNext(w, t)
  PROVE  Typed' /\ BooksSound'
<1>1. ASSUME NEW type, Hear(w, type)
      PROVE  /\ toWorker' \in [Workers -> Seq(ToWorkerMsgs)]
             /\ Head(toWorker[w]).what \in Seq(Units)
  <2>1. toWorker[w] # <<>> /\ toWorker[w] \in Seq(ToWorkerMsgs)
        /\ toWorker' = [toWorker EXCEPT ![w] = Tail(@)]
    BY <1>1 DEF Hear, Typed
  <2>2. Head(toWorker[w]) \in ToWorkerMsgs /\ Tail(toWorker[w]) \in Seq(ToWorkerMsgs)
    BY <2>1, TailIs
  <2> QED BY <2>1, <2>2 DEF Typed, ToWorkerMsgs
<1>2. <<>> \in Seq(Units)
  OBVIOUS
<1>3. ASSUME NEW m \in ToMasterMsgs, toMaster' = [toMaster EXCEPT ![w] = Append(@, m)]
      PROVE  toMaster' \in [Workers -> Seq(ToMasterMsgs)]
  <2>1. Append(toMaster[w], m) \in Seq(ToMasterMsgs)
    BY DEF Typed
  <2> QED BY <1>3, <2>1 DEF Typed
<1>4. wcall[w] \in 0 .. NumCalls
  BY DEF Typed
<1>5. CASE HearMasterReady(w)
  <2>1. Message("workerReady", wcall[w], None) \in ToMasterMsgs
    BY <1>4, MessagesTyped
  <2>2. toWorker' \in [Workers -> Seq(ToWorkerMsgs)] /\ toMaster' \in [Workers -> Seq(ToMasterMsgs)]
    BY <1>1, <1>3, <1>5, <2>1 DEF HearMasterReady
  <2> QED BY <1>2, <1>5, <2>2 DEF HearMasterReady, Typed, masterVars, BooksSound
<1>6. CASE HearAssignment(w)
  <2>1. toWorker' \in [Workers -> Seq(ToWorkerMsgs)] /\ Head(toWorker[w]).what \in Seq(Units)
    BY <1>1, <1>6 DEF HearAssignment
  <2> QED BY <1>6, <2>1 DEF HearAssignment, Typed, masterVars, BooksSound
<1>7. CASE HearMasterFinished(w)
  <2>1. toWorker' \in [Workers -> Seq(ToWorkerMsgs)]
    BY <1>1, <1>7 DEF HearMasterFinished
  <2> QED BY <1>7, <2>1 DEF HearMasterFinished, Typed, masterVars, threadVars, BooksSound
<1>8. CASE CloseThreads(w)
  <2>1. wcall' \in [Workers -> 0 .. NumCalls]
    <3>1. wcall[w] < NumCalls => wcall[w] + 1 \in 0 .. NumCalls
      BY <1>4, DistributeAssumption
    <3> QED BY <1>8, <3>1 DEF CloseThreads, Typed
  <2> QED BY <1>8, <2>1 DEF CloseThreads, Typed, masterVars, threadVars, netVars, BooksSound
<1>9. ASSUME NEW t \in Threads, TakeWorkUnit(w, t) PROVE Typed' /\ BooksSound'
  <2>1. todo[w] # <<>> /\ todo[w] \in Seq(Units)
    BY <1>9 DEF TakeWorkUnit, Typed
  <2>2. Head(todo[w]) \in Units /\ Tail(todo[w]) \in Seq(Units)
    BY <2>1, TailIs
  <2>3. /\ running' \in [Workers -> [Threads -> Units \cup {None}]]
        /\ busy' \in [Workers -> [Threads -> Units \cup {None}]]
    <3>1. CASE UNCHANGED <<running, busy>>
      BY <3>1 DEF Typed
    <3>2. CASE /\ running' = [running EXCEPT ![w][t] = Head(todo[w])]
               /\ busy' = [busy EXCEPT ![w][t] = Head(todo[w])]
      BY <2>2, <3>2 DEF Typed
    <3> QED BY <1>9, <3>1, <3>2 DEF TakeWorkUnit
  <2>4. todo' \in [Workers -> Seq(Units)]
    BY <1>9, <2>2 DEF TakeWorkUnit, Typed
  <2> QED BY <1>9, <2>3, <2>4 DEF TakeWorkUnit, Typed, masterVars, netVars, BooksSound
<1>10. ASSUME NEW t \in Threads, FinishWorkUnit(w, t) PROVE Typed' /\ BooksSound'
  <2>1. busy[w][t] \in Units
    BY <1>10 DEF FinishWorkUnit, Typed
  <2>2. Message("results", wcall[w], busy[w][t]) \in ToMasterMsgs
    BY <1>4, <2>1, MessagesTyped
  <2>3. toMaster' \in [Workers -> Seq(ToMasterMsgs)]
    BY <1>3, <1>10, <2>2 DEF FinishWorkUnit
  <2>4. busy' \in [Workers -> [Threads -> Units \cup {None}]]
    BY <1>10 DEF FinishWorkUnit, Typed
  <2> QED BY <1>10, <2>3, <2>4 DEF FinishWorkUnit, Typed, masterVars, BooksSound
<1> QED BY <1>5, <1>6, <1>7, <1>8, <1>9, <1>10 DEF WorkerNext, ThreadNext

LEMMA TypedStep ==
  ASSUME Typed, BooksSound, Ledger, [Next]_vars
  PROVE  Typed' /\ BooksSound'
<1>1. CASE UNCHANGED vars
  BY <1>1 DEF vars, masterVars, workerVars, threadVars, netVars, Typed, BooksSound
<1>2. CASE Next
  BY <1>2, TypedByMaster, TypedByNetwork, TypedByWorker DEF Next, MasterNext
<1> QED BY <1>1, <1>2

LEMMA TypedInit == Init => Typed /\ BooksSound
<1> SUFFICES ASSUME Init PROVE Typed /\ BooksSound
  OBVIOUS
<1>1. BooksSound
  BY SoundEmpty DEF Init, NoBook, BooksSound
<1>2. /\ <<>> \in Seq(ToWorkerMsgs) /\ <<>> \in Seq(ToMasterMsgs) /\ <<>> \in Seq(Units)
      /\ <<>> \in Seq(Workers) /\ Len(<<>>) = 0
  OBVIOUS
<1>3. 0 \in 0 .. NumCalls /\ 0 <= MaxDisconnects
  BY DistributeAssumption
<1>4. Typed
  BY <1>2, <1>3 DEF Init, Typed
<1> QED BY <1>1, <1>4

\* Every variable keeps its type.
THEOREM DistributeTypeCorrect == Spec => []TypeOK
<1>1. Init => Typed /\ BooksSound /\ Ledger
  BY TypedInit, LedgerInit
<1>2. Typed /\ BooksSound /\ Ledger /\ [Next]_vars => (Typed /\ BooksSound /\ Ledger)'
  BY TypedStep, LedgerStep
<1>3. Typed /\ BooksSound /\ Ledger => TypeOK
  <2> SUFFICES ASSUME Typed, BooksSound, Ledger PROVE TypeOK
    OBVIOUS
  <2>1. book.parts \in Seq([worker : Workers \cup {Nobody}, units : Seq(Units)])
    BY DEF BooksSound, Sound, PartType
  <2>2. book.pending \subseteq Units /\ {book.first, book.past} \subseteq 0 .. NumUnits
    BY DEF Ledger, IsBook
  <2>3. /\ tracker.first \in 0 .. NumUnits /\ tracker.info \in [0 .. NumUnits -> T!Entries]
        /\ reported \in 0 .. NumUnits
    BY DEF Ledger, Told
  <2>4. received \in [Units -> Nat]
    BY DEF Ledger
  <2> QED BY <2>1, <2>2, <2>3, <2>4 DEF Typed, TypeOK
<1> QED BY <1>1, <1>2, <1>3, PTL DEF Spec, Safe

\* A unit is in one partition at most and is then not finished, no partition is
\* empty, and nobody owns two: every way to deal, adopt, split, hand over, shorten,
\* abandon and delete a partition keeps it so.
THEOREM BooksStaySound == Spec => []PartitionsSound
<1>1. Init => Typed /\ BooksSound /\ Ledger
  BY TypedInit, LedgerInit
<1>2. Typed /\ BooksSound /\ Ledger /\ [Next]_vars => (Typed /\ BooksSound /\ Ledger)'
  BY TypedStep, LedgerStep
<1>3. BooksSound => PartitionsSound
  <2> SUFFICES ASSUME BooksSound PROVE PartitionsSound
    OBVIOUS
  <2>1. DOMAIN book.parts = 1 .. Len(book.parts)
    BY DEF BooksSound, Sound
  <2> QED BY <2>1 DEF BooksSound, Sound, Good, Apart, Rising, PartitionsSound
<1> QED BY <1>1, <1>2, <1>3, PTL DEF Spec, Safe
---------------------------------------------------------------------------
(* The numbers of calls. *)

ToldSoFar(w) ==
  \A m \in ToSet(toWorker[w]) :
    m.call <= call /\ (m.type = "finished" /\ phase # "between" => m.call < call)
HeardSoFar(w) == \A m \in ToSet(toMaster[w]) : m.call <= call
InStep(w) ==
  Connected(w) =>
    /\ 1 <= wcall[w] /\ wcall[w] <= call + 1
    /\ wcall[w] = call + 1 => phase = "between" /\ state[w] = "waiting"
    /\ wcall[w] = call /\ phase # "between" => state[w] \in {"waiting", "working"}
BusyInCall(w) ==
  \A t \in Threads :
    /\ busy[w][t] # None => state[w] \in {"working", "closing"}
    /\ call = 0 => running[w][t] = None

\* No machine is ahead of the master's call, and none has done with a call before
\* the master has.
Numbered ==
  \A w \in Workers : ToldSoFar(w) /\ HeardSoFar(w) /\ InStep(w) /\ BusyInCall(w)

LEMMA CallsAre ==
  ASSUME Typed
  PROVE  /\ call \in Nat /\ \A w \in Workers : wcall[w] \in Nat
         /\ \A w \in Workers : \A m \in ToSet(toWorker[w]) : m.call \in Nat
         /\ \A w \in Workers : \A m \in ToSet(toMaster[w]) : m.call \in Nat
<1>1. call \in Nat /\ \A w \in Workers : wcall[w] \in Nat
  BY DistributeAssumption DEF Typed
<1>2. \A w \in Workers : ToSet(toWorker[w]) \subseteq ToWorkerMsgs
  BY InList DEF Typed
<1>3. \A w \in Workers : ToSet(toMaster[w]) \subseteq ToMasterMsgs
  BY InList DEF Typed
<1> QED BY <1>1, <1>2, <1>3, DistributeAssumption DEF ToWorkerMsgs, ToMasterMsgs

\* The messages of a worker after a broadcast
LEMMA BroadcastIs ==
  ASSUME Typed, NEW m \in ToWorkerMsgs, Broadcast(m), NEW w \in Workers
  PROVE  ToSet(toWorker'[w]) \subseteq ToSet(toWorker[w]) \cup {m}
<1>1. toWorker[w] \in Seq(ToWorkerMsgs)
  BY DEF Typed
<1>2. toWorker'[w] = Append(toWorker[w], m) \/ toWorker'[w] = toWorker[w]
  BY DEF Broadcast
<1>3. ToSet(Append(toWorker[w], m)) = ToSet(toWorker[w]) \cup {m}
  BY <1>1, AppendIs
<1> QED BY <1>2, <1>3

\* and after the master has dealt
LEMMA MovedIs ==
  ASSUME Typed, NEW x, Moved(x), NEW w \in Workers
  PROVE  \/ toWorker'[w] = toWorker[w]
         \/ \E p \in ToSet(book'.parts) :
              /\ p.worker = w /\ Connected(w) /\ p.units \in Seq(Units)
              /\ Message("assign", call, p.units) \in ToWorkerMsgs
              /\ Sent(w, p.units)
              /\ ToSet(toWorker'[w]) = ToSet(toWorker[w]) \cup {Message("assign", call, p.units)}
<1> SUFFICES ASSUME toWorker'[w] # toWorker[w]
             PROVE  \E p \in ToSet(book'.parts) :
                      /\ p.worker = w /\ Connected(w) /\ p.units \in Seq(Units)
                      /\ Message("assign", call, p.units) \in ToWorkerMsgs
                      /\ Sent(w, p.units)
                      /\ ToSet(toWorker'[w]) = ToSet(toWorker[w]) \cup {Message("assign", call, p.units)}
  OBVIOUS
<1>1. PICK p \in ToSet(book'.parts) : p.worker = w /\ Connected(w) /\ Sent(w, p.units)
  BY DEF Moved
<1>2. Sound(book'.parts, book'.pending)
  BY DEF Moved, BooksSound
<1>3. p.units \in Seq(Units)
  BY <1>2, PartsAre DEF PartType
<1>4. toWorker[w] \in Seq(ToWorkerMsgs) /\ call \in 0 .. NumCalls
  BY DEF Typed
<1>5. Message("assign", call, p.units) \in ToWorkerMsgs
  BY <1>3, <1>4, MessagesTyped
<1>6. ToSet(toWorker'[w]) = ToSet(toWorker[w]) \cup {Message("assign", call, p.units)}
  BY <1>1, <1>4, <1>5, AppendIs DEF Sent
<1> QED BY <1>1, <1>3, <1>5, <1>6

LEMMA NumberedByCalls ==
  ASSUME Typed, Numbered, StartCall \/ FinishCall \/ StopCall
  PROVE  Numbered'
<1> SUFFICES ASSUME NEW w \in Workers
             PROVE  (ToldSoFar(w) /\ HeardSoFar(w) /\ InStep(w) /\ BusyInCall(w))'
  BY DEF Numbered
<1>1. ToldSoFar(w) /\ HeardSoFar(w) /\ InStep(w) /\ BusyInCall(w)
  BY DEF Numbered
<1>2. /\ call \in Nat /\ wcall[w] \in Nat
      /\ \A m \in ToSet(toWorker[w]) : m.call \in Nat
      /\ \A m \in ToSet(toMaster[w]) : m.call \in Nat
  BY CallsAre
<1>3. UNCHANGED <<state, wcall, todo, running, busy, lost, toMaster>>
  BY DEF StartCall, FinishCall, StopCall, EndCall, workerVars, threadVars
<1>4. CASE StartCall
  <2>1. call' = call + 1 /\ call' \in 0 .. NumCalls /\ phase = "between" /\ phase' = "distributing"
    BY <1>4, <1>2, DistributeAssumption DEF StartCall, Typed
  <2>2. Message("ready", call', <<>>) \in ToWorkerMsgs
    BY <2>1, MessagesTyped
  <2>3. ToSet(toWorker'[w]) \subseteq ToSet(toWorker[w]) \cup {Message("ready", call', <<>>)}
    BY <1>4, <2>2, BroadcastIs DEF StartCall
  <2>4. ToldSoFar(w)'
    BY <1>1, <1>2, <2>1, <2>3 DEF ToldSoFar, Message
  <2>5. HeardSoFar(w)' /\ BusyInCall(w)'
    BY <1>1, <1>2, <1>3, <2>1 DEF HeardSoFar, BusyInCall
  <2>6. InStep(w)'
    BY <1>1, <1>2, <1>3, <2>1 DEF InStep, Connected
  <2> QED BY <2>4, <2>5, <2>6
<1>5. CASE FinishCall \/ StopCall
  <2>1. EndCall /\ call' = call /\ phase' = "between"
    BY <1>5 DEF FinishCall, StopCall, EndCall
  <2>2. Message("finished", call, <<>>) \in ToWorkerMsgs
    BY MessagesTyped DEF Typed
  <2>3. ToSet(toWorker'[w]) \subseteq ToSet(toWorker[w]) \cup {Message("finished", call, <<>>)}
    BY <2>1, <2>2, BroadcastIs DEF EndCall
  <2>4. ToldSoFar(w)'
    BY <1>1, <1>2, <2>1, <2>3 DEF ToldSoFar, Message
  <2>5. HeardSoFar(w)' /\ BusyInCall(w)'
    BY <1>1, <1>3, <2>1 DEF HeardSoFar, BusyInCall
  <2>6. InStep(w)'
    BY <1>1, <1>2, <1>3, <2>1 DEF InStep, Connected
  <2> QED BY <2>4, <2>5, <2>6
<1> QED BY <1>4, <1>5

\* What every step of the master in a call does
LEMMA MasterMoves ==
  ASSUME Typed, BooksSound, Ledger, NEW v \in Workers, OnWorkerReady(v) \/ OnResults(v)
  PROVE  /\ \E x : Moved(x)
         /\ phase = "distributing" /\ phase' \in {"distributing", "down"}
         /\ UNCHANGED <<call, state, wcall, todo, running, busy, lost>>
         /\ toMaster[v] # <<>> /\ toMaster' = [toMaster EXCEPT ![v] = Tail(@)]
         /\ \A w \in Workers : ToSet(toMaster'[w]) \subseteq ToSet(toMaster[w])
<1>1. toWorker = [w \in Workers |-> toWorker[w]]
  BY DEF Typed
<1>2. \E x : Moved(x)
  <2>1. CASE OnResults(v)
    BY <1>1, <2>1, ResultsMove
  <2>2. CASE OnWorkerReady(v) /\ Head(toMaster[v]).call = call
    BY <2>2, ReadyMoves
  <2>3. CASE OnWorkerReady(v) /\ Head(toMaster[v]).call # call
    <3>1. UNCHANGED <<book, toWorker>>
      BY <2>3 DEF OnWorkerReady
    <3> QED BY <1>1, <3>1, StayMoves
  <2> QED BY <2>1, <2>2, <2>3
<1>3. phase = "distributing" /\ phase' \in {"distributing", "down"} /\ UNCHANGED <<call, workerVars>>
  BY DEF OnWorkerReady, OnResults, Dispatch, FirstResults, GoDown, Receive
<1>4. toMaster[v] # <<>> /\ toMaster' = [toMaster EXCEPT ![v] = Tail(@)]
  BY DEF OnWorkerReady, OnResults, Dispatch
<1>5. \A w \in Workers : ToSet(toMaster'[w]) \subseteq ToSet(toMaster[w])
  <2>1. toMaster[v] \in Seq(ToMasterMsgs) /\ toMaster \in [Workers -> Seq(ToMasterMsgs)]
    BY DEF Typed
  <2>2. ToSet(Tail(toMaster[v])) \subseteq ToSet(toMaster[v])
    BY <1>4, <2>1, TailIs
  <2> QED BY <1>4, <2>1, <2>2
<1> QED BY <1>2, <1>3, <1>4, <1>5 DEF workerVars, threadVars

LEMMA NumberedByMaster ==
  ASSUME Typed, BooksSound, Ledger, Numbered,
         NEW v \in Workers, OnWorkerReady(v) \/ OnResults(v)
  PROVE  Numbered'
<1> SUFFICES ASSUME NEW w \in Workers
             PROVE  (ToldSoFar(w) /\ HeardSoFar(w) /\ InStep(w) /\ BusyInCall(w))'
  BY DEF Numbered
<1>1. ToldSoFar(w) /\ HeardSoFar(w) /\ InStep(w) /\ BusyInCall(w)
  BY DEF Numbered
<1>2. call \in Nat
  BY CallsAre
<1>3. /\ \E x : Moved(x)
      /\ phase = "distributing" /\ phase' \in {"distributing", "down"}
      /\ UNCHANGED <<call, state, wcall, todo, running, busy, lost>>
      /\ ToSet(toMaster'[w]) \subseteq ToSet(toMaster[w])
  BY MasterMoves
<1>4. \E units : ToSet(toWorker'[w]) \subseteq ToSet(toWorker[w]) \cup {Message("assign", call, units)}
  BY <1>3, MovedIs
<1>5. ToldSoFar(w)'
  BY <1>1, <1>2, <1>3, <1>4 DEF ToldSoFar, Message
<1>6. HeardSoFar(w)'
  BY <1>1, <1>3 DEF HeardSoFar
<1>7. InStep(w)'
  BY <1>1, <1>3 DEF InStep, Connected
<1>8. BusyInCall(w)'
  BY <1>1, <1>3 DEF BusyInCall
<1> QED BY <1>5, <1>6, <1>7, <1>8

LEMMA NumberedByNetwork ==
  ASSUME Typed, Numbered, NEW v \in Workers, Join(v) \/ Disconnect(v)
  PROVE  Numbered'
<1> SUFFICES ASSUME NEW w \in Workers
             PROVE  (ToldSoFar(w) /\ HeardSoFar(w) /\ InStep(w) /\ BusyInCall(w))'
  BY DEF Numbered
<1>1. ToldSoFar(w) /\ HeardSoFar(w) /\ InStep(w) /\ BusyInCall(w)
  BY DEF Numbered
<1>2. call \in Nat
  BY CallsAre
<1>3. CASE Join(v)
  <2>1. UNCHANGED <<call, phase, running, busy, toMaster>> /\ phase # "down" /\ ~Connected(v)
    BY <1>3 DEF Join, masterVars, threadVars
  <2>2. toWorker'[w] = IF w = v THEN Persistent ELSE toWorker[w]
    BY <1>3 DEF Join, Typed
  <2>3. /\ state'[w] = IF w = v THEN "waiting" ELSE state[w]
        /\ wcall'[w] = IF w = v THEN 1 ELSE wcall[w]
    BY <1>3 DEF Join, Typed
  <2>4. ToldSoFar(w)'
    <3>1. CASE w = v
      <4>1. phase \in {"between", "distributing"}
        BY <2>1 DEF Typed
      <4> QED BY <2>1, <2>2, <3>1, <4>1, PersistentIs DEF ToldSoFar
    <3> QED BY <1>1, <2>1, <2>2, <3>1 DEF ToldSoFar
  <2>5. HeardSoFar(w)'
    BY <1>1, <2>1 DEF HeardSoFar
  <2>6. InStep(w)'
    <3>1. phase # "between" => call >= 1
      BY DEF Typed
    <3>2. CASE w = v
      BY <1>2, <2>1, <2>3, <3>1, <3>2 DEF InStep
    <3>3. CASE w # v
      BY <1>1, <2>1, <2>3, <3>3 DEF InStep, Connected
    <3> QED BY <3>2, <3>3
  <2>7. BusyInCall(w)'
    BY <1>1, <2>1, <2>3 DEF BusyInCall, Connected
  <2> QED BY <2>4, <2>5, <2>6, <2>7
<1>4. CASE Disconnect(v)
  <2>1. UNCHANGED <<call, phase, wcall>>
    BY <1>4 DEF Disconnect
  <2>2. PICK arrived \in Prefixes(toMaster[v]) : toMaster' = [toMaster EXCEPT ![v] = arrived]
    BY <1>4 DEF Disconnect
  <2>3. ToSet(toMaster'[w]) \subseteq ToSet(toMaster[w])
    <3>1. ToSet(arrived) \subseteq ToSet(toMaster[v])
      BY PrefixIs DEF Typed
    <3> QED BY <2>2, <3>1 DEF Typed
  <2>4. /\ toWorker'[w] = IF w = v THEN <<>> ELSE toWorker[w]
        /\ state'[w] = IF w = v THEN "gone" ELSE state[w]
        /\ busy'[w] = IF w = v THEN [t \in Threads |-> None] ELSE busy[w]
        /\ running'[w] = IF w = v THEN [t \in Threads |-> None] ELSE running[w]
    BY <1>4 DEF Disconnect, Typed
  <2>5. ToldSoFar(w)'
    <3>1. ToSet(<<>>) = {}
      BY DEF ToSet
    <3> QED BY <1>1, <2>1, <2>4, <3>1 DEF ToldSoFar
  <2>6. HeardSoFar(w)'
    BY <1>1, <2>1, <2>3 DEF HeardSoFar
  <2>7. InStep(w)'
    BY <1>1, <2>1, <2>4 DEF InStep, Connected
  <2>8. BusyInCall(w)'
    BY <1>1, <2>1, <2>4 DEF BusyInCall
  <2> QED BY <2>5, <2>6, <2>7, <2>8
<1> QED BY <1>3, <1>4

\* A worker takes the first message that came from the master.
LEMMA HearIs ==
  ASSUME Typed, NEW v \in Workers, NEW type, Hear(v, type)
  PROVE  /\ toWorker[v] # <<>> /\ toWorker[v] \in Seq(ToWorkerMsgs)
         /\ Head(toWorker[v]) \in ToSet(toWorker[v]) /\ Head(toWorker[v]) \in ToWorkerMsgs
         /\ Head(toWorker[v]).type = type /\ Head(toWorker[v]).call = wcall[v]
         /\ \A w \in Workers : toWorker'[w] = IF w = v THEN Tail(toWorker[v]) ELSE toWorker[w]
         /\ \A w \in Workers : ToSet(toWorker'[w]) \subseteq ToSet(toWorker[w])
<1>1. /\ toWorker[v] # <<>> /\ toWorker[v] \in Seq(ToWorkerMsgs)
      /\ Head(toWorker[v]).type = type /\ Head(toWorker[v]).call = wcall[v]
      /\ \A w \in Workers : toWorker'[w] = IF w = v THEN Tail(toWorker[v]) ELSE toWorker[w]
  BY DEF Hear, Typed
<1>2. /\ Head(toWorker[v]) \in ToSet(toWorker[v]) /\ Head(toWorker[v]) \in ToWorkerMsgs
      /\ ToSet(Tail(toWorker[v])) \subseteq ToSet(toWorker[v])
  BY <1>1, TailIs
<1> QED BY <1>1, <1>2

\* A message to the master
LEMMA TellIs ==
  ASSUME Typed, NEW v \in Workers, NEW m \in ToMasterMsgs,
         toMaster' = [toMaster EXCEPT ![v] = Append(@, m)]
  PROVE  \A w \in Workers :
           /\ toMaster'[w] = IF w = v THEN Append(toMaster[v], m) ELSE toMaster[w]
           /\ ToSet(toMaster'[w]) = ToSet(toMaster[w]) \cup (IF w = v THEN {m} ELSE {})
<1>1. toMaster[v] \in Seq(ToMasterMsgs)
  BY DEF Typed
<1>2. ToSet(Append(toMaster[v], m)) = ToSet(toMaster[v]) \cup {m}
  BY <1>1, AppendIs
<1>3. \A w \in Workers : toMaster'[w] = IF w = v THEN Append(toMaster[v], m) ELSE toMaster[w]
  BY DEF Typed
<1> QED BY <1>2, <1>3

\* A thread takes a unit, or passes it over.
LEMMA TakeIs ==
  ASSUME Typed, NEW v \in Workers, NEW t \in Threads, TakeWorkUnit(v, t)
  PROVE  /\ todo[v] # <<>> /\ todo[v] \in Seq(Units) /\ Head(todo[v]) \in Units
         /\ ToSet(todo[v]) = {Head(todo[v])} \cup ToSet(Tail(todo[v]))
         /\ state[v] = "working" /\ busy[v][t] = None
         /\ UNCHANGED <<masterVars, state, wcall, lost, netVars>>
         /\ \A w \in Workers : todo'[w] = IF w = v THEN Tail(todo[v]) ELSE todo[w]
         /\ \/ UNCHANGED <<running, busy>> /\ \E s \in Threads : running[v][s] = Head(todo[v])
            \/ \A w \in Workers, s \in Threads :
                 /\ running'[w][s] = IF w = v /\ s = t THEN Head(todo[v]) ELSE running[w][s]
                 /\ busy'[w][s] = IF w = v /\ s = t THEN Head(todo[v]) ELSE busy[w][s]
<1>1. todo[v] # <<>> /\ todo[v] \in Seq(Units)
  BY DEF TakeWorkUnit, Typed
<1>2. Head(todo[v]) \in Units /\ ToSet(todo[v]) = {Head(todo[v])} \cup ToSet(Tail(todo[v]))
  BY <1>1, TailIs
<1>3. \A w \in Workers : todo'[w] = IF w = v THEN Tail(todo[v]) ELSE todo[w]
  BY DEF TakeWorkUnit, Typed
<1>4. ASSUME running' = [running EXCEPT ![v][t] = Head(todo[v])],
             busy' = [busy EXCEPT ![v][t] = Head(todo[v])]
      PROVE  \A w \in Workers, s \in Threads :
               /\ running'[w][s] = IF w = v /\ s = t THEN Head(todo[v]) ELSE running[w][s]
               /\ busy'[w][s] = IF w = v /\ s = t THEN Head(todo[v]) ELSE busy[w][s]
  BY <1>4 DEF Typed
<1> QED BY <1>1, <1>2, <1>3, <1>4 DEF TakeWorkUnit

\* A thread is done with a unit.
LEMMA FinishIs ==
  ASSUME Typed, NEW v \in Workers, NEW t \in Threads, FinishWorkUnit(v, t)
  PROVE  LET m == Message("results", wcall[v], busy[v][t])
         IN /\ busy[v][t] \in Units /\ busy[v][t] # None /\ state[v] \in {"working", "closing"}
            /\ m \in ToMasterMsgs
            /\ UNCHANGED <<masterVars, state, wcall, todo, running, lost, toWorker>>
            /\ \A w \in Workers, s \in Threads :
                 busy'[w][s] = IF w = v /\ s = t THEN None ELSE busy[w][s]
            /\ \A w \in Workers :
                 /\ toMaster'[w] = IF w = v THEN Append(toMaster[v], m) ELSE toMaster[w]
                 /\ ToSet(toMaster'[w]) = ToSet(toMaster[w]) \cup (IF w = v THEN {m} ELSE {})
<1> DEFINE m == Message("results", wcall[v], busy[v][t])
<1>1. busy[v][t] \in Units /\ busy[v][t] # None /\ wcall[v] \in 0 .. NumCalls
  BY DEF FinishWorkUnit, Typed
<1>2. m \in ToMasterMsgs
  BY <1>1, MessagesTyped
<1>3. toMaster' = [toMaster EXCEPT ![v] = Append(@, m)]
  BY DEF FinishWorkUnit
<1> HIDE DEF m
<1>4. \A w \in Workers :
        /\ toMaster'[w] = IF w = v THEN Append(toMaster[v], m) ELSE toMaster[w]
        /\ ToSet(toMaster'[w]) = ToSet(toMaster[w]) \cup (IF w = v THEN {m} ELSE {})
  BY <1>2, <1>3, TellIs
<1>5. \A w \in Workers, s \in Threads : busy'[w][s] = IF w = v /\ s = t THEN None ELSE busy[w][s]
  BY DEF FinishWorkUnit, Typed
<1> QED BY <1>1, <1>2, <1>4, <1>5 DEF FinishWorkUnit, m

LEMMA NumberedByThread ==
  ASSUME Typed, Numbered, NEW v \in Workers, NEW t \in Threads, ThreadNext(v, t)
  PROVE  Numbered'
<1> SUFFICES ASSUME NEW w \in Workers
             PROVE  (ToldSoFar(w) /\ HeardSoFar(w) /\ InStep(w) /\ BusyInCall(w))'
  BY DEF Numbered
<1>1. ToldSoFar(w) /\ HeardSoFar(w) /\ InStep(w) /\ BusyInCall(w)
  BY DEF Numbered
<1>2. InStep(v) /\ call \in Nat /\ wcall[v] \in Nat
  BY CallsAre DEF Numbered
<1>3. CASE TakeWorkUnit(v, t)
  <2>1. UNCHANGED <<call, phase, state, wcall, toWorker, toMaster>> /\ state[v] = "working"
    BY <1>3, TakeIs DEF masterVars, netVars
  <2>2. ToldSoFar(w)' /\ HeardSoFar(w)' /\ InStep(w)'
    BY <1>1, <2>1 DEF ToldSoFar, HeardSoFar, InStep, Connected
  <2>3. call # 0
    BY <1>2, <2>1 DEF InStep, Connected
  <2>4. BusyInCall(w)'
    <3>1. CASE UNCHANGED <<running, busy>>
      BY <1>1, <2>1, <3>1 DEF BusyInCall
    <3>2. CASE \A x \in Workers, s \in Threads :
                 /\ running'[x][s] = IF x = v /\ s = t THEN Head(todo[v]) ELSE running[x][s]
                 /\ busy'[x][s] = IF x = v /\ s = t THEN Head(todo[v]) ELSE busy[x][s]
      BY <1>1, <2>1, <2>3, <3>2 DEF BusyInCall
    <3> QED BY <1>3, <3>1, <3>2, TakeIs
  <2> QED BY <2>2, <2>4
<1>4. CASE FinishWorkUnit(v, t)
  <2> DEFINE m == Message("results", wcall[v], busy[v][t])
  <2>1. /\ state[v] \in {"working", "closing"}
        /\ UNCHANGED <<masterVars, state, wcall, todo, running, lost, toWorker>>
        /\ \A s \in Threads : busy'[w][s] = IF w = v /\ s = t THEN None ELSE busy[w][s]
        /\ ToSet(toMaster'[w]) = ToSet(toMaster[w]) \cup (IF w = v THEN {m} ELSE {})
    BY <1>4, FinishIs
  <2>2. m.call = wcall[v]
    BY DEF Message
  <2> HIDE DEF m
  <2>3. wcall[v] <= call
    BY <1>2, <2>1 DEF InStep, Connected
  <2>4. UNCHANGED <<call, phase>>
    BY <2>1 DEF masterVars
  <2>5. ToldSoFar(w)' /\ InStep(w)'
    BY <1>1, <2>1, <2>4 DEF ToldSoFar, InStep, Connected
  <2>6. HeardSoFar(w)'
    BY <1>1, <2>1, <2>2, <2>3, <2>4 DEF HeardSoFar
  <2>7. BusyInCall(w)'
    BY <1>1, <2>1, <2>4 DEF BusyInCall
  <2> QED BY <2>5, <2>6, <2>7
<1> QED BY <1>3, <1>4 DEF ThreadNext

LEMMA NumberedByWorker ==
  ASSUME Typed, Numbered, NEW v \in Workers, WorkerNext(v)
  PROVE  Numbered'
<1> SUFFICES ASSUME NEW w \in Workers
             PROVE  (ToldSoFar(w) /\ HeardSoFar(w) /\ InStep(w) /\ BusyInCall(w))'
  BY DEF Numbered
<1>1. /\ ToldSoFar(w) /\ HeardSoFar(w) /\ InStep(w) /\ BusyInCall(w)
      /\ ToldSoFar(v) /\ InStep(v)
  BY DEF Numbered
<1>2. call \in Nat /\ wcall[v] \in Nat /\ wcall[w] \in Nat
  BY CallsAre
<1>3. CASE HearMasterReady(v)
  <2> DEFINE m == Message("workerReady", wcall[v], None)
  <2>1. /\ UNCHANGED <<call, phase, wcall, running, busy>> /\ state[v] = "waiting"
        /\ toMaster' = [toMaster EXCEPT ![v] = Append(@, m)] /\ Hear(v, "ready")
    BY <1>3 DEF HearMasterReady, masterVars
  <2>2. state'[w] = IF w = v THEN "working" ELSE state[w]
    BY <1>3 DEF HearMasterReady, Typed
  <2>3. /\ ToSet(toWorker'[w]) \subseteq ToSet(toWorker[w])
        /\ Head(toWorker[v]) \in ToSet(toWorker[v]) /\ Head(toWorker[v]).call = wcall[v]
    BY <2>1, HearIs
  <2>4. wcall[v] <= call
    BY <1>1, <2>3 DEF ToldSoFar
  <2>5. m \in ToMasterMsgs /\ m.call = wcall[v]
    <3>1. wcall[v] \in 0 .. NumCalls
      BY DEF Typed
    <3> QED BY <3>1, MessagesTyped DEF Message
  <2> HIDE DEF m
  <2>6. ToSet(toMaster'[w]) = ToSet(toMaster[w]) \cup (IF w = v THEN {m} ELSE {})
    BY <2>1, <2>5, TellIs
  <2>7. ToldSoFar(w)'
    BY <1>1, <2>1, <2>3 DEF ToldSoFar
  <2>8. HeardSoFar(w)'
    BY <1>1, <2>1, <2>4, <2>5, <2>6 DEF HeardSoFar
  <2>9. InStep(w)'
    <3>1. CASE w = v
      BY <1>1, <1>2, <2>1, <2>2, <2>4, <3>1 DEF InStep, Connected
    <3> QED BY <1>1, <2>1, <2>2, <3>1 DEF InStep, Connected
  <2>10. BusyInCall(w)'
    BY <1>1, <2>1, <2>2 DEF BusyInCall
  <2> QED BY <2>7, <2>8, <2>9, <2>10
<1>4. CASE HearAssignment(v)
  <2>1. UNCHANGED <<call, phase, state, wcall, running, busy, toMaster>> /\ Hear(v, "assign")
    BY <1>4 DEF HearAssignment, masterVars
  <2>2. ToSet(toWorker'[w]) \subseteq ToSet(toWorker[w])
    BY <2>1, HearIs
  <2> QED BY <1>1, <2>1, <2>2 DEF ToldSoFar, HeardSoFar, InStep, Connected, BusyInCall
<1>5. CASE HearMasterFinished(v)
  <2>1. /\ UNCHANGED <<call, phase, wcall, running, busy, toMaster>> /\ state[v] = "working"
        /\ Hear(v, "finished")
    BY <1>5 DEF HearMasterFinished, masterVars, threadVars
  <2>2. state'[w] = IF w = v THEN "closing" ELSE state[w]
    BY <1>5 DEF HearMasterFinished, Typed
  <2>3. /\ ToSet(toWorker'[w]) \subseteq ToSet(toWorker[w])
        /\ Head(toWorker[v]) \in ToSet(toWorker[v]) /\ Head(toWorker[v]).call = wcall[v]
        /\ Head(toWorker[v]).type = "finished"
    BY <2>1, HearIs
  <2>4. phase # "between" => wcall[v] < call
    BY <1>1, <2>3 DEF ToldSoFar
  <2>5. ToldSoFar(w)' /\ HeardSoFar(w)'
    BY <1>1, <2>1, <2>3 DEF ToldSoFar, HeardSoFar
  <2>6. InStep(w)'
    <3>1. CASE w = v
      BY <1>1, <1>2, <2>1, <2>2, <2>4, <3>1 DEF InStep, Connected
    <3> QED BY <1>1, <2>1, <2>2, <3>1 DEF InStep, Connected
  <2>7. BusyInCall(w)'
    BY <1>1, <2>1, <2>2 DEF BusyInCall
  <2> QED BY <2>5, <2>6, <2>7
<1>6. CASE CloseThreads(v)
  <2>1. /\ UNCHANGED <<call, phase, running, busy, toWorker, toMaster>> /\ state[v] = "closing"
        /\ \A t \in Threads : busy[v][t] = None
    BY <1>6 DEF CloseThreads, masterVars, threadVars, netVars
  <2>2. \/ /\ state'[w] = IF w = v THEN "waiting" ELSE state[w]
           /\ wcall'[w] = IF w = v THEN wcall[w] + 1 ELSE wcall[w]
           /\ wcall[v] < NumCalls
        \/ /\ state'[w] = IF w = v THEN "done" ELSE state[w]
           /\ wcall'[w] = wcall[w]
    BY <1>6 DEF CloseThreads, Typed
  <2>3. ToldSoFar(w)' /\ HeardSoFar(w)'
    BY <1>1, <2>1 DEF ToldSoFar, HeardSoFar
  <2>4. InStep(w)'
    <3>1. CASE w = v
      BY <1>1, <1>2, <2>1, <2>2, <3>1 DEF InStep, Connected
    <3> QED BY <1>1, <2>1, <2>2, <3>1 DEF InStep, Connected
  <2>5. BusyInCall(w)'
    BY <1>1, <2>1, <2>2 DEF BusyInCall
  <2> QED BY <2>3, <2>4, <2>5
<1> QED BY <1>3, <1>4, <1>5, <1>6 DEF WorkerNext

LEMMA NumberedStep ==
  ASSUME Typed, BooksSound, Ledger, Numbered, [Next]_vars
  PROVE  Numbered'
<1>1. CASE UNCHANGED vars
  BY <1>1 DEF vars, masterVars, workerVars, threadVars, netVars, Numbered, ToldSoFar, HeardSoFar,
              InStep, BusyInCall, Connected
<1>2. CASE Next
  BY <1>2, NumberedByCalls, NumberedByMaster, NumberedByNetwork, NumberedByWorker, NumberedByThread
  DEF Next, MasterNext
<1> QED BY <1>1, <1>2

LEMMA NumberedInit == Init => Numbered
BY DEF Init, Numbered, ToldSoFar, HeardSoFar, InStep, BusyInCall, Connected, ToSet
---------------------------------------------------------------------------
(* Who asks for work, and who has it. *)

ReadyOnce(s) ==
  \A j, k \in 1 .. Len(s) :
    s[j].type = "workerReady" /\ s[k].type = "workerReady" /\ s[j].call = s[k].call => j = k

\* While its connection has never been lost, a machine has asked for work once in
\* a call, and the master has read all of a machine that is not there.
Once(w) ==
  NeverLost(w) =>
    /\ ReadyOnce(toMaster[w])
    /\ \A m \in ToSet(toMaster[w]) : m.type = "workerReady" =>
         m.call <= wcall[w] /\ (m.call = wcall[w] => state[w] # "waiting")
    /\ ~Connected(w) => toMaster[w] = <<>>
AskedOnce == \A w \in Workers : Once(w)

LEMMA ReadyOnceTail ==
  ASSUME NEW s \in Seq(ToMasterMsgs), s # <<>>, ReadyOnce(s)
  PROVE  /\ ReadyOnce(Tail(s))
         /\ Head(s).type = "workerReady" =>
              \A m \in ToSet(Tail(s)) : m.type = "workerReady" => m.call # Head(s).call
<1> DEFINE r == Tail(s)
<1>1. /\ Head(s) = s[1] /\ r \in Seq(ToMasterMsgs) /\ Len(r) = Len(s) - 1 /\ Len(s) \in Nat
      /\ \A k \in 1 .. Len(s) - 1 : r[k] = s[k + 1]
  BY TailIs
<1> HIDE DEF r
<1>2. \A k \in 1 .. Len(r) : k + 1 \in 1 .. Len(s) /\ r[k] = s[k + 1]
  BY <1>1
<1>3. ReadyOnce(r)
  <2> SUFFICES ASSUME NEW j \in 1 .. Len(r), NEW k \in 1 .. Len(r),
                      r[j].type = "workerReady", r[k].type = "workerReady", r[j].call = r[k].call
               PROVE  j = k
    BY DEF ReadyOnce
  <2>1. j + 1 = k + 1
    BY <1>2 DEF ReadyOnce
  <2> QED BY <2>1
<1>4. ASSUME Head(s).type = "workerReady", NEW m \in ToSet(r), m.type = "workerReady"
      PROVE  m.call # Head(s).call
  <2>1. PICK k \in 1 .. Len(r) : m = r[k]
    BY <1>1, InList
  <2>2. k + 1 \in 1 .. Len(s) /\ 1 \in 1 .. Len(s) /\ m = s[k + 1] /\ k + 1 # 1
    BY <1>1, <1>2, <2>1
  <2> QED BY <1>1, <1>4, <2>2 DEF ReadyOnce
<1> QED BY <1>3, <1>4 DEF r

LEMMA ReadyOnceAppend ==
  ASSUME NEW s \in Seq(ToMasterMsgs), NEW e \in ToMasterMsgs, ReadyOnce(s),
         e.type = "workerReady" => \A m \in ToSet(s) : m.type = "workerReady" => m.call # e.call
  PROVE  ReadyOnce(Append(s, e))
<1> DEFINE r == Append(s, e)
<1>1. /\ Len(r) = Len(s) + 1 /\ Len(s) \in Nat /\ r[Len(s) + 1] = e
      /\ \A k \in 1 .. Len(s) : r[k] = s[k] /\ s[k] \in ToSet(s)
  BY AppendIs, InList
<1> HIDE DEF r
<1> SUFFICES ASSUME NEW j \in 1 .. Len(r), NEW k \in 1 .. Len(r),
                      r[j].type = "workerReady", r[k].type = "workerReady", r[j].call = r[k].call
             PROVE  j = k
  BY DEF ReadyOnce, r
<1>2. CASE j \in 1 .. Len(s) /\ k \in 1 .. Len(s)
  BY <1>1, <1>2 DEF ReadyOnce
<1>3. CASE j = Len(s) + 1 /\ k \in 1 .. Len(s)
  BY <1>1, <1>3
<1>4. CASE j \in 1 .. Len(s) /\ k = Len(s) + 1
  BY <1>1, <1>4
<1> QED BY <1>1, <1>2, <1>3, <1>4

LEMMA OnceStays ==
  ASSUME NEW w \in Workers, Once(w), UNCHANGED <<state, wcall, lost, toMaster>>
  PROVE  Once(w)'
BY DEF Once, NeverLost, Connected

LEMMA OnceByMaster ==
  ASSUME Typed, BooksSound, Ledger, AskedOnce,
         NEW v \in Workers, OnWorkerReady(v) \/ OnResults(v)
  PROVE  AskedOnce'
<1> SUFFICES ASSUME NEW w \in Workers PROVE Once(w)'
  BY DEF AskedOnce
<1>1. Once(w)
  BY DEF AskedOnce
<1>2. /\ UNCHANGED <<state, wcall, lost>>
      /\ toMaster[v] # <<>> /\ toMaster' = [toMaster EXCEPT ![v] = Tail(@)]
      /\ ToSet(toMaster'[w]) \subseteq ToSet(toMaster[w])
  BY MasterMoves
<1>3. CASE w # v
  <2>1. toMaster'[w] = toMaster[w]
    BY <1>2, <1>3 DEF Typed
  <2> QED BY <1>1, <1>2, <2>1 DEF Once, NeverLost, Connected
<1>4. CASE w = v
  <2>1. toMaster[w] \in Seq(ToMasterMsgs) /\ toMaster'[w] = Tail(toMaster[w])
    BY <1>2, <1>4 DEF Typed
  <2>2. ReadyOnce(toMaster[w]) => ReadyOnce(toMaster'[w])
    BY <1>2, <1>4, <2>1, ReadyOnceTail
  <2> QED BY <1>1, <1>2, <1>4, <2>2 DEF Once, NeverLost, Connected
<1> QED BY <1>3, <1>4

LEMMA OnceByNetwork ==
  ASSUME Typed, AskedOnce, NEW v \in Workers, Join(v) \/ Disconnect(v)
  PROVE  AskedOnce'
<1> SUFFICES ASSUME NEW w \in Workers PROVE Once(w)'
  BY DEF AskedOnce
<1>1. Once(w)
  BY DEF AskedOnce
<1>2. CASE Join(v)
  <2>1. /\ ~Connected(v) /\ UNCHANGED <<lost, toMaster>>
        /\ state'[w] = IF w = v THEN "waiting" ELSE state[w]
        /\ wcall'[w] = IF w = v THEN 1 ELSE wcall[w]
    BY <1>2 DEF Join, Typed
  <2>2. CASE w = v
    <3>1. ASSUME NeverLost(w) PROVE toMaster'[w] = <<>>
      BY <1>1, <2>1, <2>2, <3>1 DEF Once
    <3>2. ToSet(<<>>) = {} /\ Len(<<>>) = 0
      BY DEF ToSet
    <3> QED BY <2>1, <2>2, <3>1, <3>2 DEF Once, NeverLost, ReadyOnce
  <2>3. CASE w # v
    BY <1>1, <2>1, <2>3 DEF Once, NeverLost, Connected
  <2> QED BY <2>2, <2>3
<1>3. CASE Disconnect(v)
  <2>1. lost \in Seq(Workers) /\ lost' = Append(lost, v)
    BY <1>3 DEF Disconnect, Typed
  <2>2. ToSet(lost') = ToSet(lost) \cup {v}
    BY <2>1, AppendIs
  <2>3. CASE w = v
    BY <2>2, <2>3 DEF Once, NeverLost
  <2>4. CASE w # v
    <3>1. UNCHANGED <<state[w], wcall[w], toMaster[w]>>
      BY <1>3, <2>4 DEF Disconnect, Typed
    <3> QED BY <1>1, <2>2, <3>1 DEF Once, NeverLost, Connected
  <2> QED BY <2>3, <2>4
<1> QED BY <1>2, <1>3

LEMMA OnceByWorker ==
  ASSUME Typed, AskedOnce, NEW v \in Workers,
         WorkerNext(v) \/ \E t \in Threads : ThreadNext(v, t)
  PROVE  AskedOnce'
<1> SUFFICES ASSUME NEW w \in Workers PROVE Once(w)'
  BY DEF AskedOnce
<1>1. Once(w)
  BY DEF AskedOnce
<1>2. toMaster[w] \in Seq(ToMasterMsgs) /\ wcall[w] \in Nat
      /\ \A m \in ToSet(toMaster[w]) : m.call \in Nat
  BY CallsAre DEF Typed
<1>3. CASE HearMasterReady(v)
  <2> DEFINE m == Message("workerReady", wcall[v], None)
  <2>1. /\ UNCHANGED <<wcall, lost>> /\ state[v] = "waiting"
        /\ toMaster' = [toMaster EXCEPT ![v] = Append(@, m)]
        /\ state'[w] = IF w = v THEN "working" ELSE state[w]
    BY <1>3 DEF HearMasterReady, masterVars, Typed
  <2>2. m \in ToMasterMsgs /\ m.call = wcall[v]
    <3>1. wcall[v] \in 0 .. NumCalls
      BY DEF Typed
    <3> QED BY <3>1, MessagesTyped DEF Message
  <2> HIDE DEF m
  <2>3. /\ toMaster'[w] = IF w = v THEN Append(toMaster[v], m) ELSE toMaster[w]
        /\ ToSet(toMaster'[w]) = ToSet(toMaster[w]) \cup (IF w = v THEN {m} ELSE {})
    BY <2>1, <2>2, TellIs
  <2>4. CASE w = v
    <3> SUFFICES ASSUME NeverLost(w) PROVE Once(w)'
      BY <2>1 DEF Once, NeverLost
    <3>1. \A x \in ToSet(toMaster[w]) : x.type = "workerReady" => x.call # m.call
      BY <1>1, <2>1, <2>2, <2>4 DEF Once
    <3>2. ReadyOnce(toMaster'[w])
      BY <1>1, <1>2, <2>2, <2>3, <2>4, <3>1, ReadyOnceAppend DEF Once
    <3>3. \A x \in ToSet(toMaster'[w]) : x.type = "workerReady" => x.call <= wcall'[w]
      BY <1>1, <1>2, <2>1, <2>2, <2>3, <2>4 DEF Once
    <3> QED BY <2>1, <2>4, <3>2, <3>3 DEF Once, NeverLost, Connected
  <2>5. CASE w # v
    BY <1>1, <2>1, <2>3, <2>5 DEF Once, NeverLost, Connected
  <2> QED BY <2>4, <2>5
<1>4. CASE HearAssignment(v)
  BY <1>1, <1>4, OnceStays DEF HearAssignment
<1>5. CASE HearMasterFinished(v)
  <2>1. /\ UNCHANGED <<wcall, lost, toMaster>> /\ state[v] = "working"
        /\ state'[w] = IF w = v THEN "closing" ELSE state[w]
    BY <1>5 DEF HearMasterFinished, Typed
  <2> QED BY <1>1, <2>1 DEF Once, NeverLost, Connected
<1>6. CASE CloseThreads(v)
  <2>1. UNCHANGED <<lost, toMaster>> /\ state[v] = "closing"
    BY <1>6 DEF CloseThreads, netVars
  <2>2. \/ /\ state'[w] = IF w = v THEN "waiting" ELSE state[w]
           /\ wcall'[w] = IF w = v THEN wcall[w] + 1 ELSE wcall[w]
        \/ /\ state'[w] = IF w = v THEN "done" ELSE state[w]
           /\ wcall'[w] = wcall[w]
    BY <1>6 DEF CloseThreads, Typed
  <2>3. CASE w = v
    <3>1. ASSUME NEW m \in ToSet(toMaster[w]), m.call <= wcall[w]
          PROVE  m.call <= wcall[w] + 1 /\ m.call # wcall[w] + 1
      BY <1>2, <3>1
    <3> QED BY <1>1, <2>1, <2>2, <2>3, <3>1 DEF Once, NeverLost, Connected
  <2>4. CASE w # v
    BY <1>1, <2>1, <2>2, <2>4 DEF Once, NeverLost, Connected
  <2> QED BY <2>3, <2>4
<1>7. ASSUME NEW t \in Threads, TakeWorkUnit(v, t) PROVE Once(w)'
  BY <1>1, <1>7, OnceStays DEF TakeWorkUnit, netVars
<1>8. ASSUME NEW t \in Threads, FinishWorkUnit(v, t) PROVE Once(w)'
  <2> DEFINE m == Message("results", wcall[v], busy[v][t])
  <2>1. /\ UNCHANGED <<state, wcall, lost>> /\ state[v] \in {"working", "closing"}
        /\ m \in ToMasterMsgs
        /\ toMaster'[w] = IF w = v THEN Append(toMaster[v], m) ELSE toMaster[w]
        /\ ToSet(toMaster'[w]) = ToSet(toMaster[w]) \cup (IF w = v THEN {m} ELSE {})
    BY <1>8, FinishIs
  <2>2. m.type # "workerReady"
    BY DEF Message
  <2> HIDE DEF m
  <2>3. ReadyOnce(toMaster[w]) => ReadyOnce(toMaster'[w])
    BY <1>2, <2>1, <2>2, ReadyOnceAppend
  <2> QED BY <1>1, <2>1, <2>2, <2>3 DEF Once, NeverLost, Connected
<1> QED BY <1>3, <1>4, <1>5, <1>6, <1>7, <1>8 DEF WorkerNext, ThreadNext

LEMMA OnceStep ==
  ASSUME Typed, BooksSound, Ledger, AskedOnce, [Next]_vars
  PROVE  AskedOnce'
<1>1. CASE UNCHANGED vars
  BY <1>1, OnceStays DEF vars, masterVars, workerVars, netVars, AskedOnce
<1>2. CASE StartCall \/ FinishCall \/ StopCall
  BY <1>2, OnceStays DEF StartCall, FinishCall, StopCall, EndCall, workerVars, AskedOnce
<1> QED BY <1>1, <1>2, OnceByMaster, OnceByNetwork, OnceByWorker DEF Next, MasterNext

LEMMA OnceInit == Init => AskedOnce
BY DEF Init, AskedOnce, Once, ReadyOnce, Connected, ToSet

AtWork(w) ==
  /\ state[w] = "working" /\ wcall[w] = call
  /\ \A m \in ToSet(toMaster[w]) : m.type = "workerReady" => m.call # call

\* Who owns a partition and has never been lost is at work in the master's call and
\* has asked for work already.
OwnersWork ==
  phase = "distributing" => \A p \in ToSet(book.parts) :
    p.worker \in Workers /\ NeverLost(p.worker) => AtWork(p.worker)

\* The books are the same, or their owners are.
LEMMA OwnersWorkStays ==
  ASSUME OwnersWork, phase = "distributing",
         OwnersKept(ToSet(book.parts), ToSet(book'.parts), Nobody),
         \A w \in Workers : AtWork(w) /\ NeverLost(w)' => AtWork(w)' /\ NeverLost(w),
         \A w \in Workers : NeverLost(w)' => NeverLost(w)
  PROVE  OwnersWork'
<1> SUFFICES ASSUME NEW p \in ToSet(book'.parts), p.worker \in Workers, NeverLost(p.worker)'
             PROVE  AtWork(p.worker)'
  BY DEF OwnersWork
<1>1. PICK q \in ToSet(book.parts) : q.worker = p.worker
  BY PartitionAssumption DEF OwnersKept
<1> QED BY <1>1 DEF OwnersWork

LEMMA OwnersWorkByCalls ==
  ASSUME StartCall \/ FinishCall \/ StopCall
  PROVE  OwnersWork'
<1>1. CASE StartCall
  <2>1. ToSet(book'.parts) = {}
    BY <1>1 DEF StartCall, NoBook, ToSet
  <2> QED BY <2>1 DEF OwnersWork
<1>2. CASE FinishCall \/ StopCall
  BY <1>2 DEF FinishCall, StopCall, EndCall, OwnersWork
<1> QED BY <1>1, <1>2

\* The machine that asks is at work, and has asked once.
LEMMA AskerWorks ==
  ASSUME Typed, BooksSound, Ledger, Numbered, AskedOnce, NEW v \in Workers,
         OnWorkerReady(v), Head(toMaster[v]).call = call, NeverLost(v)
  PROVE  AtWork(v)'
<1>1. /\ phase = "distributing" /\ UNCHANGED <<call, state, wcall>>
      /\ toMaster[v] # <<>> /\ toMaster' = [toMaster EXCEPT ![v] = Tail(@)]
  BY MasterMoves
<1>2. toMaster[v] \in Seq(ToMasterMsgs) /\ toMaster'[v] = Tail(toMaster[v])
  BY <1>1 DEF Typed
<1>3. /\ ReadyOnce(toMaster[v]) /\ Connected(v) /\ InStep(v)
      /\ \A m \in ToSet(toMaster[v]) : m.type = "workerReady" =>
           m.call <= wcall[v] /\ (m.call = wcall[v] => state[v] # "waiting")
  BY <1>1 DEF AskedOnce, Once, Numbered
<1>4. Head(toMaster[v]) \in ToSet(toMaster[v]) /\ Head(toMaster[v]).type = "workerReady"
  BY <1>1, <1>2, TailIs DEF OnWorkerReady, Dispatch
<1>5. call \in Nat /\ wcall[v] \in Nat
  BY CallsAre
<1>6. wcall[v] = call
  BY <1>1, <1>3, <1>4, <1>5 DEF InStep
<1>7. state[v] = "working"
  BY <1>1, <1>3, <1>4, <1>6 DEF InStep
<1>8. ASSUME NEW m \in ToSet(Tail(toMaster[v])), m.type = "workerReady" PROVE m.call # call
  <2>1. m.call # Head(toMaster[v]).call
    BY <1>1, <1>2, <1>3, <1>4, <1>8, ReadyOnceTail
  <2> QED BY <2>1
<1> QED BY <1>1, <1>2, <1>6, <1>7, <1>8 DEF AtWork

LEMMA OwnersWorkByMaster ==
  ASSUME Typed, BooksSound, Ledger, Numbered, AskedOnce, OwnersWork,
         NEW v \in Workers, OnWorkerReady(v) \/ OnResults(v)
  PROVE  OwnersWork'
<1>1. /\ phase = "distributing" /\ UNCHANGED <<call, state, wcall, lost>>
      /\ \A w \in Workers : ToSet(toMaster'[w]) \subseteq ToSet(toMaster[w])
  BY MasterMoves
<1>2. \A w \in Workers : (AtWork(w) => AtWork(w)') /\ (NeverLost(w)' <=> NeverLost(w))
  BY <1>1 DEF AtWork, NeverLost
<1>3. ASSUME OwnersKept(ToSet(book.parts), ToSet(book'.parts), Nobody) PROVE OwnersWork'
  BY <1>1, <1>2, <1>3, OwnersWorkStays
<1>4. CASE OnResults(v)
  <2>1. toWorker = [w \in Workers |-> toWorker[w]]
    BY DEF Typed
  <2>2. OwnersKept(ToSet(book.parts), ToSet(book'.parts), Nobody)
    BY <1>4, <2>1, ResultsMove
  <2> QED BY <1>3, <2>2
<1>5. CASE OnWorkerReady(v) /\ Head(toMaster[v]).call # call
  <2>1. book' = book
    BY <1>5 DEF OnWorkerReady
  <2> QED BY <1>3, <2>1 DEF OwnersKept
<1>6. CASE OnWorkerReady(v) /\ Head(toMaster[v]).call = call
  <2>1. OwnersKept(ToSet(book.parts), ToSet(book'.parts), v)
    BY <1>6, ReadyMoves DEF Moved
  <2> SUFFICES ASSUME NEW p \in ToSet(book'.parts), p.worker \in Workers, NeverLost(p.worker)'
               PROVE  AtWork(p.worker)'
    BY DEF OwnersWork
  <2>2. CASE p.worker = v
    <3>1. AtWork(v)'
      BY <1>2, <1>6, <2>2, AskerWorks
    <3> QED BY <2>2, <3>1
  <2>3. CASE p.worker # v
    <3>1. PICK q \in ToSet(book.parts) : q.worker = p.worker
      BY <2>1, <2>3, PartitionAssumption DEF OwnersKept
    <3>2. AtWork(p.worker)
      BY <1>1, <1>2, <3>1 DEF OwnersWork
    <3> QED BY <1>2, <3>2
  <2> QED BY <2>2, <2>3
<1> QED BY <1>4, <1>5, <1>6

LEMMA OwnersWorkByNetwork ==
  ASSUME Typed, BooksSound, Ledger, OwnersWork, NEW v \in Workers, Join(v) \/ Disconnect(v)
  PROVE  OwnersWork'
<1> SUFFICES ASSUME phase' = "distributing" PROVE OwnersWork'
  BY DEF OwnersWork
<1>1. CASE Join(v)
  <2>1. UNCHANGED <<masterVars, lost, toMaster>> /\ ~Connected(v)
    BY <1>1 DEF Join
  <2>2. \A w \in Workers : AtWork(w) => AtWork(w)'
    <3>1. ~AtWork(v)
      BY <2>1 DEF AtWork, Connected
    <3>2. \A w \in Workers \ {v} : UNCHANGED <<state[w], wcall[w]>>
      BY <1>1 DEF Join, Typed
    <3> QED BY <2>1, <3>1, <3>2 DEF AtWork, masterVars
  <2> QED BY <2>1, <2>2, OwnersWorkStays DEF masterVars, NeverLost, OwnersKept
<1>2. CASE Disconnect(v)
  <2>1. /\ UNCHANGED <<call, phase, wcall>>
        /\ lost \in Seq(Workers) /\ lost' = Append(lost, v)
    BY <1>2 DEF Disconnect, Typed
  <2>2. ToSet(lost') = ToSet(lost) \cup {v}
    BY <2>1, AppendIs
  <2>3. \A w \in Workers : AtWork(w) /\ NeverLost(w)' => AtWork(w)' /\ NeverLost(w)
    <3>1. \A w \in Workers \ {v} : UNCHANGED <<state[w], toMaster[w]>>
      BY <1>2 DEF Disconnect, Typed
    <3> QED BY <2>1, <2>2, <3>1 DEF AtWork, NeverLost
  <2>4. OwnersKept(ToSet(book.parts), ToSet(book'.parts), Nobody)
    BY <1>2, LossMoves DEF OwnersKept
  <2> QED BY <2>1, <2>2, <2>3, <2>4, OwnersWorkStays DEF NeverLost
<1> QED BY <1>1, <1>2

LEMMA OwnersWorkByWorker ==
  ASSUME Typed, Numbered, OwnersWork, NEW v \in Workers,
         WorkerNext(v) \/ \E t \in Threads : ThreadNext(v, t)
  PROVE  OwnersWork'
<1> SUFFICES ASSUME phase' = "distributing" PROVE OwnersWork'
  BY DEF OwnersWork
<1>1. UNCHANGED <<masterVars, lost>>
  BY DEF WorkerNext, ThreadNext, HearMasterReady, HearAssignment, HearMasterFinished, CloseThreads,
         TakeWorkUnit, FinishWorkUnit
<1>2. ASSUME NEW w \in Workers, AtWork(w) PROVE AtWork(w)'
  <2>1. UNCHANGED <<call, phase>>
    BY <1>1 DEF masterVars
  <2>2. CASE HearMasterReady(v)
    <3>1. state[v] = "waiting" /\ \A x \in Workers \ {v} : UNCHANGED <<state[x], wcall[x], toMaster[x]>>
      BY <2>2 DEF HearMasterReady, Typed
    <3> QED BY <1>2, <2>1, <3>1 DEF AtWork
  <2>3. CASE HearAssignment(v)
    BY <1>2, <2>1, <2>3 DEF HearAssignment, AtWork
  <2>4. CASE HearMasterFinished(v)
    <3>1. Hear(v, "finished") /\ UNCHANGED <<wcall, toMaster>>
          /\ \A x \in Workers \ {v} : UNCHANGED state[x]
      BY <2>4 DEF HearMasterFinished, Typed
    <3>2. Head(toWorker[v]) \in ToSet(toWorker[v]) /\ Head(toWorker[v]).call = wcall[v]
          /\ Head(toWorker[v]).type = "finished"
      BY <3>1, HearIs
    <3>3. wcall[v] < call
      BY <2>1, <3>2 DEF Numbered, ToldSoFar
    <3>4. ~AtWork(v)
      BY <3>3, CallsAre DEF AtWork
    <3> QED BY <1>2, <2>1, <3>1, <3>4 DEF AtWork
  <2>5. CASE CloseThreads(v)
    <3>1. state[v] = "closing" /\ UNCHANGED toMaster
          /\ \A x \in Workers \ {v} : UNCHANGED <<state[x], wcall[x]>>
      BY <2>5 DEF CloseThreads, Typed, netVars
    <3> QED BY <1>2, <2>1, <3>1 DEF AtWork
  <2>6. ASSUME NEW t \in Threads, TakeWorkUnit(v, t) PROVE AtWork(w)'
    BY <1>2, <2>1, <2>6 DEF TakeWorkUnit, AtWork, netVars
  <2>7. ASSUME NEW t \in Threads, FinishWorkUnit(v, t) PROVE AtWork(w)'
    <3>1. /\ UNCHANGED <<state, wcall>>
          /\ ToSet(toMaster'[w]) \subseteq
               ToSet(toMaster[w]) \cup {Message("results", wcall[v], busy[v][t])}
      BY <2>7, FinishIs
    <3> QED BY <1>2, <2>1, <3>1 DEF AtWork, Message
  <2> QED BY <2>2, <2>3, <2>4, <2>5, <2>6, <2>7 DEF WorkerNext, ThreadNext
<1> QED BY <1>1, <1>2, OwnersWorkStays DEF masterVars, NeverLost, OwnersKept

LEMMA OwnersWorkStep ==
  ASSUME Typed, BooksSound, Ledger, Numbered, AskedOnce, OwnersWork, [Next]_vars
  PROVE  OwnersWork'
<1>1. CASE UNCHANGED vars
  BY <1>1 DEF vars, masterVars, workerVars, netVars, OwnersWork, AtWork, NeverLost
<1> QED BY <1>1, OwnersWorkByCalls, OwnersWorkByMaster, OwnersWorkByNetwork, OwnersWorkByWorker
        DEF Next, MasterNext

LEMMA OwnersWorkInit == Init => OwnersWork
BY DEF Init, OwnersWork
---------------------------------------------------------------------------
(* No unit is lost while no connection is. *)

Listing(m, u) == m.type = "assign" /\ m.call = call /\ u \in ToSet(m.what)
Done(m, u) == m.type = "results" /\ m.call = call /\ m.what = u
AtHand(w, u) ==
  /\ wcall[w] = call
  /\ (state[w] = "working" /\ u \in ToSet(todo[w])) \/ \E t \in Threads : busy[w][t] = u

\* What results of this call may still come from w
HeldNow(w, u) ==
  \/ AtHand(w, u)
  \/ \E m \in ToSet(toMaster[w]) : Done(m, u)
  \/ \E m \in ToSet(toWorker[w]) : Listing(m, u)

Dealt(w, u) == \E p \in ToSet(book.parts) : p.worker = w /\ u \in ToSet(p.units)

\* A machine holds what it held in this call, or what it is dealt in this step.
HeldStays ==
  \A w \in Workers, u \in Units : HeldNow(w, u)' =>
    \/ phase = "distributing" /\ HeldNow(w, u)
    \/ Dealt(w, u)'

LEMMA HeldByCalls ==
  ASSUME Typed, Numbered, StartCall, NEW w \in Workers, NEW u \in Units
  PROVE  ~HeldNow(w, u)'
<1>1. /\ call' = call + 1 /\ phase = "between" /\ call \in Nat /\ call' \in 0 .. NumCalls
      /\ UNCHANGED <<state, wcall, todo, busy, toMaster>>
  <2>1. call \in Nat
    BY CallsAre
  <2> QED BY <2>1, DistributeAssumption DEF StartCall, workerVars, threadVars, Typed
<1>2. ToldSoFar(w) /\ HeardSoFar(w) /\ InStep(w) /\ BusyInCall(w)
  BY DEF Numbered
<1>3. /\ \A m \in ToSet(toWorker[w]) : m.call # call'
      /\ \A m \in ToSet(toMaster[w]) : m.call # call'
  BY <1>1, <1>2, CallsAre DEF ToldSoFar, HeardSoFar
<1>4. ~AtHand(w, u)'
  <2>1. wcall[w] = call' => state[w] \notin {"working", "closing"}
    BY <1>1, <1>2 DEF InStep, Connected
  <2>2. u # None
    BY DistributeAssumption
  <2> QED BY <1>1, <1>2, <2>1, <2>2 DEF AtHand, BusyInCall
<1>5. \A m \in ToSet(toWorker'[w]) : ~Listing(m, u)'
  <2>1. Message("ready", call', <<>>) \in ToWorkerMsgs
    BY <1>1, MessagesTyped
  <2>2. ToSet(toWorker'[w]) \subseteq ToSet(toWorker[w]) \cup {Message("ready", call', <<>>)}
    BY <2>1, BroadcastIs DEF StartCall
  <2> QED BY <1>3, <2>2 DEF Listing, Message
<1>6. \A m \in ToSet(toMaster'[w]) : ~Done(m, u)'
  BY <1>1, <1>3 DEF Done
<1> QED BY <1>4, <1>5, <1>6 DEF HeldNow

LEMMA HeldByMaster ==
  ASSUME Typed, BooksSound, Ledger, NEW v \in Workers, OnWorkerReady(v) \/ OnResults(v)
  PROVE  HeldStays
<1> SUFFICES ASSUME NEW w \in Workers, NEW u \in Units, HeldNow(w, u)', ~HeldNow(w, u)
             PROVE  Dealt(w, u)'
  BY MasterMoves DEF HeldStays
<1>1. PICK x : Moved(x)
  BY MasterMoves
<1>2. /\ UNCHANGED <<call, state, wcall, todo, busy>>
      /\ ToSet(toMaster'[w]) \subseteq ToSet(toMaster[w])
  BY MasterMoves
<1>3. PICK m \in ToSet(toWorker'[w]) : Listing(m, u) /\ m \notin ToSet(toWorker[w])
  BY <1>2 DEF HeldNow, AtHand, Done, Listing
<1>4. PICK p \in ToSet(book'.parts) : p.worker = w /\ m = Message("assign", call, p.units)
  BY <1>1, <1>3, MovedIs
<1>5. u \in ToSet(p.units)
  BY <1>3, <1>4 DEF Listing, Message
<1> QED BY <1>4, <1>5 DEF Dealt

\* Every other step of a call leaves the book to the master.
LEMMA HeldByNetwork ==
  ASSUME Typed, Numbered, phase = "distributing", NEW v \in Workers, Join(v) \/ Disconnect(v)
  PROVE  HeldStays
<1> SUFFICES ASSUME NEW w \in Workers, NEW u \in Units, HeldNow(w, u)'
             PROVE  HeldNow(w, u)
  BY DEF HeldStays
<1>1. u # None
  BY DistributeAssumption
<1>2. CASE Join(v)
  <2>1. UNCHANGED <<call, todo, busy, toMaster>> /\ ~Connected(v)
    BY <1>2 DEF Join, masterVars, threadVars
  <2>2. \A x \in Workers \ {v} : UNCHANGED <<state[x], wcall[x], toWorker[x]>>
    BY <1>2 DEF Join, Typed
  <2>3. state'[v] = "waiting" /\ toWorker'[v] = Persistent
    BY <1>2 DEF Join, Typed
  <2>4. CASE w = v
    <3>1. \A t \in Threads : busy[v][t] # u
      BY <1>1, <2>1 DEF Numbered, BusyInCall, Connected
    <3>2. ~AtHand(v, u)'
      BY <2>1, <2>3, <3>1 DEF AtHand
    <3>3. \A m \in ToSet(toWorker'[v]) : m.type # "assign"
      BY <2>3, PersistentIs
    <3> QED BY <2>1, <2>4, <3>2, <3>3 DEF HeldNow, Listing, Done
  <2>5. CASE w # v
    BY <2>1, <2>2, <2>5 DEF HeldNow, AtHand, Listing, Done
  <2> QED BY <2>4, <2>5
<1>3. CASE Disconnect(v)
  <2>1. UNCHANGED <<call, wcall>>
    BY <1>3 DEF Disconnect
  <2>2. PICK arrived \in Prefixes(toMaster[v]) : toMaster' = [toMaster EXCEPT ![v] = arrived]
    BY <1>3 DEF Disconnect
  <2>3. ToSet(toMaster'[w]) \subseteq ToSet(toMaster[w])
    <3>1. ToSet(arrived) \subseteq ToSet(toMaster[v])
      BY <2>2, PrefixIs DEF Typed
    <3> QED BY <2>2, <3>1 DEF Typed
  <2>4. /\ toWorker'[w] = IF w = v THEN <<>> ELSE toWorker[w]
        /\ state'[w] = IF w = v THEN "gone" ELSE state[w]
        /\ todo'[w] = IF w = v THEN <<>> ELSE todo[w]
        /\ busy'[w] = IF w = v THEN [t \in Threads |-> None] ELSE busy[w]
    BY <1>3 DEF Disconnect, Typed
  <2>5. ToSet(<<>>) = {}
    BY DEF ToSet
  <2>6. AtHand(w, u)' => AtHand(w, u)
    BY <1>1, <2>1, <2>4 DEF AtHand
  <2>7. ToSet(toWorker'[w]) \subseteq ToSet(toWorker[w])
    BY <2>4, <2>5
  <2> QED BY <2>1, <2>3, <2>6, <2>7 DEF HeldNow, Listing, Done
<1> QED BY <1>2, <1>3

LEMMA HeldByThread ==
  ASSUME Typed, Numbered, phase = "distributing", NEW v \in Workers, NEW t \in Threads, ThreadNext(v, t)
  PROVE  HeldStays
<1> SUFFICES ASSUME NEW w \in Workers, NEW u \in Units, HeldNow(w, u)'
             PROVE  HeldNow(w, u)
  BY DEF HeldStays
<1>1. CASE TakeWorkUnit(v, t)
  <2>1. /\ state[v] = "working" /\ ToSet(todo[v]) = {Head(todo[v])} \cup ToSet(Tail(todo[v]))
        /\ UNCHANGED <<masterVars, state, wcall, netVars>>
        /\ todo'[w] = IF w = v THEN Tail(todo[v]) ELSE todo[w]
        /\ \/ UNCHANGED busy
           \/ \A s \in Threads : busy'[w][s] = IF w = v /\ s = t THEN Head(todo[v]) ELSE busy[w][s]
    BY <1>1, TakeIs
  <2>2. AtHand(w, u)' => AtHand(w, u)
    BY <2>1 DEF AtHand, masterVars
  <2> QED BY <2>1, <2>2 DEF HeldNow, Listing, Done, masterVars, netVars
<1>2. CASE FinishWorkUnit(v, t)
  <2> DEFINE m == Message("results", wcall[v], busy[v][t])
  <2>1. /\ UNCHANGED <<masterVars, state, wcall, todo, toWorker>>
        /\ \A s \in Threads : busy'[w][s] = IF w = v /\ s = t THEN None ELSE busy[w][s]
        /\ ToSet(toMaster'[w]) = ToSet(toMaster[w]) \cup (IF w = v THEN {m} ELSE {})
    BY <1>2, FinishIs
  <2>2. AtHand(w, u)' => AtHand(w, u)
    BY <2>1, DistributeAssumption DEF AtHand, masterVars
  <2>3. w = v /\ Done(m, u) => AtHand(w, u)
    BY DEF Done, AtHand, Message
  <2> HIDE DEF m
  <2>4. UNCHANGED call
    BY <2>1 DEF masterVars
  <2> QED BY <2>1, <2>2, <2>3, <2>4 DEF HeldNow, Listing, Done
<1> QED BY <1>1, <1>2 DEF ThreadNext

LEMMA HeldByWorker ==
  ASSUME Typed, Numbered, phase = "distributing", NEW v \in Workers, WorkerNext(v)
  PROVE  HeldStays
<1> SUFFICES ASSUME NEW w \in Workers, NEW u \in Units, HeldNow(w, u)'
             PROVE  HeldNow(w, u)
  BY DEF HeldStays
<1>1. CASE HearMasterReady(v)
  <2> DEFINE m == Message("workerReady", wcall[v], None)
  <2>1. /\ UNCHANGED <<call, wcall, busy>> /\ Hear(v, "ready")
        /\ toMaster' = [toMaster EXCEPT ![v] = Append(@, m)]
        /\ todo'[w] = IF w = v THEN <<>> ELSE todo[w]
        /\ state'[w] = IF w = v THEN "working" ELSE state[w]
    BY <1>1 DEF HearMasterReady, masterVars, Typed
  <2>2. ToSet(toWorker'[w]) \subseteq ToSet(toWorker[w])
    BY <2>1, HearIs
  <2>3. m \in ToMasterMsgs /\ m.type = "workerReady"
    <3>1. wcall[v] \in 0 .. NumCalls
      BY DEF Typed
    <3> QED BY <3>1, MessagesTyped DEF Message
  <2> HIDE DEF m
  <2>4. ToSet(toMaster'[w]) = ToSet(toMaster[w]) \cup (IF w = v THEN {m} ELSE {})
    BY <2>1, <2>3, TellIs
  <2>5. AtHand(w, u)' => AtHand(w, u)
    BY <2>1 DEF AtHand, ToSet
  <2> QED BY <2>1, <2>2, <2>3, <2>4, <2>5 DEF HeldNow, Listing, Done
<1>2. CASE HearAssignment(v)
  <2>1. /\ UNCHANGED <<call, state, wcall, busy, toMaster>> /\ Hear(v, "assign")
        /\ todo'[w] = IF w = v THEN Head(toWorker[v]).what ELSE todo[w]
    BY <1>2 DEF HearAssignment, masterVars, Typed
  <2>2. /\ ToSet(toWorker'[w]) \subseteq ToSet(toWorker[w])
        /\ Head(toWorker[v]) \in ToSet(toWorker[v]) /\ Head(toWorker[v]).call = wcall[v]
        /\ Head(toWorker[v]).type = "assign"
    BY <2>1, HearIs
  <2>3. AtHand(w, u)' => AtHand(w, u) \/ (w = v /\ Listing(Head(toWorker[v]), u))
    BY <2>1, <2>2 DEF AtHand, Listing
  <2> QED BY <2>1, <2>2, <2>3 DEF HeldNow, Listing, Done
<1>3. CASE HearMasterFinished(v)
  <2>1. /\ UNCHANGED <<call, wcall, todo, busy, toMaster>> /\ Hear(v, "finished")
        /\ state'[w] = IF w = v THEN "closing" ELSE state[w]
    BY <1>3 DEF HearMasterFinished, masterVars, threadVars, Typed
  <2>2. ToSet(toWorker'[w]) \subseteq ToSet(toWorker[w])
    BY <2>1, HearIs
  <2>3. AtHand(w, u)' => AtHand(w, u)
    BY <2>1 DEF AtHand
  <2> QED BY <2>1, <2>2, <2>3 DEF HeldNow, Listing, Done
<1>4. CASE CloseThreads(v)
  <2>1. UNCHANGED <<call, todo, busy, toWorker, toMaster>> /\ \A t \in Threads : busy[v][t] = None
    BY <1>4 DEF CloseThreads, masterVars, threadVars, netVars
  <2>2. /\ \A x \in Workers \ {v} : UNCHANGED <<state[x], wcall[x]>>
        /\ state'[v] \in {"waiting", "done"}
    BY <1>4 DEF CloseThreads, Typed
  <2>3. AtHand(w, u)' => AtHand(w, u)
    BY <2>1, <2>2, DistributeAssumption DEF AtHand
  <2> QED BY <2>1, <2>3 DEF HeldNow, Listing, Done
<1> QED BY <1>1, <1>2, <1>3, <1>4 DEF WorkerNext

LEMMA HeldStep ==
  ASSUME Typed, BooksSound, Ledger, Numbered, phase = "distributing", phase' # "between", [Next]_vars
  PROVE  HeldStays
<1>1. CASE UNCHANGED vars
  BY <1>1 DEF vars, masterVars, workerVars, threadVars, netVars, HeldStays, HeldNow, AtHand, Done, Listing
<1>2. CASE Next
  <2>1. ~(StartCall \/ FinishCall \/ StopCall)
    BY DEF StartCall, FinishCall, StopCall, EndCall
  <2> QED BY <1>2, <2>1, HeldByMaster, HeldByNetwork, HeldByThread, HeldByWorker DEF Next, MasterNext
<1> QED BY <1>1, <1>2

\* What a machine holds in a call has been dealt in it.
HeldAreDealt ==
  phase = "distributing" => \A w \in Workers, u \in Units : HeldNow(w, u) => u < book.past

\* In a call the books change by the master's moves and by losses only.
LEMMA BookKept ==
  ASSUME phase = "distributing", phase' # "between", [Next]_vars
  PROVE  \/ UNCHANGED <<phase, book>>
         \/ \E v \in Workers : OnWorkerReady(v) \/ OnResults(v)
         \/ phase' = phase /\ \E v \in Workers : Disconnect(v)
BY DEF Next, vars, masterVars, MasterNext, WorkerNext, ThreadNext, StartCall, FinishCall, StopCall, EndCall,
       Join, Disconnect, HearMasterReady, HearAssignment, HearMasterFinished, CloseThreads, TakeWorkUnit,
       FinishWorkUnit

LEMMA HeldAreDealtStep ==
  ASSUME Typed, BooksSound, Ledger, Numbered, HeldAreDealt, (BooksSound /\ Ledger)', [Next]_vars
  PROVE  HeldAreDealt'
<1> SUFFICES ASSUME phase' = "distributing", NEW w \in Workers, NEW u \in Units, HeldNow(w, u)'
             PROVE  u < book'.past
  BY DEF HeldAreDealt
<1>1. CASE phase = "distributing"
  <2>1. book.past \in Nat /\ book'.past \in Nat /\ book.past <= book'.past
    <3>1. book.past \in 0 .. NumUnits /\ book'.past \in 0 .. NumUnits
      BY DEF Ledger, IsBook
    <3>2. ASSUME NEW v \in Workers, OnWorkerReady(v) \/ OnResults(v)
          PROVE  book.past <= book'.past
      BY <3>2, MasterMoves DEF Moved
    <3>3. ASSUME NEW v \in Workers, Disconnect(v)
          PROVE  book.past = book'.past
      BY <3>3, LossMoves
    <3> QED BY <1>1, <3>1, <3>2, <3>3, BookKept
  <2>2. CASE HeldNow(w, u)
    <3>1. u < book.past /\ u \in Int
      BY <1>1, <2>2, PartitionAssumption DEF HeldAreDealt, Units
    <3> QED BY <2>1, <3>1
  <2>3. CASE Dealt(w, u)'
    <3>1. u \in book'.pending
      BY <2>3, PartsAre DEF Dealt, BooksSound, Good
    <3>2. u \in book'.first .. book'.past - 1
      BY <3>1 DEF Ledger, IsBook
    <3> QED BY <2>1, <3>2
  <2> QED BY <1>1, <2>2, <2>3, HeldStep DEF HeldStays
<1>2. CASE phase # "distributing"
  <2>1. StartCall
    BY <1>2 DEF Next, vars, masterVars, MasterNext, WorkerNext, ThreadNext, StartCall, FinishCall, StopCall,
       EndCall, Join, Disconnect, HearMasterReady, HearAssignment, HearMasterFinished, CloseThreads,
       TakeWorkUnit, FinishWorkUnit, OnWorkerReady, OnResults, Dispatch
  <2> QED BY <2>1, HeldByCalls
<1> QED BY <1>1, <1>2

\* No machine holds a unit of an abandoned or spare partition,
SparesUnheld ==
  \A w \in Workers, u \in Units : HeldNow(w, u) =>
    \A p \in ToSet(book.parts) : p.worker = Nobody => u \notin ToSet(p.units)

NoLoss ==
  NoneLost =>
    /\ phase # "down"
    /\ phase = "distributing" => book.pending \subseteq Listed(book.parts) /\ SparesUnheld

LEMMA SparesStay ==
  ASSUME Ledger, BooksSound', HeldStays, SparesUnheld, HeldAreDealt, phase = "distributing",
         FreeOrFresh(ToSet(book.parts), ToSet(book'.parts), book.past)
  PROVE  SparesUnheld'
<1> SUFFICES ASSUME NEW w \in Workers, NEW u \in Units, HeldNow(w, u)',
                    NEW p \in ToSet(book'.parts), p.worker = Nobody, u \in ToSet(p.units)
             PROVE  FALSE
  BY DEF SparesUnheld
<1>1. CASE HeldNow(w, u)
  <2>1. u < book.past
    BY <1>1 DEF HeldAreDealt
  <2>2. p \notin ToSet(book.parts)
    BY <1>1 DEF SparesUnheld
  <2>3. book.past <= u
    BY <2>2 DEF FreeOrFresh
  <2>4. u \in Int /\ book.past \in Int
    BY PartitionAssumption DEF Units, Ledger, IsBook
  <2> QED BY <2>1, <2>3, <2>4
<1>2. CASE Dealt(w, u)'
  <2>1. PICK q \in ToSet(book'.parts) : q.worker = w /\ u \in ToSet(q.units)
    BY <1>2 DEF Dealt
  <2>2. q = p
    BY <2>1, PartsAre DEF BooksSound, Apart
  <2> QED BY <2>1, <2>2, PartitionAssumption
<1> QED BY <1>1, <1>2 DEF HeldStays

\* A loss is not forgotten.
LEMMA LossesStay ==
  ASSUME Typed, [Next]_vars, NoneLost'
  PROVE  NoneLost /\ \A v \in Workers : ~Disconnect(v) /\ NeverLost(v)
<1>1. lost \in Seq(Workers)
  BY DEF Typed
<1>2. ASSUME NEW v \in Workers, Disconnect(v) PROVE FALSE
  <2>1. lost' = Append(lost, v) /\ Append(lost, v) # <<>>
    BY <1>1, <1>2 DEF Disconnect
  <2> QED BY <2>1 DEF NoneLost
<1>3. lost' = lost
  BY <1>2 DEF Next, vars, workerVars, MasterNext, WorkerNext, ThreadNext, StartCall, FinishCall, StopCall,
         EndCall, Join, OnWorkerReady, OnResults, HearMasterReady, HearAssignment, HearMasterFinished,
         CloseThreads, TakeWorkUnit, FinishWorkUnit
<1>4. ToSet(<<>>) = {}
  BY DEF ToSet
<1> QED BY <1>2, <1>3, <1>4 DEF NoneLost, NeverLost

LEMMA NoLossByReady ==
  ASSUME Typed, BooksSound, Ledger, HeldAreDealt, OwnersWork, NoLoss, NoneLost, BooksSound', HeldStays,
         \A w \in Workers : NeverLost(w),
         NEW v \in Workers, OnWorkerReady(v)
  PROVE  NoLoss'
<1>1. phase = "distributing" /\ phase' = phase /\ UNCHANGED <<call, lost>>
  BY DEF OnWorkerReady, Dispatch, workerVars
<1>2. book.pending \subseteq Listed(book.parts) /\ SparesUnheld
  BY <1>1 DEF NoLoss
<1>3. CASE Head(toMaster[v]).call = call
  <2>1. toMaster[v] \in Seq(ToMasterMsgs) /\ toMaster[v] # <<>> /\ Head(toMaster[v]).type = "workerReady"
    BY DEF Typed, OnWorkerReady, Dispatch
  <2>2. Head(toMaster[v]) \in ToSet(toMaster[v])
    BY <2>1, TailIs
  <2>3. ~AtWork(v)
    BY <1>3, <2>1, <2>2 DEF AtWork
  <2>4. OwnsNothing(book.parts, v)
    BY <1>1, <2>3 DEF OwnersWork, OwnsNothing
  <2>5. Moved(v) /\ book'.pending \subseteq Listed(book'.parts)
    BY <1>2, <1>3, <2>4, ReadyMoves
  <2>6. FreeOrFresh(ToSet(book.parts), ToSet(book'.parts), book.past)
    BY <2>5, PartitionAssumption DEF Moved
  <2>7. SparesUnheld'
    BY <1>1, <1>2, <2>6, SparesStay
  <2> QED BY <1>1, <2>5, <2>7 DEF NoLoss
<1>4. CASE Head(toMaster[v]).call # call
  <2>1. book' = book
    BY <1>4 DEF OnWorkerReady
  <2>2. FreeOrFresh(ToSet(book.parts), ToSet(book'.parts), book.past)
    BY <2>1 DEF FreeOrFresh
  <2>3. SparesUnheld'
    BY <1>1, <1>2, <2>2, SparesStay
  <2> QED BY <1>1, <1>2, <2>1, <2>3 DEF NoLoss
<1> QED BY <1>3, <1>4

LEMMA NoLossByResults ==
  ASSUME Typed, BooksSound, Ledger, HeldAreDealt, NoLoss, NoneLost, BooksSound', HeldStays,
         NEW v \in Workers, OnResults(v)
  PROVE  NoLoss' /\ Provided(book, book', Nobody)
<1> DEFINE m == Head(toMaster[v])
<1>1. phase = "distributing" /\ UNCHANGED <<call, lost>>
  BY DEF OnResults, Dispatch, workerVars
<1>2. book.pending \subseteq Listed(book.parts) /\ SparesUnheld
  BY <1>1 DEF NoLoss
<1>3. toMaster[v] \in Seq(ToMasterMsgs) /\ toMaster[v] # <<>> /\ m.type = "results"
  BY DEF Typed, OnResults, Dispatch
<1>4. m \in ToSet(toMaster[v]) /\ m \in ToMasterMsgs
  BY <1>3, TailIs
<1>5. toWorker = [w \in Workers |-> toWorker[w]]
  BY DEF Typed
<1>6. ASSUME m.call = call, NEW p \in ToSet(book.parts), p.worker = Nobody PROVE m.what \notin ToSet(p.units)
  <2>1. ToSet(p.units) \subseteq Units
    <3>1. p.units \in Seq(Units)
      BY PartsAre DEF BooksSound, PartType
    <3> QED BY <3>1, InList
  <2>2. CASE m.what \in Units
    <3>1. HeldNow(v, m.what)
      <4> HIDE DEF m
      <4> QED BY <1>3, <1>4, <1>6 DEF HeldNow, Done
    <3> QED BY <1>2, <1>6, <2>2, <3>1 DEF SparesUnheld
  <2> QED BY <2>1, <2>2
<1> HIDE DEF m
<1>7. m.call = call => \A p \in ToSet(book.parts) : p.worker = Nobody => m.what \notin ToSet(p.units)
  BY <1>6
<1>8. /\ phase' = phase /\ book'.pending \subseteq Listed(book'.parts)
      /\ \E x : x # Nobody /\ Moved(x)
      /\ Provided(book, book', Nobody)
  BY <1>2, <1>5, <1>7, ResultsMoveSafely DEF m
<1>9. FreeOrFresh(ToSet(book.parts), ToSet(book'.parts), book.past)
  BY <1>8 DEF Moved
<1>10. SparesUnheld'
  BY <1>1, <1>2, <1>9, SparesStay
<1> QED BY <1>1, <1>8, <1>10 DEF NoLoss

LEMMA NoLossStep ==
  ASSUME Typed, BooksSound, Ledger, Numbered, HeldAreDealt, OwnersWork, NoLoss, BooksSound', [Next]_vars
  PROVE  NoLoss'
<1> SUFFICES ASSUME NoneLost' PROVE NoLoss'
  BY DEF NoLoss
<1>1. NoneLost /\ \A v \in Workers : ~Disconnect(v) /\ NeverLost(v)
  BY LossesStay
<1>2. phase \in {"between", "distributing"}
  BY <1>1 DEF NoLoss, Typed
<1>3. CASE phase' = "between"
  BY <1>3 DEF NoLoss
<1>4. CASE phase = "between" /\ phase' # "between"
  <2>1. StartCall
    BY <1>4 DEF Next, vars, masterVars, MasterNext, WorkerNext, ThreadNext, StartCall, FinishCall, StopCall,
       EndCall, Join, Disconnect, HearMasterReady, HearAssignment, HearMasterFinished, CloseThreads,
       TakeWorkUnit, FinishWorkUnit, OnWorkerReady, OnResults, Dispatch
  <2>2. phase' = "distributing" /\ book'.pending = {} /\ ToSet(book'.parts) = {}
    BY <2>1 DEF StartCall, NoBook, ToSet
  <2> QED BY <2>2 DEF NoLoss, SparesUnheld
<1>5. CASE phase = "distributing" /\ phase' # "between"
  <2>1. HeldStays
    BY <1>5, HeldStep
  <2>2. CASE UNCHANGED <<phase, book>>
    <3>1. book.pending \subseteq Listed(book.parts) /\ SparesUnheld
      BY <1>1, <1>5 DEF NoLoss
    <3>2. SparesUnheld'
      BY <1>5, <2>1, <2>2, <3>1, SparesStay DEF FreeOrFresh
    <3> QED BY <1>5, <2>2, <3>1, <3>2 DEF NoLoss
  <2> QED BY <1>1, <1>5, <2>1, <2>2, BookKept, NoLossByReady, NoLossByResults
<1> QED BY <1>2, <1>3, <1>4, <1>5

LEMMA NoLossInit == Init => NoLoss
BY DEF Init, NoLoss

Accounted ==
  /\ Typed /\ BooksSound /\ Ledger /\ Numbered /\ AskedOnce
  /\ OwnersWork /\ HeldAreDealt /\ NoLoss

LEMMA AccountedInit == Init => Accounted
<1>1. Init => HeldAreDealt
  BY DEF Init, HeldAreDealt
<1> QED BY <1>1, TypedInit, LedgerInit, NumberedInit, OnceInit, OwnersWorkInit, NoLossInit DEF Accounted

LEMMA AccountedStep == Accounted /\ [Next]_vars => Accounted'
<1> SUFFICES ASSUME Accounted, [Next]_vars PROVE Accounted'
  OBVIOUS
<1>1. Typed /\ BooksSound /\ Ledger /\ Numbered /\ AskedOnce /\ OwnersWork /\ HeldAreDealt /\ NoLoss
  BY DEF Accounted
<1>2. (Typed /\ BooksSound)' /\ Ledger'
  BY <1>1, TypedStep, LedgerStep
<1>3. Numbered' /\ AskedOnce'
  BY <1>1, NumberedStep, OnceStep
<1>4. OwnersWork' /\ HeldAreDealt' /\ NoLoss'
  BY <1>1, <1>2, OwnersWorkStep, HeldAreDealtStep, NoLossStep
<1> QED BY <1>2, <1>3, <1>4 DEF Accounted

\* While no connection is lost, every unit dealt and not finished is in a partition
\* and the master never uses a partition it has deleted: for any machines, threads,
\* units and calls, whatever is on its way when work is handed over.
THEOREM NothingIsLost == Spec => []NothingLostWithoutDisconnect
<1>1. Accounted => NothingLostWithoutDisconnect
  BY DEF Accounted, NoLoss, NothingLostWithoutDisconnect
<1> QED BY <1>1, AccountedInit, AccountedStep, PTL DEF Spec, Safe
---------------------------------------------------------------------------
(* The units of an owner in the first call. *)

\* The last assignment on its way names u.
LastAssign(s, u) ==
  \E k \in 1 .. Len(s) :
    /\ s[k].type = "assign" /\ u \in ToSet(s[k].what)
    /\ \A j \in 1 .. Len(s) : j > k => s[j].type # "assign"
NoAssign(s) == \A m \in ToSet(s) : m.type # "assign"

Under(w, u) ==
  (\E t \in Threads : busy[w][t] = u) \/ (\E m \in ToSet(toMaster[w]) : Done(m, u))
Coming(w, u) ==
  LastAssign(toWorker[w], u) \/ (NoAssign(toWorker[w]) /\ u \in ToSet(todo[w]))

FirstCall == phase = "distributing" /\ call = 1

\* What counts is the list the worker will have when he has read all there is.
OwnersCover ==
  FirstCall => \A p \in ToSet(book.parts) : p.worker \in Workers /\ NeverLost(p.worker) =>
    \A u \in ToSet(p.units) : Under(p.worker, u) \/ Coming(p.worker, u)

\* What a worker takes for running he is at work on, or has told, or is finished.
RunningTold ==
  FirstCall => \A w \in Workers : NeverLost(w) =>
    \A t \in Threads, u \in Units : running[w][t] = u =>
      Under(w, u) \/ (u < book.past /\ u \notin book.pending)

LEMMA LastAppend ==
  ASSUME NEW s \in Seq(ToWorkerMsgs), NEW e \in ToWorkerMsgs, NEW u, e.type = "assign", u \in ToSet(e.what)
  PROVE  LastAssign(Append(s, e), u)
<1> DEFINE r == Append(s, e)
<1>1. Len(r) = Len(s) + 1 /\ Len(s) \in Nat /\ r[Len(s) + 1] = e
  BY AppendIs, InList
<1> HIDE DEF r
<1>2. Len(s) + 1 \in 1 .. Len(r) /\ \A j \in 1 .. Len(r) : ~(j > Len(s) + 1)
  BY <1>1
<1> QED BY <1>1, <1>2 DEF LastAssign, r

\* Reading one message
LEMMA LastTail ==
  ASSUME NEW s \in Seq(ToWorkerMsgs), s # <<>>, NEW u
  PROVE  /\ LastAssign(s, u) =>
              \/ LastAssign(Tail(s), u)
              \/ Head(s).type = "assign" /\ u \in ToSet(Head(s).what) /\ NoAssign(Tail(s))
         /\ NoAssign(s) => NoAssign(Tail(s)) /\ Head(s).type # "assign"
<1> DEFINE r == Tail(s)
<1>1. /\ Head(s) = s[1] /\ Head(s) \in ToSet(s) /\ ToSet(r) \subseteq ToSet(s)
      /\ r \in Seq(ToWorkerMsgs) /\ Len(r) = Len(s) - 1 /\ Len(s) \in Nat
      /\ \A k \in 1 .. Len(s) - 1 : r[k] = s[k + 1]
  BY TailIs
<1> HIDE DEF r
<1>2. \A m \in ToSet(r) : \E k \in 1 .. Len(r) : m = r[k]
  BY <1>1, InList
<1>3. \A k \in 1 .. Len(r) : k + 1 \in 1 .. Len(s) /\ r[k] = s[k + 1]
  BY <1>1
<1>4. ASSUME LastAssign(s, u)
      PROVE  \/ LastAssign(r, u)
             \/ Head(s).type = "assign" /\ u \in ToSet(Head(s).what) /\ NoAssign(r)
  <2>1. PICK k \in 1 .. Len(s) :
          /\ s[k].type = "assign" /\ u \in ToSet(s[k].what)
          /\ \A j \in 1 .. Len(s) : j > k => s[j].type # "assign"
    BY <1>4 DEF LastAssign
  <2>2. CASE k = 1
    <3>1. \A j \in 1 .. Len(r) : r[j].type # "assign"
      <4>1. \A j \in 1 .. Len(r) : j + 1 > 1
        OBVIOUS
      <4> QED BY <1>3, <2>1, <2>2, <4>1
    <3> QED BY <1>1, <1>2, <2>1, <2>2, <3>1 DEF NoAssign
  <2>3. CASE k # 1
    <3>1. k - 1 \in 1 .. Len(r) /\ r[k - 1] = s[k]
      BY <1>1, <2>3
    <3>2. \A j \in 1 .. Len(r) : j > k - 1 => r[j].type # "assign"
      <4>1. \A j \in 1 .. Len(r) : j > k - 1 => j + 1 > k
        OBVIOUS
      <4> QED BY <1>3, <2>1, <4>1
    <3> QED BY <2>1, <3>1, <3>2 DEF LastAssign
  <2> QED BY <2>2, <2>3
<1>5. NoAssign(s) => NoAssign(r) /\ Head(s).type # "assign"
  BY <1>1 DEF NoAssign
<1> QED BY <1>4, <1>5 DEF r

Covering == OwnersCover /\ RunningTold

\* Steps that leave the books alone, or take a partition from a lost worker
LEMMA CoverKept ==
  ASSUME Covering, FirstCall' => FirstCall, call' = call,
         \A p \in ToSet(book'.parts) : p.worker \in Workers => p \in ToSet(book.parts),
         book'.past = book.past, book'.pending = book.pending,
         \A w \in Workers : NeverLost(w)' =>
           /\ NeverLost(w)
           /\ \A u \in Units : Under(w, u) => Under(w, u)'
           /\ \A t \in Threads, u \in Units :
                running'[w][t] = u => running[w][t] = u \/ Under(w, u)',
         FirstCall =>
           \A p \in ToSet(book'.parts), u \in Units :
             p.worker \in Workers /\ NeverLost(p.worker)' /\ u \in ToSet(p.units)
             /\ Coming(p.worker, u) => (Under(p.worker, u) \/ Coming(p.worker, u))',
         BooksSound'
  PROVE  Covering'
<1> SUFFICES ASSUME FirstCall' PROVE Covering'
  BY DEF Covering, OwnersCover, RunningTold
<1>1. OwnersCover'
  <2> SUFFICES ASSUME NEW p \in ToSet(book'.parts), p.worker \in Workers, NeverLost(p.worker)',
                      NEW u \in ToSet(p.units)
               PROVE  (Under(p.worker, u) \/ Coming(p.worker, u))'
    BY DEF OwnersCover
  <2>1. u \in Units
    <3>1. p.units \in Seq(Units)
      BY PartsAre DEF BooksSound, PartType
    <3> QED BY <3>1, InList
  <2>2. Under(p.worker, u) \/ Coming(p.worker, u)
    BY DEF Covering, OwnersCover
  <2> QED BY <2>1, <2>2
<1>2. RunningTold'
  BY DEF Covering, RunningTold
<1> QED BY <1>1, <1>2 DEF Covering

LEMMA CoverByCalls ==
  ASSUME Typed, Numbered, StartCall \/ FinishCall \/ StopCall
  PROVE  Covering'
<1>1. CASE StartCall
  <2>1. ToSet(book'.parts) = {} /\ call' = call + 1 /\ UNCHANGED running
    BY <1>1 DEF StartCall, NoBook, ToSet, workerVars, threadVars
  <2>2. FirstCall' => call = 0
    BY <2>1, CallsAre DEF FirstCall
  <2>3. OwnersCover'
    BY <2>1 DEF OwnersCover
  <2>4. FirstCall' => \A w \in Workers : \A t \in Threads : running'[w][t] = None
    BY <2>1, <2>2 DEF Numbered, BusyInCall
  <2> QED BY <2>3, <2>4, DistributeAssumption DEF Covering, RunningTold
<1>2. CASE FinishCall \/ StopCall
  BY <1>2 DEF FinishCall, StopCall, EndCall, Covering, OwnersCover, RunningTold, FirstCall
<1> QED BY <1>1, <1>2

LEMMA CoverByMaster ==
  ASSUME Typed, BooksSound, Ledger, HeldAreDealt, Covering, (OwnersWork /\ Ledger /\ BooksSound)',
         NEW v \in Workers, OnWorkerReady(v) \/ OnResults(v)
  PROVE  Covering'
<1> SUFFICES ASSUME FirstCall' PROVE Covering'
  BY DEF Covering, OwnersCover, RunningTold
<1> DEFINE h == Head(toMaster[v])
<1>1. /\ phase = "distributing" /\ UNCHANGED <<call, state, wcall, todo, running, busy, lost>>
      /\ toMaster[v] # <<>> /\ toMaster' = [toMaster EXCEPT ![v] = Tail(@)]
  BY MasterMoves
<1>2. FirstCall
  BY <1>1 DEF FirstCall
<1>3. PICK x : Moved(x)
  BY MasterMoves
<1>4. /\ book.past <= book'.past
      /\ book'.pending \subseteq book.pending \cup (book.past .. book'.past - 1)
      /\ book.past \in Nat /\ book'.past \in Nat
  BY <1>3 DEF Moved, Ledger, IsBook
<1>5. toMaster[v] \in Seq(ToMasterMsgs) /\ ToSet(toMaster[v]) = {h} \cup ToSet(Tail(toMaster[v]))
  BY <1>1, TailIs DEF Typed
<1>6. ASSUME NEW w \in Workers, NEW u \in Units, Under(w, u), ~Under(w, u)'
      PROVE  w = v /\ Done(h, u)
  <2>1. w = v
    BY <1>1, <1>6 DEF Under, Done, Typed
  <2>2. toMaster'[v] = Tail(toMaster[v])
    BY <1>1 DEF Typed
  <2> HIDE DEF h
  <2> QED BY <1>1, <1>5, <1>6, <2>1, <2>2 DEF Under, Done
<1>7. ASSUME NEW w \in Workers, NEW u \in Units, Under(w, u), ~Under(w, u)'
      PROVE  u \notin book'.pending /\ u < book'.past
  <2>1. w = v /\ Done(h, u)
    BY <1>6, <1>7
  <2>2. HeldNow(v, u)
    BY <1>5, <2>1 DEF HeldNow
  <2>3. u < book.past /\ u \in Int
    BY <1>1, <2>2, PartitionAssumption DEF HeldAreDealt, Units
  <2>4. toWorker = [y \in Workers |-> toWorker[y]]
    BY DEF Typed
  <2>5. OnResults(v)
    BY <2>1 DEF Done, OnWorkerReady, Dispatch
  <2>6. phase' = "down" \/ u \notin book'.pending
    BY <2>1, <2>3, <2>4, <2>5, ResultsMove DEF Done
  <2> QED BY <1>4, <2>3, <2>6 DEF FirstCall
<1>8. OwnersCover'
  <2> SUFFICES ASSUME NEW p \in ToSet(book'.parts), p.worker \in Workers, NeverLost(p.worker)',
                      NEW u \in ToSet(p.units)
               PROVE  (Under(p.worker, u) \/ Coming(p.worker, u))'
    BY DEF OwnersCover
  <2>1. p.units \in Seq(Units) /\ u \in Units /\ u \in book'.pending
    <3>1. p.units \in Seq(Units) /\ ToSet(p.units) \subseteq book'.pending
      BY PartsAre DEF BooksSound, PartType, Good
    <3> QED BY <3>1, InList
  <2>2. Connected(p.worker)
    BY <1>1 DEF OwnersWork, AtWork, Connected, FirstCall
  <2>3. CASE Sent(p.worker, p.units)
    <3>1. toWorker[p.worker] \in Seq(ToWorkerMsgs) /\ call \in 0 .. NumCalls
      BY DEF Typed
    <3>2. Message("assign", call, p.units) \in ToWorkerMsgs
      BY <2>1, <3>1, MessagesTyped
    <3>3. LastAssign(toWorker'[p.worker], u)
      <4>1. Message("assign", call, p.units).type = "assign" /\ Message("assign", call, p.units).what = p.units
        BY DEF Message
      <4> QED BY <2>3, <3>1, <3>2, <4>1, LastAppend DEF Sent
    <3> QED BY <3>3 DEF Coming
  <2>4. CASE /\ toWorker'[p.worker] = toWorker[p.worker]
             /\ \E q \in ToSet(book.parts) :
                  q.worker = p.worker /\ ToSet(p.units) \subseteq ToSet(q.units)
    <3>1. NeverLost(p.worker)
      BY <1>1 DEF NeverLost
    <3>2. Under(p.worker, u) \/ Coming(p.worker, u)
      BY <1>2, <2>4, <3>1 DEF Covering, OwnersCover
    <3>3. Under(p.worker, u) => Under(p.worker, u)'
      BY <1>7, <2>1
    <3>4. Coming(p.worker, u) => Coming(p.worker, u)'
      BY <1>1, <2>4 DEF Coming
    <3> QED BY <3>2, <3>3, <3>4
  <2> QED BY <1>3, <2>2, <2>3, <2>4 DEF Moved
<1>9. RunningTold'
  <2> SUFFICES ASSUME NEW w \in Workers, NeverLost(w)', NEW t \in Threads, NEW u \in Units, running'[w][t] = u
               PROVE  Under(w, u)' \/ (u < book'.past /\ u \notin book'.pending)
    BY DEF RunningTold
  <2>1. Under(w, u) \/ (u < book.past /\ u \notin book.pending)
    BY <1>1, <1>2 DEF Covering, RunningTold, NeverLost
  <2>2. u \in Int
    BY PartitionAssumption DEF Units
  <2>3. CASE Under(w, u)
    BY <1>7, <2>3
  <2>4. CASE u < book.past /\ u \notin book.pending
    BY <1>4, <2>2, <2>4
  <2> QED BY <2>1, <2>3, <2>4
<1> QED BY <1>8, <1>9 DEF Covering

LEMMA UnderMore ==
  ASSUME call' = call, NEW w \in Workers, busy'[w] = busy[w], ToSet(toMaster[w]) \subseteq ToSet(toMaster'[w]),
         NEW u \in Units, Under(w, u)
  PROVE  Under(w, u)'
BY DEF Under, Done

LEMMA CoverByNetwork ==
  ASSUME Typed, BooksSound, Ledger, OwnersWork, Covering, (BooksSound /\ OwnersWork)', phase' # "between",
         NEW v \in Workers, Join(v) \/ Disconnect(v)
  PROVE  Covering'
<1>1. CASE Join(v)
  <2>1. UNCHANGED <<masterVars, threadVars, lost, toMaster>> /\ ~Connected(v)
    BY <1>1 DEF Join
  <2>2. UNCHANGED <<call, phase, book, busy, running, todo>>
    BY <2>1 DEF masterVars, threadVars
  <2>3. \A w \in Workers : NeverLost(w)' =>
          /\ NeverLost(w)
          /\ \A u \in Units : Under(w, u) => Under(w, u)'
          /\ \A t \in Threads, u \in Units :
               running'[w][t] = u => running[w][t] = u \/ Under(w, u)'
    BY <2>1, <2>2, UnderMore DEF NeverLost
  <2>4. ASSUME FirstCall, NEW p \in ToSet(book'.parts), NEW u \in Units, p.worker \in Workers,
               NeverLost(p.worker)', Coming(p.worker, u)
        PROVE  (Under(p.worker, u) \/ Coming(p.worker, u))'
    <3>1. p.worker # v
      BY <2>1, <2>2, <2>4 DEF OwnersWork, AtWork, Connected, FirstCall, NeverLost
    <3>2. toWorker'[p.worker] = toWorker[p.worker]
      BY <1>1, <2>4, <3>1 DEF Join, Typed
    <3> QED BY <2>2, <2>4, <3>2 DEF Coming
  <2> QED BY <2>2, <2>3, <2>4, CoverKept DEF FirstCall
<1>2. CASE Disconnect(v)
  <2>1. /\ UNCHANGED <<call, phase>>
        /\ lost \in Seq(Workers) /\ lost' = Append(lost, v)
    BY <1>2 DEF Disconnect, Typed
  <2>2. ToSet(lost') = ToSet(lost) \cup {v}
    BY <2>1, AppendIs
  <2>3. \A w \in Workers : NeverLost(w)' => NeverLost(w) /\ w # v
    BY <2>2 DEF NeverLost
  <2>4. \A w \in Workers \ {v} :
          /\ UNCHANGED <<busy[w], running[w], todo[w], toWorker[w], toMaster[w]>>
    BY <1>2 DEF Disconnect, Typed
  <2>5. \A w \in Workers : NeverLost(w)' =>
          /\ NeverLost(w)
          /\ \A u \in Units : Under(w, u) => Under(w, u)'
          /\ \A t \in Threads, u \in Units :
               running'[w][t] = u => running[w][t] = u \/ Under(w, u)'
    BY <2>1, <2>3, <2>4, UnderMore
  <2>6. ASSUME FirstCall, NEW p \in ToSet(book'.parts), NEW u \in Units, p.worker \in Workers,
               NeverLost(p.worker)', Coming(p.worker, u)
        PROVE  (Under(p.worker, u) \/ Coming(p.worker, u))'
    BY <2>3, <2>4, <2>6 DEF Coming
  <2>7. /\ book'.past = book.past /\ book'.pending = book.pending
        /\ \A p \in ToSet(book'.parts) : p \in ToSet(book.parts) \/ p.worker = Nobody
    BY <1>2, LossMoves
  <2>8. \A p \in ToSet(book'.parts) : p.worker \in Workers => p \in ToSet(book.parts)
    BY <2>7, PartitionAssumption
  <2> QED BY <2>1, <2>5, <2>6, <2>7, <2>8, CoverKept DEF FirstCall
<1> QED BY <1>1, <1>2

LEMMA CoverByThread ==
  ASSUME Typed, BooksSound, Ledger, Numbered, Covering, BooksSound',
         NEW v \in Workers, NEW t \in Threads, ThreadNext(v, t)
  PROVE  Covering'
<1> SUFFICES ASSUME FirstCall' PROVE Covering'
  BY DEF Covering, OwnersCover, RunningTold
<1>1. CASE TakeWorkUnit(v, t)
  <2> DEFINE h == Head(todo[v])
  <2>1. /\ todo[v] # <<>> /\ h \in Units /\ ToSet(todo[v]) = {h} \cup ToSet(Tail(todo[v]))
        /\ busy[v][t] = None
        /\ UNCHANGED <<masterVars, lost, netVars>>
        /\ \A w \in Workers : todo'[w] = IF w = v THEN Tail(todo[v]) ELSE todo[w]
        /\ \/ UNCHANGED <<running, busy>> /\ \E s \in Threads : running[v][s] = h
           \/ \A w \in Workers, s \in Threads :
                /\ running'[w][s] = IF w = v /\ s = t THEN h ELSE running[w][s]
                /\ busy'[w][s] = IF w = v /\ s = t THEN h ELSE busy[w][s]
    BY <1>1, TakeIs
  <2> HIDE DEF h
  <2>2. UNCHANGED <<call, phase, book, toWorker, toMaster>>
    BY <2>1 DEF masterVars, netVars
  <2>3. ASSUME NEW w \in Workers, NEW u \in Units, Under(w, u) PROVE Under(w, u)'
    <3>1. CASE UNCHANGED <<running, busy>>
      BY <2>2, <2>3, <3>1 DEF Under, Done
    <3>2. CASE \A s \in Threads : busy'[w][s] = IF w = v /\ s = t THEN h ELSE busy[w][s]
      <4>1. u # None
        BY DistributeAssumption
      <4>2. \A s \in Threads : busy[w][s] = u => busy'[w][s] = u
        BY <2>1, <3>2, <4>1
      <4> QED BY <2>2, <2>3, <4>2 DEF Under, Done
    <3> QED BY <2>1, <3>1, <3>2
  <2>4. ASSUME NEW w \in Workers, NEW s \in Threads, NEW u \in Units, running'[w][s] = u, running[w][s] # u
        PROVE  Under(w, u)'
    <3>1. w = v /\ s = t /\ u = h /\ busy'[w][s] = h
      BY <2>1, <2>4
    <3> QED BY <3>1 DEF Under
  <2>5. ASSUME FirstCall, NEW p \in ToSet(book'.parts), NEW u \in Units, p.worker \in Workers,
               NeverLost(p.worker)', u \in ToSet(p.units), Coming(p.worker, u)
        PROVE  (Under(p.worker, u) \/ Coming(p.worker, u))'
    <3>1. CASE p.worker = v /\ u = h
      <4>1. CASE UNCHANGED <<running, busy>> /\ \E s \in Threads : running[v][s] = h
        <5>1. u \in book.pending /\ NeverLost(v)
          BY <2>1, <2>2, <2>5, <3>1, PartsAre DEF BooksSound, Good, NeverLost
        <5>2. Under(v, u)
          BY <2>5, <3>1, <4>1, <5>1 DEF Covering, RunningTold
        <5> QED BY <2>3, <3>1, <5>2
      <4>2. CASE busy'[v][t] = h
        BY <3>1, <4>2 DEF Under
      <4> QED BY <2>1, <4>1, <4>2
    <3>2. CASE p.worker = v /\ u # h
      BY <2>1, <2>2, <2>5, <3>2 DEF Coming
    <3>3. CASE p.worker # v
      BY <2>1, <2>2, <2>5, <3>3 DEF Coming
    <3> QED BY <3>1, <3>2, <3>3
  <2> QED BY <2>1, <2>2, <2>3, <2>4, <2>5, CoverKept DEF FirstCall, NeverLost
<1>2. CASE FinishWorkUnit(v, t)
  <2> DEFINE m == Message("results", wcall[v], busy[v][t])
  <2>1. /\ state[v] \in {"working", "closing"}
        /\ UNCHANGED <<masterVars, todo, running, lost, toWorker>>
        /\ \A w \in Workers, s \in Threads : busy'[w][s] = IF w = v /\ s = t THEN None ELSE busy[w][s]
        /\ \A w \in Workers : ToSet(toMaster'[w]) = ToSet(toMaster[w]) \cup (IF w = v THEN {m} ELSE {})
    BY <1>2, FinishIs
  <2>2. UNCHANGED <<call, phase, book>>
    BY <2>1 DEF masterVars
  <2>3. wcall[v] = call
    <3>1. InStep(v) /\ Connected(v) /\ wcall[v] \in Nat
      BY <2>1, CallsAre DEF Numbered, Connected
    <3> QED BY <2>2, <3>1 DEF InStep, FirstCall
  <2>4. m.type = "results" /\ m.call = call /\ m.what = busy[v][t]
    BY <2>3 DEF Message
  <2> HIDE DEF m
  <2>5. ASSUME NEW w \in Workers, NEW u \in Units, Under(w, u) PROVE Under(w, u)'
    <3>1. CASE \E x \in ToSet(toMaster[w]) : Done(x, u)
      BY <2>1, <2>2, <3>1 DEF Under, Done
    <3>2. CASE \E s \in Threads : busy[w][s] = u
      <4>1. PICK s \in Threads : busy[w][s] = u
        BY <3>2
      <4>2. CASE w = v /\ s = t
        <5>1. m \in ToSet(toMaster'[w]) /\ m.what = u
          BY <2>1, <2>4, <4>1, <4>2
        <5>2. \E x \in ToSet(toMaster'[w]) : x.type = "results" /\ x.call = call' /\ x.what = u
          BY <2>2, <2>4, <5>1
        <5> QED BY <5>2 DEF Under, Done
      <4>3. CASE ~(w = v /\ s = t)
        BY <2>1, <4>1, <4>3 DEF Under
      <4> QED BY <4>2, <4>3
    <3> QED BY <2>5, <3>1, <3>2 DEF Under
  <2>6. ASSUME NEW w \in Workers, NEW u \in Units, Coming(w, u) PROVE Coming(w, u)'
    BY <2>1, <2>6 DEF Coming
  <2> QED BY <2>1, <2>2, <2>5, <2>6, CoverKept DEF FirstCall, NeverLost
<1> QED BY <1>1, <1>2 DEF ThreadNext

LEMMA CoverByWorker ==
  ASSUME Typed, BooksSound, Ledger, Numbered, OwnersWork, Covering, (BooksSound /\ OwnersWork)',
         NEW v \in Workers, WorkerNext(v)
  PROVE  Covering'
<1> SUFFICES ASSUME FirstCall' PROVE Covering'
  BY DEF Covering, OwnersCover, RunningTold
<1>1. UNCHANGED <<masterVars, running, busy, lost>>
  BY DEF WorkerNext, HearMasterReady, HearAssignment, HearMasterFinished, CloseThreads, threadVars
<1>2. UNCHANGED <<call, phase, book>>
  BY <1>1 DEF masterVars
<1>3. \A w \in Workers : ToSet(toMaster[w]) \subseteq ToSet(toMaster'[w])
  <2>1. CASE HearMasterReady(v)
    <3> DEFINE m == Message("workerReady", wcall[v], None)
    <3>1. toMaster' = [toMaster EXCEPT ![v] = Append(@, m)]
      BY <2>1 DEF HearMasterReady
    <3>2. m \in ToMasterMsgs
      <4>1. wcall[v] \in 0 .. NumCalls
        BY DEF Typed
      <4> QED BY <4>1, MessagesTyped
    <3> HIDE DEF m
    <3>3. \A w \in Workers : ToSet(toMaster'[w]) = ToSet(toMaster[w]) \cup (IF w = v THEN {m} ELSE {})
      BY <3>1, <3>2, TellIs
    <3> QED BY <3>3
  <2>2. CASE HearAssignment(v) \/ HearMasterFinished(v) \/ CloseThreads(v)
    BY <2>2 DEF HearAssignment, HearMasterFinished, CloseThreads, netVars
  <2> QED BY <2>1, <2>2 DEF WorkerNext
<1>4. \A w \in Workers, u \in Units : Under(w, u) => Under(w, u)'
  BY <1>1, <1>2, <1>3, UnderMore
<1>5. ASSUME FirstCall, NEW p \in ToSet(book'.parts), NEW u \in Units, p.worker \in Workers,
             NeverLost(p.worker)', Coming(p.worker, u)
      PROVE  Coming(p.worker, u)'
  <2> DEFINE w == p.worker
  <2>1. p \in ToSet(book.parts) /\ NeverLost(w)
    BY <1>1, <1>2, <1>5 DEF NeverLost
  <2>2. state[w] = "working" /\ state'[w] = "working"
    BY <1>2, <1>5, <2>1 DEF OwnersWork, AtWork, FirstCall
  <2>3. CASE HearMasterReady(v)
    <3>1. w # v
      BY <2>2, <2>3 DEF HearMasterReady
    <3>2. UNCHANGED <<todo[w], toWorker[w]>>
      BY <1>5, <2>3, <3>1 DEF HearMasterReady, Hear, Typed
    <3> QED BY <1>5, <3>2 DEF Coming
  <2>4. CASE HearMasterFinished(v)
    <3>1. w # v
      BY <2>2, <2>4 DEF HearMasterFinished, Typed
    <3>2. UNCHANGED <<todo[w], toWorker[w]>>
      BY <1>5, <2>4, <3>1 DEF HearMasterFinished, threadVars, Hear, Typed
    <3> QED BY <1>5, <3>2 DEF Coming
  <2>5. CASE CloseThreads(v)
    BY <1>5, <2>5 DEF CloseThreads, threadVars, netVars, Coming
  <2>6. CASE HearAssignment(v)
    <3>1. CASE w # v
      <4>1. UNCHANGED <<todo[w], toWorker[w]>>
        BY <1>5, <2>6, <3>1 DEF HearAssignment, Hear, Typed
      <4> QED BY <1>5, <4>1 DEF Coming
    <3>2. CASE w = v
      <4>1. Hear(v, "assign") /\ todo'[v] = Head(toWorker[v]).what
        BY <2>6 DEF HearAssignment, Typed
      <4>2. /\ toWorker[v] # <<>> /\ toWorker[v] \in Seq(ToWorkerMsgs)
            /\ Head(toWorker[v]).type = "assign" /\ toWorker'[v] = Tail(toWorker[v])
        BY <4>1, HearIs
      <4>3. \/ LastAssign(Tail(toWorker[v]), u)
            \/ u \in ToSet(Head(toWorker[v]).what) /\ NoAssign(Tail(toWorker[v]))
        BY <1>5, <3>2, <4>2, LastTail DEF Coming
      <4> QED BY <3>2, <4>1, <4>2, <4>3 DEF Coming
    <3> QED BY <3>1, <3>2
  <2> QED BY <2>3, <2>4, <2>5, <2>6 DEF WorkerNext
<1> QED BY <1>1, <1>2, <1>4, <1>5, CoverKept DEF FirstCall, NeverLost

LEMMA CoverStep ==
  ASSUME Typed, BooksSound, Ledger, Numbered, OwnersWork, HeldAreDealt, Covering,
         (Typed /\ BooksSound /\ Ledger /\ OwnersWork)', [Next]_vars
  PROVE  Covering'
<1>1. CASE UNCHANGED vars
  <2>1. UNCHANGED <<FirstCall, book, running, busy, todo, toWorker, toMaster, lost, call>>
    BY <1>1 DEF vars, masterVars, workerVars, threadVars, netVars, FirstCall
  <2> QED BY <2>1 DEF Covering, OwnersCover, RunningTold, NeverLost, Under, Coming, Done, FirstCall
<1>2. CASE StartCall \/ FinishCall \/ StopCall
  BY <1>2, CoverByCalls
<1>3. ASSUME NEW v \in Workers, OnWorkerReady(v) \/ OnResults(v) PROVE Covering'
  BY <1>3, CoverByMaster
<1>4. ASSUME NEW v \in Workers, Join(v) \/ Disconnect(v) PROVE Covering'
  <2>1. CASE phase' = "between"
    BY <2>1 DEF Covering, OwnersCover, RunningTold, FirstCall
  <2> QED BY <1>4, <2>1, CoverByNetwork
<1>5. ASSUME NEW v \in Workers, WorkerNext(v) PROVE Covering'
  BY <1>5, CoverByWorker
<1>6. ASSUME NEW v \in Workers, NEW t \in Threads, ThreadNext(v, t) PROVE Covering'
  BY <1>6, CoverByThread
<1> QED BY <1>1, <1>2, <1>3, <1>4, <1>5, <1>6 DEF Next, MasterNext

\* In the first call a worker who has never been lost has in hand, or on the way to
\* him, or on the way from him, every unit of the partition the master has down for
\* him, however often his list is replaced while results are under way.
THEOREM OwnersHold == Spec => []OwnersHoldTheirUnits
<1>1. Init => Accounted /\ Covering
  BY AccountedInit DEF Init, Covering, OwnersCover, RunningTold, FirstCall
<1>2. Accounted /\ Covering /\ [Next]_vars => (Accounted /\ Covering)'
  <2> SUFFICES ASSUME Accounted, Covering, [Next]_vars PROVE Accounted' /\ Covering'
    OBVIOUS
  <2>1. Accounted'
    BY AccountedStep
  <2> QED BY <2>1, CoverStep DEF Accounted
<1>3. Accounted /\ Covering => OwnersHoldTheirUnits
  <2> SUFFICES ASSUME Accounted, Covering, FirstCall, NEW i \in DOMAIN book.parts,
                      book.parts[i].worker \in Workers, NeverLost(book.parts[i].worker),
                      NEW u \in ToSet(book.parts[i].units)
               PROVE  HeldBy(book.parts[i].worker, u)
    BY DEF OwnersHoldTheirUnits, FirstCall
  <2> DEFINE w == book.parts[i].worker
  <2>1. Typed /\ book.parts \in Seq(PartType)
    BY DEF Accounted, BooksSound, Sound
  <2>2. book.parts[i] \in ToSet(book.parts)
    BY <2>1, InList
  <2>3. Under(w, u) \/ Coming(w, u)
    BY <2>2 DEF Covering, OwnersCover
  <2>4. toWorker[w] \in Seq(ToWorkerMsgs) /\ toMaster[w] \in Seq(ToMasterMsgs)
    BY <2>1 DEF Typed
  <2> HIDE DEF w
  <2>5. CASE Under(w, u)
    <3>1. ASSUME NEW m \in ToSet(toMaster[w]), Done(m, u) PROVE m = Message("results", call, u)
      <4>1. m \in ToMasterMsgs
        BY <2>4, InList
      <4> QED BY <3>1, <4>1 DEF Done, ToMasterMsgs, Message
    <3> QED BY <2>5, <3>1 DEF Under, HeldBy, w
  <2>6. CASE Coming(w, u)
    <3>1. \A k \in 1 .. Len(toWorker[w]) : toWorker[w][k] \in ToSet(toWorker[w])
      BY <2>4, InList
    <3> QED BY <2>6, <3>1 DEF Coming, LastAssign, HeldBy, w
  <2> QED BY <2>3, <2>5, <2>6 DEF w
<1> QED BY <1>1, <1>2, <1>3, PTL DEF Spec, Safe
---------------------------------------------------------------------------
(* The first call does not stall. *)

\* A machine at work owns units, or there are none but other owners'.
Served ==
  phase = "distributing" /\ NoneLost =>
    \A w \in Workers : AtWork(w) /\ OwnsNothing(book.parts, w) => Exhausted(book)

\* No machine comes to be at work in the call but the one that asks.
LEMMA ServedStays ==
  ASSUME Served, phase' = "distributing" => phase = "distributing", NoneLost' => NoneLost,
         NEW x \in Workers \cup {Nobody}, Provided(book, book', x),
         \A w \in Workers : w # x /\ AtWork(w)' => AtWork(w)
  PROVE  Served'
<1> SUFFICES ASSUME phase' = "distributing", NoneLost', NEW w \in Workers, AtWork(w)',
                    OwnsNothing(book'.parts, w), ~Exhausted(book')
             PROVE  FALSE
  BY DEF Served
<1>1. w # x /\ OwnsNothing(book.parts, w)
  BY DEF Provided
<1>2. Exhausted(book)
  BY <1>1 DEF Served
<1> QED BY <1>2 DEF Provided

LEMMA SameProvided ==
  ASSUME book' = book
  PROVE  Provided(book, book', Nobody)
BY PartitionAssumption DEF Provided

LEMMA ServedByMaster ==
  ASSUME Accounted, Served, BooksSound', NEW v \in Workers, OnWorkerReady(v) \/ OnResults(v)
  PROVE  Served'
<1> SUFFICES ASSUME NoneLost' PROVE Served'
  BY DEF Served
<1>1. /\ Typed /\ BooksSound /\ Ledger /\ Numbered /\ HeldAreDealt /\ NoLoss
      /\ phase = "distributing" /\ UNCHANGED <<call, state, wcall, lost>>
      /\ toMaster[v] # <<>> /\ toMaster' = [toMaster EXCEPT ![v] = Tail(@)]
  BY MasterMoves DEF Accounted
<1>2. NoneLost
  BY <1>1 DEF NoneLost
<1>3. toMaster[v] \in Seq(ToMasterMsgs) /\ toMaster'[v] = Tail(toMaster[v])
      /\ \A w \in Workers \ {v} : toMaster'[w] = toMaster[w]
  BY <1>1 DEF Typed
<1>4. \A m \in ToSet(toMaster[v]) : m = Head(toMaster[v]) \/ m \in ToSet(toMaster'[v])
  BY <1>1, <1>3, TailIs
<1>5. \A w \in Workers : w # v /\ AtWork(w)' => AtWork(w)
  BY <1>1, <1>3 DEF AtWork
<1>6. ASSUME ~(Head(toMaster[v]).type = "workerReady" /\ Head(toMaster[v]).call = call)
      PROVE  AtWork(v)' => AtWork(v)
  BY <1>1, <1>4, <1>6 DEF AtWork
<1>7. CASE OnResults(v)
  <2>1. [Next]_vars
    BY <1>7 DEF Next, MasterNext
  <2>2. phase' # "between"
    BY <1>1, <1>7 DEF OnResults, FirstResults, Receive, GoDown
  <2>3. HeldStays
    BY <1>1, <2>1, <2>2, HeldStep DEF Accounted
  <2>4. Provided(book, book', Nobody)
    BY <1>1, <1>2, <1>7, <2>3, NoLossByResults
  <2>5. AtWork(v)' => AtWork(v)
    BY <1>6, <1>7 DEF OnResults, Dispatch
  <2> QED BY <1>1, <1>2, <1>5, <2>4, <2>5, ServedStays
<1>8. CASE OnWorkerReady(v) /\ Head(toMaster[v]).call = call
  <2>1. Provided(book, book', v)
    BY <1>1, <1>8, ReadyMoves
  <2> QED BY <1>1, <1>2, <1>5, <2>1, ServedStays
<1>9. CASE OnWorkerReady(v) /\ Head(toMaster[v]).call # call
  <2>1. Provided(book, book', Nobody)
    BY <1>9, SameProvided DEF OnWorkerReady
  <2>2. AtWork(v)' => AtWork(v)
    BY <1>6, <1>9
  <2> QED BY <1>1, <1>2, <1>5, <2>1, <2>2, ServedStays
<1> QED BY <1>7, <1>8, <1>9

LEMMA ServedByWorker ==
  ASSUME Typed, Served, NEW v \in Workers, WorkerNext(v) \/ \E t \in Threads : ThreadNext(v, t)
  PROVE  Served'
<1>1. UNCHANGED <<masterVars, lost>>
  BY DEF WorkerNext, ThreadNext, HearMasterReady, HearAssignment, HearMasterFinished, CloseThreads,
         TakeWorkUnit, FinishWorkUnit
<1>2. UNCHANGED <<call, phase, book, lost>>
  BY <1>1 DEF masterVars
<1>3. \A w \in Workers \ {v} : UNCHANGED <<state[w], wcall[w], toMaster[w]>>
  <2>1. ASSUME NEW t \in Threads, FinishWorkUnit(v, t)
        PROVE  \A w \in Workers \ {v} : UNCHANGED <<state[w], wcall[w], toMaster[w]>>
    BY <2>1 DEF Typed, FinishWorkUnit
  <2>2. ASSUME NEW t \in Threads, TakeWorkUnit(v, t)
        PROVE  UNCHANGED <<state, wcall, toMaster>>
    BY <2>2 DEF TakeWorkUnit, netVars
  <2>3. CASE HearMasterReady(v)
    BY <2>3 DEF Typed, HearMasterReady
  <2>4. CASE HearAssignment(v)
    BY <2>4 DEF HearAssignment
  <2>5. CASE HearMasterFinished(v)
    BY <2>5 DEF Typed, HearMasterFinished
  <2>6. CASE CloseThreads(v)
    BY <2>6 DEF Typed, CloseThreads, netVars
  <2> QED BY <2>1, <2>2, <2>3, <2>4, <2>5, <2>6 DEF WorkerNext, ThreadNext
<1>4. \A w \in Workers : w # v /\ AtWork(w)' => AtWork(w)
  BY <1>2, <1>3 DEF AtWork
<1>5. toMaster[v] \in Seq(ToMasterMsgs) /\ wcall[v] \in 0 .. NumCalls
  BY DEF Typed
<1>6. AtWork(v)' => AtWork(v)
  <2>1. CASE HearMasterReady(v)
    <3> DEFINE m == Message("workerReady", wcall[v], None)
    <3>1. /\ toMaster' = [toMaster EXCEPT ![v] = Append(@, m)] /\ UNCHANGED wcall
      BY <2>1 DEF HearMasterReady
    <3>2. toMaster'[v] = Append(toMaster[v], m) /\ m \in ToMasterMsgs
      BY <1>5, <3>1, MessagesTyped DEF Typed
    <3>3. m \in ToSet(toMaster'[v]) /\ m.type = "workerReady" /\ m.call = wcall[v]
      <4>1. ToSet(toMaster'[v]) = ToSet(toMaster[v]) \cup {m}
        BY <1>5, <3>2, AppendIs
      <4> QED BY <4>1 DEF Message
    <3> HIDE DEF m
    <3> QED BY <3>1, <3>3 DEF AtWork
  <2>2. CASE HearAssignment(v) \/ \E t \in Threads : TakeWorkUnit(v, t)
    <3>1. UNCHANGED <<state, wcall, toMaster>>
      BY <2>2 DEF HearAssignment, TakeWorkUnit, netVars
    <3> QED BY <1>2, <3>1 DEF AtWork
  <2>3. CASE HearMasterFinished(v) \/ CloseThreads(v)
    <3>1. state'[v] # "working"
      BY <2>3 DEF HearMasterFinished, CloseThreads, Typed
    <3> QED BY <3>1 DEF AtWork
  <2>4. ASSUME NEW t \in Threads, FinishWorkUnit(v, t) PROVE AtWork(v)' => AtWork(v)
    <3>1. UNCHANGED <<state, wcall>> /\ ToSet(toMaster[v]) \subseteq ToSet(toMaster'[v])
      BY <1>5, <2>4, FinishIs
    <3> QED BY <1>2, <3>1 DEF AtWork
  <2> QED BY <2>1, <2>2, <2>3, <2>4 DEF WorkerNext, ThreadNext
<1> QED BY <1>2, <1>4, <1>6, SameProvided, ServedStays DEF NoneLost

LEMMA ServedStep ==
  ASSUME Accounted, Served, (Numbered /\ BooksSound)', [Next]_vars
  PROVE  Served'
<1>1. Typed /\ Numbered
  BY DEF Accounted
<1>2. CASE UNCHANGED vars
  <2>1. UNCHANGED <<phase, lost, state, wcall, call, toMaster, book>>
    BY <1>2 DEF vars, masterVars, workerVars, netVars
  <2> QED BY <2>1 DEF Served, NoneLost, AtWork
<1>3. CASE StartCall
  <2>1. call' = call + 1 /\ phase = "between" /\ UNCHANGED <<state, wcall>>
    BY <1>3 DEF StartCall, workerVars
  <2>2. \A w \in Workers : ~AtWork(w)'
    <3> SUFFICES ASSUME NEW w \in Workers, state[w] = "working", wcall[w] = call + 1 PROVE FALSE
      BY <2>1 DEF AtWork
    <3> QED BY <1>1 DEF Numbered, InStep, Connected
  <2> QED BY <2>2 DEF Served
<1>4. CASE FinishCall \/ StopCall
  BY <1>4 DEF FinishCall, StopCall, EndCall, Served
<1>5. ASSUME NEW v \in Workers, Join(v) PROVE Served'
  <2>1. /\ UNCHANGED <<masterVars, lost, toMaster>> /\ ~Connected(v)
        /\ state' = [state EXCEPT ![v] = "waiting"] /\ wcall' = [wcall EXCEPT ![v] = 1]
    BY <1>5 DEF Join
  <2>2. UNCHANGED <<call, phase, book>>
    BY <2>1 DEF masterVars
  <2>3. \A w \in Workers : AtWork(w)' => AtWork(w)
    BY <1>1, <2>1, <2>2 DEF AtWork, Typed
  <2> QED BY <2>1, <2>2, <2>3, SameProvided, ServedStays DEF NoneLost
<1>6. ASSUME NEW v \in Workers, Disconnect(v) PROVE Served'
  <2>1. ~NoneLost'
    BY <1>1, <1>6, LossesStay
  <2> QED BY <2>1 DEF Served
<1>7. ASSUME NEW v \in Workers, MasterNext(v) PROVE Served'
  BY <1>7, ServedByMaster DEF MasterNext
<1>8. ASSUME NEW v \in Workers, WorkerNext(v) \/ \E t \in Threads : ThreadNext(v, t) PROVE Served'
  BY <1>1, <1>8, ServedByWorker
<1> QED BY <1>2, <1>3, <1>4, <1>5, <1>6, <1>7, <1>8 DEF Next

\* What is on the way to a machine in the first call, from its k-th message on, is
\* assignments only.
Assigns(s, k) == \A j \in k .. Len(s) : s[j].type = "assign" /\ s[j].call = 1
Expected(w) ==
  /\ state[w] = "waiting" =>
       /\ Len(toWorker[w]) >= 1 /\ Assigns(toWorker[w], 2)
       /\ toWorker[w][1].type = "ready" /\ toWorker[w][1].call = 1
  /\ state[w] = "working" => Assigns(toWorker[w], 1)

\* A machine that waits in the first call will hear of it, and then of its work.
Heralded ==
  /\ call = 0 => \A w \in Workers : toWorker[w] = <<>> /\ state[w] \in {"absent", "waiting", "gone"}
  /\ FirstCall => \A w \in Workers : Expected(w)

LEMMA AssignsAppend ==
  ASSUME NEW s \in Seq(ToWorkerMsgs), NEW m \in ToWorkerMsgs, NEW k \in {1, 2}, Assigns(s, k),
         m.type = "assign", m.call = 1
  PROVE  Assigns(Append(s, m), k)
<1>1. /\ Len(Append(s, m)) = Len(s) + 1 /\ Len(s) \in Nat
      /\ \A j \in 1 .. Len(s) : Append(s, m)[j] = s[j]
      /\ Append(s, m)[Len(s) + 1] = m
  BY AppendIs
<1>2. \A j \in k .. Len(s) + 1 : (j \in k .. Len(s) /\ j \in 1 .. Len(s)) \/ j = Len(s) + 1
  BY <1>1
<1> QED BY <1>1, <1>2 DEF Assigns

LEMMA AssignsTail ==
  ASSUME NEW s \in Seq(ToWorkerMsgs), s # <<>>, NEW k \in {1, 2}, Assigns(s, k)
  PROVE  Assigns(Tail(s), 1)
<1>1. /\ Len(Tail(s)) = Len(s) - 1 /\ Len(s) \in Nat
      /\ \A j \in 1 .. Len(s) - 1 : Tail(s)[j] = s[j + 1]
  BY TailIs
<1>2. \A j \in 1 .. Len(s) - 1 : j + 1 \in k .. Len(s)
  BY <1>1
<1> QED BY <1>1, <1>2 DEF Assigns

\* Messages that come are assignments of the call.
LEMMA ExpectedMore ==
  ASSUME Typed, NEW w \in Workers, Expected(w), state'[w] = state[w],
         \/ toWorker'[w] = toWorker[w]
         \/ \E m \in ToWorkerMsgs : m.type = "assign" /\ m.call = 1 /\ toWorker'[w] = Append(toWorker[w], m)
  PROVE  Expected(w)'
<1>1. toWorker[w] \in Seq(ToWorkerMsgs)
  BY DEF Typed
<1>2. CASE toWorker'[w] = toWorker[w]
  BY <1>2 DEF Expected
<1>3. ASSUME NEW m \in ToWorkerMsgs, m.type = "assign", m.call = 1, toWorker'[w] = Append(toWorker[w], m)
      PROVE  Expected(w)'
  <2>1. /\ Len(Append(toWorker[w], m)) = Len(toWorker[w]) + 1 /\ Len(toWorker[w]) \in Nat
        /\ Len(toWorker[w]) >= 1 => Append(toWorker[w], m)[1] = toWorker[w][1]
    BY <1>1, AppendIs
  <2>2. \A k \in {1, 2} : Assigns(toWorker[w], k) => Assigns(Append(toWorker[w], m), k)
    BY <1>1, <1>3, AssignsAppend
  <2>3. state[w] = "waiting" => Len(toWorker[w]) + 1 >= 1
    BY <2>1
  <2> QED BY <1>3, <2>1, <2>2, <2>3 DEF Expected
<1> QED BY <1>2, <1>3

\* Before the first call no machine has heard anything.
LEMMA SilentFirst ==
  ASSUME Typed, Heralded, [Next]_vars, call' = 0
  PROVE  \A w \in Workers : toWorker'[w] = <<>> /\ state'[w] \in {"absent", "waiting", "gone"}
<1>1. ~StartCall
  BY DEF StartCall, Typed
<1>2. call = 0 /\ phase \in {"between"}
  <2>1. call = call'
    BY <1>1 DEF Next, vars, masterVars, MasterNext, WorkerNext, ThreadNext, FinishCall, StopCall,
       EndCall, Join, Disconnect, HearMasterReady, HearAssignment, HearMasterFinished, CloseThreads,
       TakeWorkUnit, FinishWorkUnit, OnWorkerReady, OnResults
  <2> QED BY <2>1 DEF Typed
<1>3. \A w \in Workers : toWorker[w] = <<>> /\ state[w] \in {"absent", "waiting", "gone"}
  BY <1>2 DEF Heralded
<1>4. CASE UNCHANGED vars
  BY <1>3, <1>4 DEF vars, workerVars, netVars
<1>5. ASSUME NEW v \in Workers, Join(v)
      PROVE \A w \in Workers : toWorker'[w] = <<>> /\ state'[w] \in {"absent", "waiting", "gone"}
  <2>1. Persistent = <<>>
    BY <1>2 DEF Persistent
  <2> QED BY <1>3, <1>5, <2>1 DEF Join, Typed
<1>6. ASSUME NEW v \in Workers, Disconnect(v)
      PROVE \A w \in Workers : toWorker'[w] = <<>> /\ state'[w] \in {"absent", "waiting", "gone"}
  BY <1>3, <1>6 DEF Disconnect, Typed
<1>7. ASSUME NEW v \in Workers PROVE ~MasterNext(v) /\ ~WorkerNext(v) /\ \A t \in Threads : ~ThreadNext(v, t)
  BY <1>2, <1>3 DEF MasterNext, WorkerNext, ThreadNext, OnWorkerReady, OnResults, Dispatch, HearMasterReady,
       HearAssignment, HearMasterFinished, Hear, CloseThreads, TakeWorkUnit, FinishWorkUnit
<1>8. ~FinishCall /\ ~StopCall
  BY <1>2 DEF FinishCall, StopCall
<1> QED BY <1>1, <1>4, <1>5, <1>6, <1>7, <1>8 DEF Next

LEMMA ExpectedByWorker ==
  ASSUME Accounted, FirstCall, NEW w \in Workers, Expected(w), (Typed /\ Numbered)', WorkerNext(w)
  PROVE  Expected(w)'
<1>1. /\ Typed /\ Numbered /\ toWorker[w] \in Seq(ToWorkerMsgs)
      /\ UNCHANGED <<call, phase>> /\ phase = "distributing" /\ call = 1
  BY DEF Accounted, Typed, FirstCall, WorkerNext, HearMasterReady, HearAssignment, HearMasterFinished,
         CloseThreads, masterVars
<1>2. CASE HearMasterReady(w)
  <2>1. state[w] = "waiting" /\ state'[w] = "working" /\ toWorker[w] # <<>> /\ toWorker'[w] = Tail(toWorker[w])
    BY <1>1, <1>2, HearIs DEF HearMasterReady, Typed
  <2>2. Assigns(Tail(toWorker[w]), 1)
    BY <1>1, <2>1, AssignsTail DEF Expected
  <2> QED BY <2>1, <2>2 DEF Expected
<1>3. CASE HearAssignment(w) \/ HearMasterFinished(w)
  <2>1. state[w] = "working" /\ state'[w] # "waiting" /\ toWorker[w] # <<>> /\ toWorker'[w] = Tail(toWorker[w])
    BY <1>1, <1>3, HearIs DEF HearAssignment, HearMasterFinished, Typed
  <2>2. Assigns(Tail(toWorker[w]), 1)
    BY <1>1, <2>1, AssignsTail DEF Expected
  <2> QED BY <2>1, <2>2 DEF Expected
<1>4. CASE CloseThreads(w)
  <2>1. state[w] = "closing"
    BY <1>4 DEF CloseThreads
  <2>2. InStep(w) /\ wcall[w] \in Int
    BY <1>1 DEF Numbered, Typed
  <2> QED BY <1>1, <2>1, <2>2 DEF InStep, Connected
<1> QED BY <1>2, <1>3, <1>4 DEF WorkerNext

LEMMA HeraldedStep ==
  ASSUME Accounted, Heralded, (Typed /\ Numbered)', [Next]_vars
  PROVE  Heralded'
<1>1. Typed /\ Numbered /\ BooksSound /\ Ledger
  BY DEF Accounted
<1>2. (call = 0)' => \A w \in Workers : toWorker'[w] = <<>> /\ state'[w] \in {"absent", "waiting", "gone"}
  BY <1>1, SilentFirst
<1> SUFFICES ASSUME FirstCall', NEW w \in Workers PROVE Expected(w)'
  BY <1>2 DEF Heralded
<1>3. CASE StartCall
  <2> DEFINE m == Message("ready", call', <<>>)
  <2>1. Broadcast(m) /\ UNCHANGED state /\ call' = 1 /\ call = 0
    BY <1>1, <1>3 DEF StartCall, workerVars, Typed, FirstCall
  <2>2. toWorker[w] = <<>> /\ state[w] \in {"absent", "waiting", "gone"}
    BY <2>1 DEF Heralded
  <2>3. m.type = "ready" /\ m.call = 1
    BY <2>1 DEF Message
  <2> HIDE DEF m
  <2>4. CASE state[w] = "waiting"
    <3>1. toWorker'[w] = <<m>>
      <4>1. toWorker'[w] = Append(<<>>, m)
        BY <2>1, <2>2, <2>4 DEF Broadcast, Connected
      <4>2. Append(<<>>, m) = <<m>>
        OBVIOUS
      <4> QED BY <4>1, <4>2
    <3>2. Len(<<m>>) = 1 /\ <<m>>[1] = m /\ 2 .. 1 = {}
      OBVIOUS
    <3>3. /\ state'[w] = "waiting" /\ Len(toWorker'[w]) = 1 /\ toWorker'[w][1] = m
          /\ Assigns(toWorker[w], 2)'
      BY <2>1, <2>4, <3>1, <3>2 DEF Assigns
    <3> QED BY <2>3, <3>3 DEF Expected
  <2> QED BY <2>1, <2>2, <2>4 DEF Expected
<1>4. CASE FinishCall \/ StopCall
  BY <1>4 DEF FinishCall, StopCall, EndCall, FirstCall
<1>5. ASSUME NEW v \in Workers, Join(v) PROVE Expected(w)'
  <2>1. /\ UNCHANGED masterVars
        /\ state' = [state EXCEPT ![v] = "waiting"] /\ toWorker' = [toWorker EXCEPT ![v] = Persistent]
    BY <1>5 DEF Join
  <2>2. FirstCall /\ Expected(w)
    BY <2>1 DEF masterVars, FirstCall, Heralded
  <2>3. /\ Len(Persistent) = 1 /\ Persistent[1].type = "ready" /\ Persistent[1].call = 1
    <3>1. Persistent = [k \in 1 .. 1 |-> IF k % 2 = 1 THEN Message("ready", (k + 1) \div 2, <<>>)
                                                     ELSE Message("finished", k \div 2, <<>>)]
      BY <2>2 DEF Persistent, FirstCall
    <3>2. Persistent[1] = Message("ready", (1 + 1) \div 2, <<>>) /\ Len(Persistent) = 1
      BY <3>1
    <3>3. (1 + 1) \div 2 = 1
      OBVIOUS
    <3> QED BY <3>2, <3>3 DEF Message
  <2>4. CASE w = v
    <3>1. toWorker'[w] = Persistent /\ state'[w] = "waiting"
      BY <1>1, <2>1, <2>4 DEF Typed
    <3>2. 2 .. 1 = {}
      OBVIOUS
    <3>3. Len(toWorker'[w]) = 1 /\ Assigns(toWorker[w], 2)'
      BY <2>3, <3>1, <3>2 DEF Assigns
    <3> QED BY <2>3, <3>1, <3>3 DEF Expected
  <2>5. CASE w # v
    <3>1. UNCHANGED <<state[w], toWorker[w]>>
      BY <2>1, <2>5
    <3> QED BY <2>2, <3>1 DEF Expected
  <2> QED BY <2>4, <2>5
<1>6. ASSUME NEW v \in Workers, Disconnect(v) PROVE Expected(w)'
  <2>1. /\ UNCHANGED <<call, phase>> /\ state'[v] = "gone"
        /\ w # v => UNCHANGED <<state[w], toWorker[w]>>
    BY <1>1, <1>6 DEF Typed, Disconnect
  <2> QED BY <2>1 DEF Expected, FirstCall, Heralded
<1>7. ASSUME NEW v \in Workers, MasterNext(v) PROVE Expected(w)'
  <2>1. phase = "distributing" /\ UNCHANGED <<call, state>> /\ \E x : Moved(x)
    BY <1>1, <1>7, MasterMoves DEF MasterNext
  <2>2. PICK x : Moved(x)
    BY <2>1
  <2>3. call = 1 /\ Expected(w)
    BY <2>1 DEF FirstCall, Heralded
  <2>4. \A units : Message("assign", call, units).type = "assign" /\ Message("assign", call, units).call = 1
    BY <2>3 DEF Message
  <2>5. \/ toWorker'[w] = toWorker[w]
        \/ \E m \in ToWorkerMsgs : m.type = "assign" /\ m.call = 1 /\ toWorker'[w] = Append(toWorker[w], m)
    BY <1>1, <2>2, <2>4, MovedIs DEF Sent
  <2> QED BY <1>1, <2>1, <2>3, <2>5, ExpectedMore
<1>8. ASSUME NEW v \in Workers, \E t \in Threads : ThreadNext(v, t) PROVE Expected(w)'
  <2>1. UNCHANGED <<masterVars, state, toWorker>>
    BY <1>8 DEF ThreadNext, TakeWorkUnit, FinishWorkUnit, netVars
  <2> QED BY <2>1 DEF masterVars, FirstCall, Expected, Heralded
<1>9. ASSUME NEW v \in Workers, WorkerNext(v) PROVE Expected(w)'
  <2>1. UNCHANGED <<call, phase>> /\ (w # v => UNCHANGED <<state[w], toWorker[w]>>)
    BY <1>1, <1>9 DEF Typed, WorkerNext, HearMasterReady, HearAssignment, HearMasterFinished, Hear,
                      CloseThreads, masterVars, netVars
  <2>2. FirstCall /\ Expected(w)
    BY <2>1 DEF FirstCall, Heralded
  <2>3. CASE w = v
    BY <1>9, <2>2, <2>3, ExpectedByWorker
  <2>4. CASE w # v
    BY <2>1, <2>2, <2>4 DEF Expected
  <2> QED BY <2>3, <2>4
<1>10. CASE UNCHANGED vars
  BY <1>10 DEF vars, masterVars, workerVars, netVars, FirstCall, Expected, Heralded
<1> QED BY <1>3, <1>4, <1>5, <1>6, <1>7, <1>8, <1>9, <1>10 DEF Next

\* What a machine or the master can do next in a call: the guards of Hear, of
\* TakeWorkUnit and FinishWorkUnit, and of Read
CanHear(w) ==
  /\ toWorker[w] # <<>> /\ Head(toWorker[w]).call = wcall[w]
  /\ \/ state[w] = "waiting" /\ Head(toWorker[w]).type = "ready"
     \/ state[w] = "working" /\ Head(toWorker[w]).type \in {"assign", "finished"}
CanRun(w, t) ==
  \/ state[w] = "working" /\ busy[w][t] = None /\ todo[w] # <<>>
  \/ state[w] \in {"working", "closing"} /\ busy[w][t] # None
CanRead(w) == toMaster[w] # <<>>

\* While no connection is lost and a machine is there, somebody can go on in the
\* first call until the last unit is finished: machines that went without work, or
\* lost theirs to a split, never leave a unit that nobody works on, and no machine
\* waits for a message that is behind another.
NeverStalls ==
  FirstCall /\ NoneLost /\ book.first < NumUnits /\ (\E w \in Workers : Connected(w)) =>
    \E w \in Workers : CanRead(w) \/ CanHear(w) \/ \E t \in Threads : CanRun(w, t)

LEMMA QuietIsFinished ==
  ASSUME Accounted, Covering, Served, Heralded
  PROVE  NeverStalls
<1> SUFFICES ASSUME FirstCall, NoneLost, book.first < NumUnits, NEW w \in Workers, Connected(w),
                    \A v \in Workers : ~CanRead(v) /\ ~CanHear(v) /\ \A t \in Threads : ~CanRun(v, t)
             PROVE  FALSE
  BY DEF NeverStalls
<1>1. Typed /\ BooksSound /\ Ledger /\ Numbered /\ OwnersWork /\ NoLoss /\ phase = "distributing" /\ call = 1
  BY DEF Accounted, FirstCall
<1>2. \A v \in Workers : NeverLost(v) /\ ToSet(toMaster[v]) = {}
  BY DEF NoneLost, NeverLost, CanRead, ToSet
<1>3. AtWork(w)
  <2>1. InStep(w) /\ wcall[w] \in Int /\ Expected(w) /\ toWorker[w] \in Seq(ToWorkerMsgs)
    BY <1>1 DEF Numbered, Typed, Heralded
  <2>2. wcall[w] = call
    <3>1. wcall[w] # call + 1
      BY <1>1, <2>1 DEF InStep
    <3> QED BY <1>1, <2>1, <3>1 DEF InStep
  <2>3. state[w] # "waiting"
    <3> SUFFICES ASSUME state[w] = "waiting" PROVE FALSE
      OBVIOUS
    <3>1. toWorker[w] # <<>> /\ Head(toWorker[w]) = toWorker[w][1]
      BY <2>1 DEF Expected
    <3> QED BY <1>1, <2>1, <2>2, <3>1 DEF Expected, CanHear
  <2>4. state[w] = "working"
    BY <1>1, <2>1, <2>2, <2>3 DEF InStep
  <2> QED BY <1>2, <2>2, <2>4 DEF AtWork
<1>4. ASSUME NEW v \in Workers, AtWork(v), NEW u \in Units PROVE ~Under(v, u) /\ ~Coming(v, u)
  <2>1. /\ toWorker[v] \in Seq(ToWorkerMsgs) /\ Assigns(toWorker[v], 1)
        /\ state[v] = "working" /\ wcall[v] = 1
    BY <1>1, <1>4 DEF Typed, Heralded, Expected, AtWork
  <2>2. toWorker[v] = <<>>
    <3> SUFFICES ASSUME toWorker[v] # <<>> PROVE FALSE
      OBVIOUS
    <3>1. Head(toWorker[v]) = toWorker[v][1] /\ 1 \in 1 .. Len(toWorker[v])
      BY <2>1
    <3> QED BY <2>1, <3>1 DEF Assigns, CanHear
  <2>3. \A t \in Threads : busy[v][t] = None
    BY <2>1 DEF CanRun
  <2>4. todo[v] = <<>>
    BY <2>1, <2>3, DistributeAssumption DEF CanRun
  <2>5. ~Under(v, u)
    BY <1>2, <2>3, DistributeAssumption DEF Under
  <2>6. ~Coming(v, u)
    <3>1. Len(toWorker[v]) = 0 /\ ToSet(todo[v]) = {}
      BY <2>2, <2>4 DEF ToSet
    <3> QED BY <3>1 DEF Coming, LastAssign
  <2> QED BY <2>5, <2>6
<1>5. ASSUME NEW p \in ToSet(book.parts) PROVE p.worker = Nobody
  <2>1. p \in PartType /\ p.units # <<>>
    BY <1>1, PartsAre DEF BooksSound, Good
  <2>2. p.units \in Seq(Units) /\ 1 \in 1 .. Len(p.units)
    BY <2>1 DEF PartType
  <2>3. p.units[1] \in Units /\ p.units[1] \in ToSet(p.units)
    BY <2>2, InList
  <2>4. CASE p.worker \in Workers
    <3>1. AtWork(p.worker)
      BY <1>1, <1>2, <2>4 DEF OwnersWork
    <3>2. Under(p.worker, p.units[1]) \/ Coming(p.worker, p.units[1])
      BY <1>2, <2>3, <2>4 DEF Covering, OwnersCover
    <3> QED BY <1>4, <2>3, <2>4, <3>1, <3>2
  <2> QED BY <2>1, <2>4 DEF PartType
<1>6. Exhausted(book)
  BY <1>1, <1>3, <1>5, PartitionAssumption DEF Served, OwnsNothing
<1>7. book.pending = {}
  <2>1. ToSet(book.parts) = {}
    BY <1>5, <1>6 DEF Exhausted, OwnsNothing
  <2>2. Listed(book.parts) = {}
    BY <2>1 DEF Listed
  <2> QED BY <1>1, <2>2 DEF NoLoss
<1> QED BY <1>1, <1>6, <1>7, PartitionAssumption DEF Ledger, IsBook, Exhausted

\* The first call of a compile does not stall: with no connection lost and a machine
\* there, somebody can go on as long as a unit is unfinished.  That something then
\* happens, and that it ends, is FirstCallFinishes.
THEOREM FirstCallNeverStalls == Spec => []NeverStalls
<1>1. Init => Accounted /\ Covering /\ Served /\ Heralded
  BY AccountedInit DEF Init, Covering, OwnersCover, RunningTold, FirstCall, Served, Heralded
<1>2. Accounted /\ Covering /\ Served /\ Heralded /\ [Next]_vars
        => (Accounted /\ Covering /\ Served /\ Heralded)'
  <2> SUFFICES ASSUME Accounted, Covering, Served, Heralded, [Next]_vars
               PROVE  Accounted' /\ Covering' /\ Served' /\ Heralded'
    OBVIOUS
  <2>1. Accounted'
    BY AccountedStep
  <2>2. (Typed /\ BooksSound /\ Ledger /\ OwnersWork /\ Numbered)'
    BY <2>1 DEF Accounted
  <2>3. Covering'
    BY <2>2, CoverStep DEF Accounted
  <2>4. Served' /\ Heralded'
    BY <2>2, ServedStep, HeraldedStep
  <2> QED BY <2>1, <2>3, <2>4
<1>3. Accounted /\ Covering /\ Served /\ Heralded => NeverStalls
  BY QuietIsFinished
<1> QED BY <1>1, <1>2, <1>3, PTL DEF Spec, Safe
===========================================================================
