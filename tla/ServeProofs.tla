----------------------------- MODULE ServeProofs -----------------------------
(***************************************************************************)
(* That the daemon loses no slot, counts every request once, shows         *)
(* consistent histograms, and gives true verdicts on the sums it sends,    *)
(* for any number of handlers, slots, buckets and requests, any messages,  *)
(* and whatever the servers hold of them.                                  *)
(***************************************************************************)
EXTENDS Serve, Least

Places     == {"idle", "gate", "body", "check", "report", "observe", "buckets", "count", "release"}
Entering   == {"gate", "body"}
Busy       == {"body", "check", "report", "observe", "buckets", "count", "release"}
Unobserved == {"gate", "body", "check", "report", "observe", "buckets", "count"}

At(S) == {h \in Handlers : pc[h] \in S}
N(S)  == Cardinality(At(S))

(* The types without the bounds that follow from the accounting.           *)
Types ==
  /\ pc \in [Handlers -> Places]
  /\ ask \in [Handlers -> Samples \cup {NoSample}]
  /\ \A h \in Handlers : pc[h] \in Kinds => ask[h] \in Samples
  /\ sem \in 0 .. MaxConc
  /\ lock \in Handlers \cup {Nobody, Scraper}
  /\ counter \in [Counters -> Nat]
  /\ bcounts \in [Buckets -> Nat] /\ count \in Nat /\ seen \in Snapshots
  /\ scrape \in 0 .. AtCount
  /\ srv \in [Listeners -> {"serving", "failed", "gone"}]
  /\ errc \in 0 .. Cardinality(Listeners) /\ main \in {"wait", "join", "exit"}
  /\ accepted \in 0 .. MaxRequests /\ scrapes \in 0 .. MaxScrapes
  /\ reported \in Nat /\ panicked \in Nat

(* The tokens in the channel are those of the handlers behind the gate.    *)
SlotsHeld == sem = N(Busy)

(* A request is counted by readBody and observed at most once.             *)
RequestsBound ==
  /\ counter["check"] + counter["report"] + N(Entering) <= accepted
  /\ count + N(Unobserved) <= accepted

LockHeld ==
  /\ \A h \in Handlers : lock = h <=> pc[h] \in {"buckets", "count"}
  /\ lock = Scraper <=> scrape > AtLock

(* Between its two halves an observation is ahead in the buckets only.     *)
Histogram ==
  /\ \A b \in Buckets : bcounts[b] <= count + 1
  /\ (\A h \in Handlers : pc[h] # "count") => \A b \in Buckets : bcounts[b] <= count
  /\ \A b, d \in Buckets : b <= d => bcounts[b] <= bcounts[d]

(* What a scrape has read under the lock is what still stands there.       *)
SeenStands ==
  /\ \A b \in Buckets : AtBucket(b) < scrape => seen.bcounts[b] = bcounts[b]
  /\ scrape <= AtLock =>
       /\ \A b \in Buckets : seen.bcounts[b] <= seen.count
       /\ \A b, d \in Buckets : b <= d => seen.bcounts[b] <= seen.bcounts[d]

IInv == /\ Types /\ SlotsHeld /\ RequestsBound /\ EveryRequestCounted
        /\ LockHeld /\ Histogram /\ SeenStands

-----------------------------------------------------------------------------
(* Sets of handlers are finite, and empty only if nobody is there.         *)
LEMMA CountTypes ==
  ASSUME NEW S PROVE IsFiniteSet(At(S)) /\ N(S) \in Nat /\ (N(S) = 0 <=> At(S) = {})
BY NamesAssumption, FS_Subset, FS_CardinalityType, FS_EmptySet, At(S) \in SUBSET Handlers DEF At, N

(* A handler that moves leaves the sets it was in, and joins others.       *)
LEMMA Moves ==
  ASSUME pc \in [Handlers -> Places], NEW h \in Handlers,
         NEW from \in Places, NEW to \in Places, Goto(h, from, to), NEW S
  PROVE  /\ from \in S /\ to \notin S => N(S)' = N(S) - 1 /\ N(S) > 0
         /\ from \notin S /\ to \in S => N(S)' = N(S) + 1
         /\ (from \in S <=> to \in S) => N(S)' = N(S)
<1>1. /\ pc' \in [Handlers -> Places] /\ pc[h] = from /\ pc'[h] = to
      /\ \A k \in Handlers \ {h} : pc'[k] = pc[k]
  BY DEF Goto
<1>2. IsFiniteSet(At(S)) /\ N(S) \in Nat /\ (N(S) = 0 <=> At(S) = {})
  BY CountTypes
<1>3. CASE from \in S /\ to \notin S
  <2>1. At(S)' = At(S) \ {h} /\ h \in At(S)
    BY <1>1, <1>3 DEF At
  <2>2. N(S)' = N(S) - 1
    BY <1>2, <2>1, FS_RemoveElement DEF N
  <2> QED BY <1>2, <1>3, <2>1, <2>2
<1>4. CASE from \notin S /\ to \in S
  <2>1. At(S)' = At(S) \cup {h} /\ h \notin At(S)
    BY <1>1, <1>4 DEF At
  <2> QED BY <1>2, <1>4, <2>1, FS_AddElement DEF N
<1>5. CASE from \in S <=> to \in S
  <2>1. At(S)' = At(S)
    BY <1>1, <1>5 DEF At
  <2> QED BY <1>5, <2>1 DEF N
<1> QED BY <1>3, <1>4, <1>5

(* The accounting keeps every counter within the number of requests.       *)
LEMMA BoundsHold == IInv => TypeOK /\ \A b \in Buckets : bcounts[b] <= MaxRequests
<1> SUFFICES ASSUME IInv PROVE TypeOK /\ \A b \in Buckets : bcounts[b] <= MaxRequests
  OBVIOUS
<1> USE DEF IInv, Types
<1>1. N(Entering) \in Nat /\ N(Unobserved) \in Nat /\ N(Kinds) \in Nat
  BY CountTypes
<1>2. MaxRequests \in Nat /\ accepted \in Nat /\ accepted <= MaxRequests
  BY SizesAssumption
<1>3. \A c \in Counters : counter[c] \in Nat
  OBVIOUS
<1>4. /\ counter["check"] \in Nat /\ counter["report"] \in Nat /\ counter["error"] \in Nat
      /\ counter["reject"] \in Nat /\ counter["accept"] \in Nat /\ counter["unknown"] \in Nat
  BY <1>3 DEF Counters, Kinds, Verdicts
<1>5. counter["check"] + counter["report"] <= MaxRequests
  BY <1>1, <1>2, <1>4 DEF RequestsBound
<1>6. /\ counter["error"] <= MaxRequests /\ counter["reject"] <= MaxRequests
      /\ counter["accept"] <= MaxRequests /\ counter["unknown"] <= MaxRequests
      /\ reported <= MaxRequests /\ panicked <= MaxRequests
      /\ counter["check"] <= MaxRequests /\ counter["report"] <= MaxRequests
  BY <1>1, <1>2, <1>4, <1>5 DEF EveryRequestCounted, N, At
<1>7. counter \in [Counters -> 0 .. MaxRequests]
  BY <1>2, <1>3, <1>6 DEF Counters, Kinds, Verdicts
<1>8. count <= MaxRequests
  BY <1>1, <1>2 DEF RequestsBound
<1>9. \A b \in Buckets : bcounts[b] <= MaxRequests
  <2>1. CASE \A h \in Handlers : pc[h] # "count"
    BY <1>2, <1>8, <2>1 DEF Histogram
  <2>2. CASE ~ \A h \in Handlers : pc[h] # "count"
    <3>1. At(Unobserved) # {}
      BY <2>2 DEF At, Unobserved
    <3>2. N(Unobserved) > 0
      BY <1>1, <3>1, CountTypes
    <3>3. count + 1 <= MaxRequests
      BY <1>1, <1>2, <3>2 DEF RequestsBound
    <3> QED BY <1>2, <3>3 DEF Histogram
  <2> QED BY <2>1, <2>2
<1>10. [bcounts |-> bcounts, count |-> count] \in Snapshots
  BY <1>2, <1>8, <1>9 DEF Snapshots
<1>11. pc \in [Handlers -> {"idle", "gate", "body", "check", "report", "observe", "buckets", "count", "release"}]
  BY DEF Places
<1>12. TypeOK
  BY <1>2, <1>6, <1>7, <1>10, <1>11 DEF TypeOK
<1> QED BY <1>9, <1>12

(* What a move changes of the four sets that are counted.                  *)
LEMMA MovesCounted ==
  ASSUME IInv, NEW h \in Handlers, NEW from \in Places, NEW to \in Places, Goto(h, from, to)
  PROVE  /\ pc[h] = from /\ pc'[h] = to /\ pc' \in [Handlers -> Places]
         /\ \A k \in Handlers \ {h} : pc'[k] = pc[k]
         /\ \A S \in {Busy, Entering, Unobserved, Kinds} :
              /\ N(S) \in Nat /\ N(S)' \in Nat
              /\ from \in S /\ to \notin S => N(S)' = N(S) - 1
              /\ from \notin S /\ to \in S => N(S)' = N(S) + 1
              /\ (from \in S <=> to \in S) => N(S)' = N(S)
<1>1. pc \in [Handlers -> Places]
  BY DEF IInv, Types
<1>2. pc[h] = from /\ pc' \in [Handlers -> Places] /\ pc'[h] = to
  BY <1>1 DEF Goto
<1>3. \A k \in Handlers \ {h} : pc'[k] = pc[k]
  BY <1>1 DEF Goto
<1>4. ASSUME NEW S
      PROVE  /\ N(S) \in Nat /\ N(S)' \in Nat
             /\ from \in S /\ to \notin S => N(S)' = N(S) - 1
             /\ from \notin S /\ to \in S => N(S)' = N(S) + 1
             /\ (from \in S <=> to \in S) => N(S)' = N(S)
  BY <1>1, Moves, CountTypes
<1> QED BY <1>2, <1>3, <1>4

(* A handler that neither takes nor gives the mutex leaves what it guards. *)
LEMMA MutexKept ==
  ASSUME IInv, NEW h \in Handlers,
         NEW from \in Places \ {"buckets", "count"}, NEW to \in Places \ {"buckets", "count"},
         Goto(h, from, to), UNCHANGED <<bcounts, count, lock, scrape, seen>>
  PROVE  LockHeld' /\ Histogram' /\ SeenStands'
<1>1. /\ pc[h] = from /\ pc'[h] = to
      /\ \A k \in Handlers \ {h} : pc'[k] = pc[k]
  BY MovesCounted
<1>2. LockHeld'
  BY <1>1 DEF IInv, LockHeld
<1>3. Histogram'
  BY <1>1 DEF IInv, Histogram
<1>4. SeenStands'
  BY DEF IInv, SeenStands
<1> QED BY <1>2, <1>3, <1>4

LEMMA AcceptKeeps == ASSUME IInv, NEW h \in Handlers, Accept(h) PROVE IInv'
<1> USE DEF IInv
<1>1. PICK to \in {"gate", "idle"} : Goto(h, "idle", to)
  BY DEF Accept
<1>2. /\ accepted < MaxRequests /\ accepted' = accepted + 1
      /\ UNCHANGED <<ask, sem, metrics, lock, scrape, seen, listen, scrapes, reported, panicked>>
  BY DEF Accept
<1>3. /\ pc' \in [Handlers -> Places] /\ \A k \in Handlers : pc'[k] \in Kinds => pc[k] \in Kinds
      /\ N(Busy)' = N(Busy) /\ N(Kinds)' = N(Kinds)
      /\ N(Entering)' \in {N(Entering), N(Entering) + 1} /\ N(Unobserved)' \in {N(Unobserved), N(Unobserved) + 1}
      /\ N(Entering) \in Nat /\ N(Unobserved) \in Nat
  BY <1>1, MovesCounted DEF Places, Busy, Entering, Unobserved, Kinds
<1>4. Types'
  BY <1>2, <1>3, SizesAssumption DEF Types, listen, metrics
<1>5. SlotsHeld'
  BY <1>2, <1>3 DEF SlotsHeld
<1>6. RequestsBound'
  <2>1. counter["check"] \in Nat /\ counter["report"] \in Nat /\ count \in Nat /\ accepted \in Nat
    BY SizesAssumption DEF Types, Counters, Kinds
  <2> QED BY <1>2, <1>3, <2>1 DEF RequestsBound, metrics
<1>7. EveryRequestCounted'
  BY <1>2, <1>3 DEF EveryRequestCounted, N, At, metrics
<1>8. LockHeld' /\ Histogram' /\ SeenStands'
  BY <1>1, <1>2, MutexKept DEF Places, metrics
<1> QED BY <1>4, <1>5, <1>6, <1>7, <1>8

(* The gate counts the handlers behind it.                                 *)
LEMMA GateKeeps == ASSUME IInv, NEW h \in Handlers, Gate(h) PROVE IInv'
<1> USE DEF IInv
<1>1. UNCHANGED <<ask, metrics, lock, scrape, seen, listen, hist>>
  BY DEF Gate
<1>2. PICK to \in {"body", "idle"} :
        /\ Goto(h, "gate", to)
        /\ sem' = IF to = "body" THEN sem + 1 ELSE sem
        /\ to = "body" => sem < MaxConc
  BY DEF Gate
<1>3. /\ pc' \in [Handlers -> Places] /\ \A k \in Handlers : pc'[k] \in Kinds => pc[k] \in Kinds
      /\ N(Busy)' = (IF to = "body" THEN N(Busy) + 1 ELSE N(Busy)) /\ N(Kinds)' = N(Kinds)
      /\ N(Entering)' \in {N(Entering), N(Entering) - 1} /\ N(Unobserved)' \in {N(Unobserved), N(Unobserved) - 1}
      /\ N(Entering) \in Nat /\ N(Unobserved) \in Nat
  BY <1>2, MovesCounted DEF Places, Busy, Entering, Unobserved, Kinds
<1>4. Types'
  BY <1>1, <1>2, <1>3, SizesAssumption DEF Types, listen, metrics, hist
<1>5. SlotsHeld'
  BY <1>2, <1>3 DEF SlotsHeld
<1>6. RequestsBound'
  <2>1. counter["check"] \in Nat /\ counter["report"] \in Nat /\ count \in Nat /\ accepted \in Nat
    BY SizesAssumption DEF Types, Counters, Kinds
  <2> QED BY <1>1, <1>3, <2>1 DEF RequestsBound, metrics, hist
<1>7. EveryRequestCounted'
  BY <1>1, <1>3 DEF EveryRequestCounted, N, At, metrics, hist
<1>8. LockHeld' /\ Histogram' /\ SeenStands'
  BY <1>1, <1>2, MutexKept DEF Places, metrics
<1> QED BY <1>4, <1>5, <1>6, <1>7, <1>8

(* A request that is counted goes to the DCC client.                       *)
LEMMA BodyKeeps == ASSUME IInv, NEW h \in Handlers, Body(h) PROVE IInv'
<1> USE DEF IInv
<1>1. UNCHANGED <<sem, bcounts, count, lock, scrape, seen, listen, hist>>
  BY DEF Body
<1>2. /\ counter \in [Counters -> Nat] /\ count \in Nat /\ accepted \in Nat
      /\ counter["check"] \in Nat /\ counter["report"] \in Nat /\ counter["error"] \in Nat
      /\ counter["reject"] \in Nat /\ counter["accept"] \in Nat /\ counter["unknown"] \in Nat
  BY SizesAssumption DEF Types, Counters, Kinds, Verdicts
<1>3. CASE Goto(h, "body", "observe") /\ UNCHANGED <<counter, ask>>
  <2>1. /\ pc' \in [Handlers -> Places] /\ \A k \in Handlers : pc'[k] \in Kinds => pc[k] \in Kinds
        /\ N(Busy)' = N(Busy) /\ N(Kinds)' = N(Kinds)
        /\ N(Entering)' = N(Entering) - 1 /\ N(Unobserved)' = N(Unobserved)
        /\ N(Entering) \in Nat /\ N(Unobserved) \in Nat
    BY <1>3, MovesCounted DEF Places, Busy, Entering, Unobserved, Kinds
  <2>2. Types'
    BY <1>1, <1>3, <2>1 DEF Types, listen, hist
  <2>3. SlotsHeld' /\ RequestsBound'
    BY <1>1, <1>2, <1>3, <2>1 DEF SlotsHeld, RequestsBound, hist
  <2>4. EveryRequestCounted'
    BY <1>1, <1>3, <2>1 DEF EveryRequestCounted, N, At, hist
  <2>5. LockHeld' /\ Histogram' /\ SeenStands'
    BY <1>1, <1>3, MutexKept DEF Places
  <2> QED BY <2>2, <2>3, <2>4, <2>5
<1>4. CASE \E k \in Kinds, m \in Samples : Goto(h, "body", k) /\ Inc(k) /\ ask' = [ask EXCEPT ![h] = m]
  <2>1. PICK k \in Kinds, m \in Samples : Goto(h, "body", k) /\ Inc(k) /\ ask' = [ask EXCEPT ![h] = m]
    BY <1>4
  <2>2. /\ pc' \in [Handlers -> Places] /\ \A g \in Handlers \ {h} : pc'[g] = pc[g]
        /\ N(Busy)' = N(Busy) /\ N(Kinds)' = N(Kinds) + 1
        /\ N(Entering)' = N(Entering) - 1 /\ N(Unobserved)' = N(Unobserved)
        /\ N(Entering) \in Nat /\ N(Unobserved) \in Nat /\ N(Kinds) \in Nat
    BY <2>1, MovesCounted DEF Places, Busy, Entering, Unobserved, Kinds
  <2>3. /\ counter' \in [Counters -> Nat]
        /\ counter'["check"] + counter'["report"] = counter["check"] + counter["report"] + 1
        /\ \A c \in Verdicts \cup {"error"} : counter'[c] = counter[c]
    BY <1>2, <2>1 DEF Inc, Counters, Kinds, Verdicts
  <2>4. Types'
    <3>1. ask' \in [Handlers -> Samples \cup {NoSample}] /\ \A g \in Handlers : pc'[g] \in Kinds => ask'[g] \in Samples
      BY <2>1, <2>2 DEF Types
    <3> QED BY <1>1, <2>2, <2>3, <3>1 DEF Types, listen, hist
  <2>5. SlotsHeld'
    BY <1>1, <2>2 DEF SlotsHeld
  <2>6. RequestsBound'
    BY <1>1, <1>2, <2>2, <2>3 DEF RequestsBound, hist
  <2>7. EveryRequestCounted'
    BY <1>1, <1>2, <2>2, <2>3 DEF EveryRequestCounted, N, At, hist, Verdicts, Types
  <2>8. LockHeld' /\ Histogram' /\ SeenStands'
    BY <1>1, <2>1, MutexKept DEF Places, Kinds
  <2> QED BY <2>4, <2>5, <2>6, <2>7, <2>8
<1> QED BY <1>3, <1>4 DEF Body

(* A panic gives the slot back.                                            *)
LEMMA PanicKeeps == ASSUME IInv, NEW h \in Handlers, Panic(h) PROVE IInv'
<1> USE DEF IInv
<1>1. /\ sem' = sem - 1 /\ panicked' = panicked + 1 /\ ask' = [ask EXCEPT ![h] = NoSample]
      /\ UNCHANGED <<metrics, lock, scrape, seen, listen, accepted, scrapes, reported>>
  BY DEF Panic, Returned
<1>2. PICK k \in Kinds : Goto(h, k, "idle")
  BY DEF Panic
<1>3. /\ pc' \in [Handlers -> Places] /\ \A g \in Handlers \ {h} : pc'[g] = pc[g]
      /\ pc'[h] \notin Kinds
      /\ N(Busy)' = N(Busy) - 1 /\ N(Kinds)' = N(Kinds) - 1
      /\ N(Entering)' = N(Entering) /\ N(Unobserved)' = N(Unobserved) - 1
      /\ N(Busy)' \in Nat /\ N(Entering) \in Nat /\ N(Unobserved) \in Nat /\ N(Kinds) \in Nat
  BY <1>2, MovesCounted DEF Places, Busy, Entering, Unobserved, Kinds
<1>4. SlotsHeld'
  BY <1>1, <1>3 DEF SlotsHeld
<1>5. Types'
  <2>1. sem' \in 0 .. MaxConc
    BY <1>1, <1>3, SizesAssumption DEF SlotsHeld, Types
  <2>2. ask' \in [Handlers -> Samples \cup {NoSample}] /\ \A g \in Handlers : pc'[g] \in Kinds => ask'[g] \in Samples
    BY <1>1, <1>3 DEF Types
  <2> QED BY <1>1, <1>3, <2>1, <2>2 DEF Types, listen, metrics
<1>6. RequestsBound'
  <2>1. counter["check"] \in Nat /\ counter["report"] \in Nat /\ count \in Nat /\ accepted \in Nat
    BY SizesAssumption DEF Types, Counters, Kinds
  <2> QED BY <1>1, <1>3, <2>1 DEF RequestsBound, metrics
<1>7. EveryRequestCounted'
  <2>1. /\ counter["error"] \in Nat /\ counter["reject"] \in Nat /\ counter["accept"] \in Nat
        /\ counter["unknown"] \in Nat /\ reported \in Nat /\ panicked \in Nat
        /\ counter["check"] \in Nat /\ counter["report"] \in Nat
    BY DEF Types, Counters, Verdicts, Kinds
  <2> QED BY <1>1, <1>3, <2>1 DEF EveryRequestCounted, N, At, metrics
<1>8. LockHeld' /\ Histogram' /\ SeenStands'
  BY <1>1, <1>2, MutexKept DEF Places, Kinds, metrics
<1> QED BY <1>4, <1>5, <1>6, <1>7, <1>8

LEMMA ActionsAreVerdicts == ASSUME NEW m \in Samples PROVE Action[m] \in Verdicts
<1>1. ASSUME NEW r PROVE VerdictThreshold(r, Many) \in Verdicts
  BY DEF VerdictThreshold, Verdicts
<1> QED BY <1>1 DEF Action

(* An answer is one error, one verdict, or one report.                     *)
LEMMA AnswerCountsOne ==
  ASSUME IInv, NEW h \in Handlers, Answer(h)
  PROVE  /\ \E k \in Kinds : Goto(h, k, "observe")
         /\ counter' \in [Counters -> Nat] /\ reported' \in Nat
         /\ counter'["check"] = counter["check"] /\ counter'["report"] = counter["report"]
         /\ counter'["error"] + counter'["reject"] + counter'["accept"] + counter'["unknown"] + reported'
              = counter["error"] + counter["reject"] + counter["accept"] + counter["unknown"] + reported + 1
<1>1. /\ counter \in [Counters -> Nat] /\ reported \in Nat
      /\ counter["error"] \in Nat /\ counter["reject"] \in Nat
      /\ counter["accept"] \in Nat /\ counter["unknown"] \in Nat
  BY DEF IInv, Types, Counters, Verdicts
<1>2. CASE \E c \in Verdicts \cup {"error"} : Inc(c) /\ UNCHANGED reported /\ \E k \in Kinds : Goto(h, k, "observe")
  <2>1. PICK c \in Verdicts \cup {"error"} : Inc(c)
    BY <1>2
  <2> QED BY <1>1, <1>2, <2>1 DEF Inc, Counters, Kinds, Verdicts
<1>3. CASE Goto(h, "report", "observe") /\ reported' = reported + 1 /\ UNCHANGED counter
  BY <1>1, <1>3 DEF Kinds
<1>4. CASE Goto(h, "check", "observe") /\ Inc(Action[ask[h]]) /\ UNCHANGED reported
  <2>1. pc[h] = "check" /\ "check" \in Kinds
    BY <1>4 DEF Goto, Kinds
  <2>2. ask[h] \in Samples
    BY <2>1 DEF IInv, Types
  <2>3. Action[ask[h]] \in Verdicts
    BY <2>2, ActionsAreVerdicts
  <2> QED BY <1>2, <1>4, <2>1, <2>3
<1> QED BY <1>2, <1>3, <1>4 DEF Answer

LEMMA AnswerKeeps == ASSUME IInv, NEW h \in Handlers, Answer(h) PROVE IInv'
<1> USE DEF IInv
<1>1. /\ ask' = [ask EXCEPT ![h] = NoSample]
      /\ UNCHANGED <<sem, bcounts, count, lock, scrape, seen, listen, accepted, scrapes, panicked>>
  BY DEF Answer, Returned
<1>2. PICK k \in Kinds : Goto(h, k, "observe")
  BY AnswerCountsOne
<1>3. /\ pc' \in [Handlers -> Places] /\ \A g \in Handlers \ {h} : pc'[g] = pc[g]
      /\ pc'[h] \notin Kinds
      /\ N(Busy)' = N(Busy) /\ N(Kinds)' = N(Kinds) - 1
      /\ N(Entering)' = N(Entering) /\ N(Unobserved)' = N(Unobserved)
      /\ N(Kinds) \in Nat
  BY <1>2, MovesCounted DEF Places, Busy, Entering, Unobserved, Kinds
<1>4. Types'
  <2>1. ask' \in [Handlers -> Samples \cup {NoSample}] /\ \A g \in Handlers : pc'[g] \in Kinds => ask'[g] \in Samples
    BY <1>1, <1>3 DEF Types
  <2> QED BY <1>1, <1>3, <2>1, AnswerCountsOne DEF Types, listen
<1>5. SlotsHeld'
  BY <1>1, <1>3 DEF SlotsHeld
<1>6. RequestsBound'
  BY <1>1, <1>3, AnswerCountsOne DEF RequestsBound
<1>7. EveryRequestCounted'
  <2>1. /\ counter["check"] \in Nat /\ counter["report"] \in Nat
        /\ counter["error"] \in Nat /\ counter["reject"] \in Nat /\ counter["accept"] \in Nat
        /\ counter["unknown"] \in Nat /\ reported \in Nat /\ panicked \in Nat
        /\ counter'["error"] \in Nat /\ counter'["reject"] \in Nat /\ counter'["accept"] \in Nat
        /\ counter'["unknown"] \in Nat /\ reported' \in Nat
    BY AnswerCountsOne DEF Types, Counters, Verdicts, Kinds
  <2> QED BY <1>1, <1>3, <2>1, AnswerCountsOne DEF EveryRequestCounted, N, At
<1>8. LockHeld' /\ Histogram' /\ SeenStands'
  BY <1>1, <1>2, MutexKept DEF Places, Kinds
<1> QED BY <1>4, <1>5, <1>6, <1>7, <1>8

LEMMA ObserveLockKeeps == ASSUME IInv, NEW h \in Handlers, ObserveLock(h) PROVE IInv'
<1> USE DEF IInv
<1>1. /\ Goto(h, "observe", "buckets") /\ lock = Nobody /\ lock' = h
      /\ UNCHANGED <<ask, sem, metrics, scrape, seen, listen, hist>>
  BY DEF ObserveLock
<1>2. /\ pc' \in [Handlers -> Places] /\ pc[h] = "observe" /\ pc'[h] = "buckets"
      /\ \A g \in Handlers \ {h} : pc'[g] = pc[g]
      /\ N(Busy)' = N(Busy) /\ N(Kinds)' = N(Kinds)
      /\ N(Entering)' = N(Entering) /\ N(Unobserved)' = N(Unobserved)
  BY <1>1, MovesCounted DEF Places, Busy, Entering, Unobserved, Kinds
<1>3. Types'
  BY <1>1, <1>2 DEF Types, listen, metrics, hist, Kinds
<1>4. SlotsHeld' /\ RequestsBound'
  BY <1>1, <1>2 DEF SlotsHeld, RequestsBound, metrics, hist
<1>5. EveryRequestCounted'
  BY <1>1, <1>2 DEF EveryRequestCounted, N, At, metrics, hist
<1>6. LockHeld'
  BY <1>1, <1>2, NamesAssumption DEF LockHeld
<1>7. Histogram' /\ SeenStands'
  BY <1>1, <1>2 DEF Histogram, SeenStands, metrics
<1> QED BY <1>3, <1>4, <1>5, <1>6, <1>7

(* Cumulative buckets stay cumulative when all from one on are increased.  *)
LEMMA ObserveBucketsKeeps == ASSUME IInv, NEW h \in Handlers, ObserveBuckets(h) PROVE IInv'
<1> USE DEF IInv
<1>1. /\ Goto(h, "buckets", "count")
      /\ UNCHANGED <<ask, sem, counter, count, lock, scrape, seen, listen, hist>>
  BY DEF ObserveBuckets
<1>2. PICK fits \in 1 .. NumBuckets + 1 :
        bcounts' = [b \in Buckets |-> IF b >= fits THEN bcounts[b] + 1 ELSE bcounts[b]]
  BY DEF ObserveBuckets
<1>3. /\ pc' \in [Handlers -> Places] /\ pc[h] = "buckets" /\ pc'[h] = "count"
      /\ \A g \in Handlers \ {h} : pc'[g] = pc[g]
      /\ N(Busy)' = N(Busy) /\ N(Kinds)' = N(Kinds)
      /\ N(Entering)' = N(Entering) /\ N(Unobserved)' = N(Unobserved)
  BY <1>1, MovesCounted DEF Places, Busy, Entering, Unobserved, Kinds
<1>4. bcounts \in [Buckets -> Nat] /\ bcounts' \in [Buckets -> Nat] /\ count \in Nat
  BY <1>2 DEF Types
<1>5. Types'
  BY <1>1, <1>3, <1>4 DEF Types, listen, hist, Kinds
<1>6. SlotsHeld' /\ RequestsBound'
  BY <1>1, <1>3 DEF SlotsHeld, RequestsBound, hist
<1>7. EveryRequestCounted'
  BY <1>1, <1>3 DEF EveryRequestCounted, N, At, hist
<1>8. lock = h /\ LockHeld'
  BY <1>1, <1>3 DEF LockHeld
<1>9. Histogram'
  <2>1. \A b \in Buckets : bcounts[b] <= count
    BY <1>3, <1>8 DEF LockHeld, Histogram
  <2>2. \A b \in Buckets : bcounts'[b] \in {bcounts[b], bcounts[b] + 1}
    BY <1>2
  <2>3. \A b \in Buckets : bcounts'[b] <= count + 1
    BY <1>4, <2>1, <2>2
  <2>4. ~ \A g \in Handlers : pc'[g] # "count"
    BY <1>3
  <2>5. \A b, d \in Buckets : b <= d => bcounts'[b] <= bcounts'[d]
    BY <1>2, <1>4, SizesAssumption DEF Histogram, Buckets
  <2> QED BY <1>1, <2>3, <2>4, <2>5 DEF Histogram
<1>10. SeenStands'
  <2>1. scrape <= AtLock /\ \A b \in Buckets : ~ AtBucket(b) < scrape
    BY <1>8, NamesAssumption, SizesAssumption DEF LockHeld, Types, AtLock, AtCount, AtBucket, Buckets
  <2> QED BY <1>1, <2>1 DEF SeenStands
<1> QED BY <1>5, <1>6, <1>7, <1>8, <1>9, <1>10

LEMMA ObserveCountKeeps == ASSUME IInv, NEW h \in Handlers, ObserveCount(h) PROVE IInv'
<1> USE DEF IInv
<1>1. /\ Goto(h, "count", "release") /\ count' = count + 1 /\ lock' = Nobody
      /\ UNCHANGED <<ask, sem, counter, bcounts, scrape, seen, listen, hist>>
  BY DEF ObserveCount
<1>2. /\ pc' \in [Handlers -> Places] /\ pc[h] = "count" /\ pc'[h] = "release"
      /\ \A g \in Handlers \ {h} : pc'[g] = pc[g]
      /\ N(Busy)' = N(Busy) /\ N(Kinds)' = N(Kinds)
      /\ N(Entering)' = N(Entering) /\ N(Unobserved)' = N(Unobserved) - 1
      /\ N(Unobserved) \in Nat
  BY <1>1, MovesCounted DEF Places, Busy, Entering, Unobserved, Kinds
<1>3. Types'
  BY <1>1, <1>2 DEF Types, listen, hist, Kinds
<1>4. SlotsHeld' /\ RequestsBound'
  BY <1>1, <1>2, SizesAssumption DEF SlotsHeld, RequestsBound, hist, Types
<1>5. EveryRequestCounted'
  BY <1>1, <1>2 DEF EveryRequestCounted, N, At, hist
<1>6. lock = h /\ LockHeld'
  BY <1>1, <1>2, NamesAssumption DEF LockHeld
<1>7. Histogram'
  BY <1>1 DEF Histogram, Types
<1>8. SeenStands'
  BY <1>1 DEF SeenStands
<1> QED BY <1>3, <1>4, <1>5, <1>6, <1>7, <1>8

LEMMA ReleaseKeeps == ASSUME IInv, NEW h \in Handlers, Release(h) PROVE IInv'
<1> USE DEF IInv
<1>1. /\ Goto(h, "release", "idle") /\ sem' = sem - 1
      /\ UNCHANGED <<ask, metrics, lock, scrape, seen, listen, hist>>
  BY DEF Release
<1>2. /\ pc' \in [Handlers -> Places] /\ pc'[h] = "idle" /\ \A g \in Handlers \ {h} : pc'[g] = pc[g]
      /\ N(Busy)' = N(Busy) - 1 /\ N(Kinds)' = N(Kinds) /\ N(Busy)' \in Nat
      /\ N(Entering)' = N(Entering) /\ N(Unobserved)' = N(Unobserved)
  BY <1>1, MovesCounted DEF Places, Busy, Entering, Unobserved, Kinds
<1>3. SlotsHeld' /\ RequestsBound'
  BY <1>1, <1>2 DEF SlotsHeld, RequestsBound, metrics, hist
<1>4. Types'
  <2>1. sem' \in 0 .. MaxConc
    BY <1>1, <1>2, SizesAssumption DEF SlotsHeld, Types
  <2> QED BY <1>1, <1>2, <2>1 DEF Types, listen, metrics, hist, Kinds
<1>5. EveryRequestCounted'
  BY <1>1, <1>2 DEF EveryRequestCounted, N, At, metrics, hist
<1>6. LockHeld' /\ Histogram' /\ SeenStands'
  BY <1>1, MutexKept DEF Places, metrics
<1> QED BY <1>3, <1>4, <1>5, <1>6

-----------------------------------------------------------------------------
(* A scrape counts nothing and moves no handler.                           *)
LEMMA ScrapeKeepsCounts ==
  ASSUME IInv, UNCHANGED <<ask, pc, sem, metrics, listen, accepted, reported, panicked>>
  PROVE  SlotsHeld' /\ RequestsBound' /\ EveryRequestCounted' /\ Histogram'
BY DEF IInv, SlotsHeld, RequestsBound, EveryRequestCounted, Histogram, N, At, metrics

LEMMA ScrapeBeginKeeps == ASSUME IInv, ScrapeBegin PROVE IInv'
<1> USE DEF IInv
<1>1. /\ scrape = 0 /\ scrape' = 1 /\ scrapes < MaxScrapes /\ scrapes' = scrapes + 1
      /\ UNCHANGED <<ask, pc, sem, metrics, lock, seen, listen, accepted, reported, panicked>>
  BY DEF ScrapeBegin
<1>2. Types'
  BY <1>1, SizesAssumption DEF Types, listen, metrics, AtCount
<1>3. LockHeld'
  BY <1>1 DEF LockHeld, AtLock
<1>4. SeenStands'
  BY <1>1, SizesAssumption DEF SeenStands, AtLock, AtBucket, Buckets
<1> QED BY <1>1, <1>2, <1>3, <1>4, ScrapeKeepsCounts

LEMMA ScrapeLockKeeps == ASSUME IInv, ScrapeLock PROVE IInv'
<1> USE DEF IInv
<1>1. /\ scrape = AtLock /\ scrape' = scrape + 1 /\ lock = Nobody /\ lock' = Scraper
      /\ UNCHANGED <<ask, pc, sem, metrics, seen, listen, hist>>
  BY DEF ScrapeLock
<1>2. Types'
  BY <1>1, SizesAssumption DEF Types, listen, metrics, hist, AtCount, AtLock
<1>3. LockHeld'
  BY <1>1, NamesAssumption DEF LockHeld, AtLock
<1>4. SeenStands'
  BY <1>1, SizesAssumption DEF SeenStands, AtLock, AtBucket, Buckets
<1> QED BY <1>1, <1>2, <1>3, <1>4, ScrapeKeepsCounts DEF hist

(* While the mutex is the scraper's, no observation is half done.          *)
LEMMA ScrapeBucketKeeps == ASSUME IInv, ScrapeBucket PROVE IInv'
<1> USE DEF IInv
<1>1. PICK b \in Buckets : scrape = AtBucket(b) /\ seen' = [seen EXCEPT !.bcounts[b] = bcounts[b]]
  BY DEF ScrapeBucket
<1>2. /\ scrape' = scrape + 1
      /\ UNCHANGED <<ask, pc, sem, metrics, lock, listen, hist>>
  BY DEF ScrapeBucket
<1>3. scrape > AtLock /\ scrape' > AtLock /\ scrape' \in 0 .. AtCount
  BY <1>1, <1>2, SizesAssumption DEF AtBucket, AtLock, AtCount, Buckets
<1>4. seen' \in Snapshots
  <2>1. bcounts[b] \in 0 .. MaxRequests
    BY BoundsHold, SizesAssumption DEF Types
  <2> QED BY <1>1, <2>1 DEF Types, Snapshots
<1>5. Types'
  BY <1>2, <1>3, <1>4 DEF Types, listen, metrics, hist
<1>6. LockHeld'
  BY <1>2, <1>3 DEF LockHeld
<1>7. SeenStands'
  <2>1. seen'.bcounts[b] = bcounts[b] /\ \A d \in Buckets \ {b} : seen'.bcounts[d] = seen.bcounts[d]
    BY <1>1 DEF Types, Snapshots
  <2>2. \A d \in Buckets : AtBucket(d) < scrape' => d = b \/ AtBucket(d) < scrape
    BY <1>1, <1>2, SizesAssumption DEF AtBucket, Buckets
  <2>3. scrape' \in Nat /\ ~ scrape' <= AtLock
    BY <1>3, SizesAssumption DEF AtLock, AtCount
  <2> QED BY <1>2, <2>1, <2>2, <2>3 DEF SeenStands, metrics, AtBucket
<1> QED BY <1>2, <1>5, <1>6, <1>7, ScrapeKeepsCounts DEF hist

LEMMA ScrapeCountKeeps == ASSUME IInv, ScrapeCount PROVE IInv'
<1> USE DEF IInv
<1>1. /\ scrape = AtCount /\ scrape' = 0 /\ lock' = Nobody /\ seen' = [seen EXCEPT !.count = count]
      /\ UNCHANGED <<ask, pc, sem, metrics, listen, hist>>
  BY DEF ScrapeCount
<1>2. scrape > AtLock /\ lock = Scraper
  BY <1>1, SizesAssumption DEF AtLock, AtCount, LockHeld
<1>3. \A h \in Handlers : pc[h] \notin {"buckets", "count"}
  BY <1>2, NamesAssumption DEF LockHeld
<1>4. seen' \in Snapshots /\ seen'.count = count /\ seen'.bcounts = seen.bcounts
  <2>1. count \in 0 .. MaxRequests
    BY BoundsHold DEF TypeOK, Snapshots
  <2> QED BY <1>1, <2>1 DEF Types, Snapshots
<1>5. Types'
  BY <1>1, <1>4, SizesAssumption DEF Types, listen, metrics, hist, AtCount
<1>6. LockHeld'
  BY <1>1, <1>3, NamesAssumption DEF LockHeld, AtLock
<1>7. SeenStands'
  <2>1. \A b \in Buckets : seen'.bcounts[b] = bcounts[b]
    BY <1>1, <1>4, SizesAssumption DEF SeenStands, AtBucket, AtCount, Buckets
  <2>2. /\ \A b \in Buckets : bcounts[b] <= count
        /\ \A b, d \in Buckets : b <= d => bcounts[b] <= bcounts[d]
    BY <1>3 DEF Histogram
  <2>3. \A b \in Buckets : ~ AtBucket(b) < scrape'
    BY <1>1, SizesAssumption DEF AtBucket, Buckets
  <2> QED BY <1>4, <2>1, <2>2, <2>3 DEF SeenStands
<1> QED BY <1>1, <1>5, <1>6, <1>7, ScrapeKeepsCounts DEF hist

(* The listeners and runServe touch neither handlers nor metrics.          *)
LEMMA ListenersKeep ==
  ASSUME IInv, (\E l \in Listeners : ServeReturn(l)) \/ Serving PROVE IInv'
<1> USE DEF IInv
<1>1. UNCHANGED <<ask, pc, sem, metrics, lock, scrape, seen, hist>>
  BY DEF Serving, ServeReturn, Post, CloseAll, Exit
<1>2. Cardinality(Listeners) \in Nat
  BY NamesAssumption, FS_CardinalityType
<1>3. /\ srv' \in [Listeners -> {"serving", "failed", "gone"}]
      /\ errc' \in 0 .. Cardinality(Listeners) /\ main' \in {"wait", "join", "exit"}
  <2>1. CASE \E l \in Listeners : ServeReturn(l)
    BY <2>1 DEF ServeReturn, Types
  <2>2. CASE \E l \in Listeners : Post(l)
    BY <1>2, <2>2 DEF Post, Types
  <2>3. CASE CloseAll
    BY <1>2, <2>3 DEF CloseAll, Types
  <2>4. CASE Exit
    BY <2>4 DEF Exit, Types
  <2> QED BY <2>1, <2>2, <2>3, <2>4 DEF Serving
<1>4. Types'
  BY <1>1, <1>3 DEF Types, metrics, hist
<1>5. SlotsHeld' /\ RequestsBound' /\ EveryRequestCounted' /\ LockHeld' /\ Histogram' /\ SeenStands'
  BY <1>1 DEF SlotsHeld, RequestsBound, EveryRequestCounted, LockHeld, Histogram, SeenStands, N, At, metrics, hist
<1> QED BY <1>4, <1>5

-----------------------------------------------------------------------------
LEMMA InitIInv == Init => IInv
<1> SUFFICES ASSUME Init PROVE IInv
  OBVIOUS
<1>1. /\ \A h \in Handlers : pc[h] = "idle"
      /\ pc \in [Handlers -> Places]
  BY DEF Init, Places
<1>2. N(Busy) = 0 /\ N(Entering) = 0 /\ N(Unobserved) = 0 /\ N(Kinds) = 0
  <2>1. At(Busy) = {} /\ At(Entering) = {} /\ At(Unobserved) = {} /\ At(Kinds) = {}
    BY <1>1 DEF At, Busy, Entering, Unobserved, Kinds
  <2> QED BY <2>1, CountTypes
<1>3. Types
  <2>1. seen \in Snapshots
    BY SizesAssumption DEF Init, Snapshots
  <2>2. scrape \in 0 .. AtCount /\ sem \in 0 .. MaxConc /\ accepted \in 0 .. MaxRequests /\ scrapes \in 0 .. MaxScrapes
    BY SizesAssumption DEF Init, AtCount
  <2>3. errc \in 0 .. Cardinality(Listeners)
    BY NamesAssumption, FS_CardinalityType DEF Init
  <2>4. \A h \in Handlers : pc[h] \notin Kinds
    BY <1>1 DEF Kinds
  <2> QED BY <1>1, <2>1, <2>2, <2>3, <2>4 DEF Init, Types
<1>4. SlotsHeld
  BY <1>2 DEF Init, SlotsHeld
<1>5. RequestsBound
  BY <1>2 DEF Init, RequestsBound, Counters, Kinds
<1>6. EveryRequestCounted
  BY <1>2 DEF Init, EveryRequestCounted, Counters, Kinds, Verdicts, N, At
<1>7. LockHeld
  BY <1>1, NamesAssumption DEF Init, LockHeld, AtLock
<1>8. Histogram /\ SeenStands
  BY SizesAssumption DEF Init, Histogram, SeenStands, AtBucket, Buckets
<1> QED BY <1>3, <1>4, <1>5, <1>6, <1>7, <1>8 DEF IInv

LEMMA NextIInv == IInv /\ [Next]_vars => IInv'
<1> SUFFICES ASSUME IInv, [Next]_vars PROVE IInv'
  OBVIOUS
<1>1. CASE UNCHANGED vars
  BY <1>1 DEF vars, metrics, listen, hist, IInv, Types, SlotsHeld, RequestsBound, EveryRequestCounted,
              LockHeld, Histogram, SeenStands, N, At
<1>2. CASE \E h \in Handlers : Accept(h) \/ Work(h)
  BY <1>2, AcceptKeeps, GateKeeps, BodyKeeps, PanicKeeps, AnswerKeeps,
     ObserveLockKeeps, ObserveBucketsKeeps, ObserveCountKeeps, ReleaseKeeps DEF Work
<1>3. CASE ScrapeBegin \/ Scraping
  BY <1>3, ScrapeBeginKeeps, ScrapeLockKeeps, ScrapeBucketKeeps, ScrapeCountKeeps DEF Scraping
<1>4. CASE (\E l \in Listeners : ServeReturn(l)) \/ Serving
  BY <1>4, ListenersKeep
<1> QED BY <1>1, <1>2, <1>3, <1>4 DEF Next, Quiet

(* The types of the daemon's variables: the channel of slots never         *)
(* overflows, and no counter outgrows the requests (gate, metrics).        *)
THEOREM DaemonTypes == Spec => []TypeOK
<1> QED BY InitIInv, NextIInv, BoundsHold, PTL DEF Spec

(* Every request that reached the DCC client is accounted for once, after  *)
(* any history of errors and panics (checkHandler, reportHandler).         *)
THEOREM RequestsAreCounted == Spec => []EveryRequestCounted
<1>1. IInv => EveryRequestCounted
  BY DEF IInv
<1> QED BY InitIInv, NextIInv, <1>1, PTL DEF Spec

(* Every scrape shows a histogram that existed, whatever observations run  *)
(* beside it (observe, ServeHTTP).                                         *)
THEOREM ScrapesAreConsistent == Spec => []ScrapeIsConsistent
<1>1. IInv => ScrapeIsConsistent
  BY DEF IInv, SeenStands, ScrapeIsConsistent, AtLock
<1> QED BY InitIInv, NextIInv, <1>1, PTL DEF Spec

(* No slot is ever lost: 503 is only answered while as many handlers as    *)
(* there are slots are behind the gate (gate).                             *)
THEOREM BusyMeansFull == Spec => BusyOnlyWhenFull
<1>1. IInv /\ [Next]_vars =>
        [\A h \in Handlers : pc[h] = "gate" /\ pc'[h] = "idle" => Cardinality(InHandler) = MaxConc]_vars
  <2> SUFFICES ASSUME IInv, [Next]_vars, NEW h \in Handlers, pc[h] = "gate", pc'[h] = "idle"
               PROVE  Cardinality(InHandler) = MaxConc
    OBVIOUS
  <2>1. pc \in [Handlers -> Places]
    BY DEF IInv, Types
  <2>2. pc' # pc
    OBVIOUS
  <2>3. PICK g \in Handlers : Accept(g) \/ Work(g)
    BY <2>2 DEF Next, Quiet, Scraping, Serving, vars, ScrapeBegin, ScrapeLock, ScrapeBucket, ScrapeCount,
                ServeReturn, Post, CloseAll, Exit
  <2>4. pc[g] = "gate" /\ sem = MaxConc
    BY <2>1, <2>3 DEF Work, Accept, Gate, Body, Panic, Answer, ObserveLock, ObserveBuckets, ObserveCount,
                      Release, Goto, Kinds
  <2>5. InHandler = At(Busy)
    BY <2>1 DEF InHandler, At, Busy, Places
  <2> QED BY <2>4, <2>5 DEF IInv, SlotsHeld, N
<1> QED BY InitIInv, NextIInv, <1>1, PTL DEF Spec, BusyOnlyWhenFull

-----------------------------------------------------------------------------
(* The recursions of Message: the lines of a field joined, the header     *)
(* split, and the fields noticed.  Each has a solution.                    *)
IsUnfolded(u, msg, i, n) == u = [k \in i .. n |-> IF k = i THEN msg[i] ELSE u[k - 1] \o msg[k]]
IsSplit(u, msg, n)       == u = [k \in 0 .. n |-> IF k = 0 THEN <<>> ELSE AddLine(u[k - 1], msg[k])]
IsNoticed(u, fields, n)  == u = [k \in 0 .. n |-> IF k = 0 THEN NoSums ELSE Notice(u[k - 1], fields[k], k)]

LEMMA IsUnfoldedRuns ==
  ASSUME NEW msg, NEW i \in Nat, NEW n \in Nat, n >= i
  PROVE  \E u : IsUnfolded(u, msg, i, n)
<1> DEFINE Runs(k) == \E u : IsUnfolded(u, msg, i, k)
           bad     == {k \in Nat : k >= i /\ ~Runs(k)}
<1> SUFFICES ASSUME bad # {} PROVE FALSE
  OBVIOUS
<1>1. PICK m \in bad : \A k \in bad : m <= k
  BY LeastNat
<1>2. Runs(i)
  <2> DEFINE one == [k \in i .. i |-> msg[i]]
  <2>1. \A k \in i .. i : k = i
    OBVIOUS
  <2>2. one = [k \in i .. i |-> IF k = i THEN msg[i] ELSE one[k - 1] \o msg[k]]
    BY <2>1
  <2> QED BY <2>2 DEF IsUnfolded
<1>3. m \in Nat /\ m > i /\ m - 1 \in Nat /\ m - 1 >= i /\ ~(m <= m - 1) /\ ~Runs(m)
  <2> HIDE DEF Runs
  <2> QED BY <1>1, <1>2
<1>4. PICK u : u = [k \in i .. m - 1 |-> IF k = i THEN msg[i] ELSE u[k - 1] \o msg[k]]
  <2>1. Runs(m - 1)
    BY <1>1, <1>3
  <2> QED BY <2>1 DEF IsUnfolded
<1> DEFINE w == [k \in i .. m |-> IF k = m THEN u[m - 1] \o msg[m] ELSE u[k]]
<1>5. \A k \in i .. m : w[k] = IF k = i THEN msg[i] ELSE w[k - 1] \o msg[k]
  <2> TAKE k \in i .. m
  <2>1. CASE k = i
    <3>1. i \in i .. m - 1 /\ i \in i .. m /\ i # m
      BY <1>3
    <3>2. u[i] = msg[i]
      BY <1>4, <3>1
    <3> QED BY <2>1, <3>1, <3>2
  <2>2. CASE k # i
    <3>1. k - 1 \in i .. m - 1 /\ k - 1 \in i .. m /\ k - 1 # m
      BY <1>3, <2>2
    <3>2. w[k - 1] = u[k - 1]
      BY <3>1
    <3>3. k # m => k \in i .. m - 1
      BY <1>3
    <3>4. k # m => u[k] = u[k - 1] \o msg[k]
      BY <1>4, <2>2, <3>3
    <3> QED BY <2>2, <3>2, <3>4
  <2> QED BY <2>1, <2>2
<1>6. w = [k \in i .. m |-> w[k]]
  OBVIOUS
<1> HIDE DEF w
<1>7. w = [k \in i .. m |-> IF k = i THEN msg[i] ELSE w[k - 1] \o msg[k]]
  BY <1>5, <1>6
<1> QED BY <1>3, <1>7 DEF IsUnfolded

LEMMA IsSplitRuns ==
  ASSUME NEW msg, NEW n \in Nat
  PROVE  \E u : IsSplit(u, msg, n)
<1> DEFINE Runs(k) == \E u : IsSplit(u, msg, k)
           bad     == {k \in Nat : k >= 0 /\ ~Runs(k)}
<1> SUFFICES ASSUME bad # {} PROVE FALSE
  OBVIOUS
<1>1. PICK m \in bad : \A k \in bad : m <= k
  BY LeastNat
<1>2. Runs(0)
  <2> DEFINE one == [k \in 0 .. 0 |-> <<>>]
  <2>1. \A k \in 0 .. 0 : k = 0
    OBVIOUS
  <2>2. one = [k \in 0 .. 0 |-> IF k = 0 THEN <<>> ELSE AddLine(one[k - 1], msg[k])]
    BY <2>1
  <2> QED BY <2>2 DEF IsSplit
<1>3. m \in Nat /\ m > 0 /\ m - 1 \in Nat /\ m - 1 >= 0 /\ ~(m <= m - 1) /\ ~Runs(m)
  <2> HIDE DEF Runs
  <2> QED BY <1>1, <1>2
<1>4. PICK u : u = [k \in 0 .. m - 1 |-> IF k = 0 THEN <<>> ELSE AddLine(u[k - 1], msg[k])]
  <2>1. Runs(m - 1)
    BY <1>1, <1>3
  <2> QED BY <2>1 DEF IsSplit
<1> DEFINE w == [k \in 0 .. m |-> IF k = m THEN AddLine(u[m - 1], msg[m]) ELSE u[k]]
<1>5. \A k \in 0 .. m : w[k] = IF k = 0 THEN <<>> ELSE AddLine(w[k - 1], msg[k])
  <2> TAKE k \in 0 .. m
  <2>1. CASE k = 0
    <3>1. 0 \in 0 .. m - 1 /\ 0 \in 0 .. m /\ 0 # m
      BY <1>3
    <3>2. u[0] = <<>>
      BY <1>4, <3>1
    <3> QED BY <2>1, <3>1, <3>2
  <2>2. CASE k # 0
    <3>1. k - 1 \in 0 .. m - 1 /\ k - 1 \in 0 .. m /\ k - 1 # m
      BY <1>3, <2>2
    <3>2. w[k - 1] = u[k - 1]
      BY <3>1
    <3>3. k # m => k \in 0 .. m - 1
      BY <1>3
    <3>4. k # m => u[k] = AddLine(u[k - 1], msg[k])
      BY <1>4, <2>2, <3>3
    <3> QED BY <2>2, <3>2, <3>4
  <2> QED BY <2>1, <2>2
<1>6. w = [k \in 0 .. m |-> w[k]]
  OBVIOUS
<1> HIDE DEF w
<1>7. w = [k \in 0 .. m |-> IF k = 0 THEN <<>> ELSE AddLine(w[k - 1], msg[k])]
  BY <1>5, <1>6
<1> QED BY <1>3, <1>7 DEF IsSplit

LEMMA IsNoticedRuns ==
  ASSUME NEW fields, NEW n \in Nat
  PROVE  \E u : IsNoticed(u, fields, n)
<1> DEFINE Runs(k) == \E u : IsNoticed(u, fields, k)
           bad     == {k \in Nat : k >= 0 /\ ~Runs(k)}
<1> SUFFICES ASSUME bad # {} PROVE FALSE
  OBVIOUS
<1>1. PICK m \in bad : \A k \in bad : m <= k
  BY LeastNat
<1>2. Runs(0)
  <2> DEFINE one == [k \in 0 .. 0 |-> NoSums]
  <2>1. \A k \in 0 .. 0 : k = 0
    OBVIOUS
  <2>2. one = [k \in 0 .. 0 |-> IF k = 0 THEN NoSums ELSE Notice(one[k - 1], fields[k], k)]
    BY <2>1
  <2> QED BY <2>2 DEF IsNoticed
<1>3. m \in Nat /\ m > 0 /\ m - 1 \in Nat /\ m - 1 >= 0 /\ ~(m <= m - 1) /\ ~Runs(m)
  <2> HIDE DEF Runs
  <2> QED BY <1>1, <1>2
<1>4. PICK u : u = [k \in 0 .. m - 1 |-> IF k = 0 THEN NoSums ELSE Notice(u[k - 1], fields[k], k)]
  <2>1. Runs(m - 1)
    BY <1>1, <1>3
  <2> QED BY <2>1 DEF IsNoticed
<1> DEFINE w == [k \in 0 .. m |-> IF k = m THEN Notice(u[m - 1], fields[m], m) ELSE u[k]]
<1>5. \A k \in 0 .. m : w[k] = IF k = 0 THEN NoSums ELSE Notice(w[k - 1], fields[k], k)
  <2> TAKE k \in 0 .. m
  <2>1. CASE k = 0
    <3>1. 0 \in 0 .. m - 1 /\ 0 \in 0 .. m /\ 0 # m
      BY <1>3
    <3>2. u[0] = NoSums
      BY <1>4, <3>1
    <3> QED BY <2>1, <3>1, <3>2
  <2>2. CASE k # 0
    <3>1. k - 1 \in 0 .. m - 1 /\ k - 1 \in 0 .. m /\ k - 1 # m
      BY <1>3, <2>2
    <3>2. w[k - 1] = u[k - 1]
      BY <3>1
    <3>3. k # m => k \in 0 .. m - 1
      BY <1>3
    <3>4. k # m => u[k] = Notice(u[k - 1], fields[k], k)
      BY <1>4, <2>2, <3>3
    <3> QED BY <2>2, <3>2, <3>4
  <2> QED BY <2>1, <2>2
<1>6. w = [k \in 0 .. m |-> w[k]]
  OBVIOUS
<1> HIDE DEF w
<1>7. w = [k \in 0 .. m |-> IF k = 0 THEN NoSums ELSE Notice(w[k - 1], fields[k], k)]
  BY <1>5, <1>6
<1> QED BY <1>3, <1>7 DEF IsNoticed

Unfolded(msg, i)  == CHOOSE u : IsUnfolded(u, msg, i, Len(msg))
Split(msg)        == CHOOSE u : IsSplit(u, msg, HeaderEnd(msg))
Noticed(fields)   == CHOOSE u : IsNoticed(u, fields, Len(fields))

LEMMA UnfoldedIs ==
  ASSUME NEW msg, Len(msg) \in Nat, NEW i \in 1 .. Len(msg)
  PROVE  LET u == Unfolded(msg, i)
         IN  u[i] = msg[i] /\ \A j \in i + 1 .. Len(msg) : u[j] = u[j - 1] \o msg[j]
<1>1. IsUnfolded(Unfolded(msg, i), msg, i, Len(msg))
  <2>1. i \in Nat /\ Len(msg) >= i
    OBVIOUS
  <2>2. \E u : IsUnfolded(u, msg, i, Len(msg))
    BY <2>1, IsUnfoldedRuns
  <2> QED BY <2>2 DEF Unfolded
<1> DEFINE u == Unfolded(msg, i)
<1> HIDE DEF u
<1>2. \A k \in i .. Len(msg) : u[k] = IF k = i THEN msg[i] ELSE u[k - 1] \o msg[k]
  BY <1>1 DEF IsUnfolded, u
<1>3. i \in i .. Len(msg) /\ \A j \in i + 1 .. Len(msg) : j \in i .. Len(msg) /\ j # i
  OBVIOUS
<1> QED BY <1>2, <1>3 DEF u

LEMMA SplitIs ==
  ASSUME NEW msg, HeaderEnd(msg) \in Nat
  PROVE  LET u == Split(msg)
         IN  /\ SplitHeaders(msg) = u[HeaderEnd(msg)] /\ u[0] = <<>>
             /\ \A n \in 1 .. HeaderEnd(msg) : u[n] = AddLine(u[n - 1], msg[n])
<1>1. IsSplit(Split(msg), msg, HeaderEnd(msg))
  BY IsSplitRuns DEF Split
<1> DEFINE u == Split(msg)
           H == HeaderEnd(msg)
<1>4. SplitHeaders(msg) = u[H]
  BY DEF SplitHeaders, Split, IsSplit
<1> HIDE DEF u, H
<1>2. \A k \in 0 .. H : u[k] = IF k = 0 THEN <<>> ELSE AddLine(u[k - 1], msg[k])
  BY <1>1 DEF IsSplit, u, H
<1>3. 0 \in 0 .. H /\ \A j \in 1 .. H : j \in 0 .. H /\ j # 0
  BY DEF H
<1> QED BY <1>2, <1>3, <1>4 DEF u, H

LEMMA NoticedIs ==
  ASSUME NEW fields, Len(fields) \in Nat
  PROVE  LET u == Noticed(fields)
         IN  u[0] = NoSums /\ \A n \in 1 .. Len(fields) : u[n] = Notice(u[n - 1], fields[n], n)
<1>1. IsNoticed(Noticed(fields), fields, Len(fields))
  BY IsNoticedRuns DEF Noticed
<1> DEFINE u == Noticed(fields)
<1> HIDE DEF u
<1>2. \A k \in 0 .. Len(fields) : u[k] = IF k = 0 THEN NoSums ELSE Notice(u[k - 1], fields[k], k)
  BY <1>1 DEF IsNoticed, u
<1>3. 0 \in 0 .. Len(fields) /\ \A j \in 1 .. Len(fields) : j \in 0 .. Len(fields) /\ j # 0
  OBVIOUS
<1> QED BY <1>2, <1>3 DEF u

(* The lines of a message that start a field.                              *)
Starters(msg) == {i \in DOMAIN msg : Starts(msg, i)}

(* The header ends at its last line.                                       *)
LEMMA HeaderIs ==
  ASSUME NEW msg \in Seq(Lines)
  PROVE  LET H == HeaderEnd(msg)
         IN  /\ H \in 0 .. Len(msg) /\ \A j \in 1 .. H : ~IsBlankLine(msg[j])
             /\ H < Len(msg) => IsBlankLine(msg[H + 1])
<1> DEFINE I == {i \in 1 .. Len(msg) : IsBlankLine(msg[i])}
           H == HeaderEnd(msg)
<1>1. Len(msg) \in Nat
  OBVIOUS
<1>2. H = IF I # {} THEN (IF Min(I) = 0 THEN Len(msg) ELSE Min(I) - 1) ELSE Len(msg)
  BY DEF HeaderEnd, SelectInSeq
<1> HIDE DEF H
<1>3. CASE I = {}
  <2>1. H = Len(msg)
    BY <1>2, <1>3
  <2>2. \A i \in 1 .. Len(msg) : ~IsBlankLine(msg[i])
    BY <1>3
  <2> QED BY <1>1, <2>1, <2>2 DEF H
<1>4. CASE I # {}
  <2>1. I \in SUBSET Nat
    BY <1>1
  <2>2. PICK m \in I : \A n \in I : m <= n
    BY <1>4, <2>1, LeastNat
  <2>3. Min(I) \in I /\ \A n \in I : Min(I) <= n
    <3> HIDE DEF I
    <3> QED BY <2>2 DEF Min
  <2>4. Min(I) \in 1 .. Len(msg) /\ IsBlankLine(msg[Min(I)]) /\ H = Min(I) - 1
    BY <1>2, <1>4, <2>3
  <2> DEFINE x == Min(I)
  <2>5. \A j \in 1 .. Len(msg) : IsBlankLine(msg[j]) => x <= j
    BY <2>3
  <2> HIDE DEF x, I
  <2>6. H \in 0 .. Len(msg) /\ H + 1 = x /\ \A j \in 1 .. H : j \in 1 .. Len(msg) /\ ~(x <= j)
    BY <1>1, <2>4 DEF x
  <2>7. \A j \in 1 .. H : ~IsBlankLine(msg[j])
    BY <2>5, <2>6
  <2>8. IsBlankLine(msg[H + 1])
    BY <2>4, <2>6 DEF x
  <2> QED BY <2>6, <2>7, <2>8 DEF H
<1> QED BY <1>3, <1>4 DEF H

LEMMA StartersAre ==
  ASSUME NEW msg \in Seq(Lines)
  PROVE  LET H == HeaderEnd(msg)
         IN  /\ Starters(msg) = {i \in 1 .. H : i = 1 \/ msg[i][1] \notin {"sp", "tab"}}
             /\ Starters(msg) \in SUBSET (1 .. H) /\ H \in Nat
<1> DEFINE H == HeaderEnd(msg)
<1>1. H \in 0 .. Len(msg) /\ (\A j \in 1 .. H : ~IsBlankLine(msg[j])) /\ (H < Len(msg) => IsBlankLine(msg[H + 1]))
      /\ Len(msg) \in Nat
  BY HeaderIs
<1> HIDE DEF H
<1>2. ASSUME NEW i \in 1 .. Len(msg) PROVE (\A j \in 1 .. i : ~IsBlankLine(msg[j])) <=> i \in 1 .. H
  <2>1. i \in 1 .. H => \A j \in 1 .. i : j \in 1 .. H
    BY <1>1
  <2>2. i \notin 1 .. H => H < Len(msg) /\ H + 1 \in 1 .. i
    BY <1>1
  <2> QED BY <1>1, <2>1, <2>2
<1>3. \A i : i \in Starters(msg) <=> i \in 1 .. H /\ (i = 1 \/ msg[i][1] \notin {"sp", "tab"})
  <2>1. \A i \in 1 .. H : i \in 1 .. Len(msg)
    BY <1>1
  <2> QED BY <1>2, <2>1 DEF Starters, Starts
<1> QED BY <1>1, <1>3 DEF H

(* The fields of the first n lines: the k-th is that of the k-th starter,  *)
(* unfolded up to the next, or to line n.                                  *)
SplitUpTo(msg, fields, n) ==
  LET S == Starters(msg)
  IN  /\ fields \in Seq(Seq(STRING)) /\ Len(fields) = UpTo(S, n)
      /\ \A i \in S : \A e \in i .. n :
           (\A j \in S : j \notin i + 1 .. e) /\ (e = n \/ e + 1 \in S)
             => fields[UpTo(S, i)] = Unfolded(msg, i)[e]

LEMMA SplitStep ==
  ASSUME NEW msg \in Seq(Lines), NEW n \in Nat, n + 1 <= HeaderEnd(msg),
         NEW fields, SplitUpTo(msg, fields, n)
  PROVE  SplitUpTo(msg, AddLine(fields, msg[n + 1]), n + 1)
<1> DEFINE S    == Starters(msg)
           H    == HeaderEnd(msg)
           c    == UpTo(S, n)
           line == msg[n + 1]
           r    == AddLine(fields, line)
           U(i) == Unfolded(msg, i)
<1>1. /\ H \in Nat /\ H <= Len(msg) /\ Len(msg) \in Nat /\ S \in SUBSET (1 .. H)
      /\ n + 1 \in S <=> n + 1 = 1 \/ line[1] \notin {"sp", "tab"}
  <2>1. n + 1 \in 1 .. H
    BY StartersAre
  <2> QED BY <2>1, StartersAre, HeaderIs
<1>2. line \in Seq(STRING) /\ fields \in Seq(Seq(STRING)) /\ Len(fields) = c
  <2>1. n + 1 \in 1 .. Len(msg)
    BY <1>1
  <2> QED BY <2>1 DEF SplitUpTo, Lines
<1>3. c \in Nat /\ UpTo(S, n + 1) = IF n + 1 \in S THEN c + 1 ELSE c
  BY <1>1, UpToStep
<1>4. \A i \in S : i \in 1 .. Len(msg) /\ i \in Nat /\ i >= 1
  BY <1>1
<1>5. \A i \in S : UpTo(S, i) \in Nat /\ UpTo(S, i) >= 1 /\ (i <= n => UpTo(S, i) <= c)
  <2> TAKE i \in S
  <2>1. UpTo(S, i) \in 1 .. Cardinality(S) /\ Cardinality(S) \in Nat
    BY <1>1, NthElement
  <2>2. ASSUME i <= n PROVE UpTo(S, i) <= c
    <3>1. i < n + 1 /\ i \in Nat /\ n + 1 \in Nat
      BY <1>4, <2>2
    <3>2. {j \in S : j <= i} \in SUBSET {j \in S : j <= n}
      <4>1. \A j \in S : j <= i => j <= n
        BY <1>4, <2>2
      <4> QED BY <4>1
    <3>3. IsFiniteSet({j \in S : j <= n})
      BY <1>1, PlacesFinite
    <3> QED BY <3>2, <3>3, FS_Subset DEF UpTo
  <2> QED BY <2>1, <2>2
<1>6. \A i \in S : U(i)[i] = msg[i] /\ \A j \in i + 1 .. Len(msg) : U(i)[j] = U(i)[j - 1] \o msg[j]
  BY <1>1, <1>4, UnfoldedIs
<1> DEFINE Open(i, e, m) == (\A j \in S : j \notin i + 1 .. e) /\ (e = m \/ e + 1 \in S)
<1>7. \A i \in S : \A e \in i .. n : Open(i, e, n) => fields[UpTo(S, i)] = U(i)[e]
  BY DEF SplitUpTo
<1> SUFFICES /\ r \in Seq(Seq(STRING)) /\ Len(r) = UpTo(S, n + 1)
             /\ \A i \in S : \A e \in i .. n + 1 : Open(i, e, n + 1) => r[UpTo(S, i)] = U(i)[e]
  BY DEF SplitUpTo
<1>8. c = 0 <=> n = 0
  <2>1. n = 0 => c = 0
    <3>1. \A j \in S : ~(j <= 0)
      BY <1>4
    <3>2. {j \in S : j <= 0} = {}
      BY <3>1
    <3> QED BY <3>2, FS_EmptySet DEF UpTo
  <2>2. ASSUME n # 0 PROVE c # 0
    <3>1. 1 \in S
      <4>1. 1 \in 1 .. H
        BY <1>1
      <4> QED BY <4>1, StartersAre
    <3>2. 1 <= n
      BY <2>2
    <3> QED BY <1>3, <1>5, <3>1, <3>2
  <2> QED BY <2>1, <2>2
<1>9. fields = <<>> <=> n = 0
  BY <1>2, <1>8
<1> HIDE DEF S, H, c, line, U
<1>10. CASE n + 1 \in S
  <2>1. r = Append(fields, line)
    <3>1. n + 1 = 1 <=> n = 0
      OBVIOUS
    <3> QED BY <1>1, <1>9, <1>10, <3>1 DEF AddLine
  <2> HIDE DEF r
  <2>2. r \in Seq(Seq(STRING)) /\ Len(r) = c + 1 /\ r[c + 1] = line /\ \A k \in 1 .. c : r[k] = fields[k]
    BY <1>2, <1>3, <2>1
  <2>3. ASSUME NEW i \in S, NEW e \in i .. n + 1, Open(i, e, n + 1) PROVE r[UpTo(S, i)] = U(i)[e]
    <3>1. CASE i = n + 1
      <4>1. e = n + 1 /\ UpTo(S, i) = c + 1
        BY <1>3, <1>10, <3>1
      <4> QED BY <1>6, <2>2, <3>1, <4>1 DEF line
    <3>2. CASE i # n + 1
      <4>1. i <= n /\ n + 1 \notin i + 1 .. e
        BY <1>4, <1>10, <2>3, <3>2
      <4>2. e \in i .. n
        BY <1>4, <4>1
      <4>3. Open(i, e, n)
        BY <2>3, <4>2
      <4>4. fields[UpTo(S, i)] = U(i)[e] /\ UpTo(S, i) \in 1 .. c
        BY <1>3, <1>5, <1>7, <4>1, <4>2, <4>3
      <4> QED BY <2>2, <4>4
    <3> QED BY <3>1, <3>2
  <2> QED BY <1>3, <1>10, <2>2, <2>3
<1>11. CASE n + 1 \notin S
  <2>1. n # 0 /\ c # 0 /\ fields # <<>> /\ r = [fields EXCEPT ![Len(fields)] = @ \o line]
    <3>1. n + 1 # 1 /\ line[1] \in {"sp", "tab"}
      BY <1>1, <1>11
    <3> QED BY <1>8, <1>9, <3>1 DEF AddLine
  <2>2. fields[c] \in Seq(STRING) /\ c \in 1 .. c
    BY <1>2, <1>3, <2>1
  <2> HIDE DEF r
  <2>3. r \in Seq(Seq(STRING)) /\ Len(r) = c /\ r[c] = fields[c] \o line /\ \A k \in 1 .. c : k # c => r[k] = fields[k]
    BY <1>2, <1>3, <2>1, <2>2
  <2>4. ASSUME NEW i \in S, NEW e \in i .. n + 1, Open(i, e, n + 1) PROVE r[UpTo(S, i)] = U(i)[e]
    <3>1. i <= n /\ UpTo(S, i) \in 1 .. c
      <4>1. i # n + 1
        BY <1>11
      <4>2. i <= n
        BY <1>4, <4>1
      <4> QED BY <1>3, <1>5, <4>2
    <3>2. \A j \in S : j <= n + 1 => j <= n
      BY <1>4, <1>11
    <3>3. CASE \A j \in S : j \notin i + 1 .. n
      <4>1. e = n + 1
        <5>1. e + 1 \in S => ~(e <= n)
          <6> SUFFICES ASSUME e + 1 \in S, e <= n PROVE FALSE
            OBVIOUS
          <6>1. e + 1 <= n
            BY <1>4, <3>2
          <6> QED BY <1>4, <3>3, <6>1
        <5> QED BY <1>4, <2>4, <5>1
      <4>2. n \in i .. n /\ Open(i, n, n)
        BY <1>4, <3>1, <3>3
      <4>3. fields[UpTo(S, i)] = U(i)[n]
        BY <1>7, <4>2
      <4>4. n + 1 \in i + 1 .. Len(msg) /\ n + 1 - 1 = n
        BY <1>1, <1>4, <3>1 DEF H
      <4>5. U(i)[n + 1] = U(i)[n] \o line
        <5> DEFINE y == n + 1
        <5>1. y \in i + 1 .. Len(msg) /\ y - 1 = n
          BY <4>4
        <5> HIDE DEF y
        <5>2. U(i)[y] = U(i)[y - 1] \o msg[y]
          BY <1>6, <5>1
        <5>3. U(i)[y] = U(i)[n] \o msg[y]
          BY <5>1, <5>2
        <5> QED BY <5>3 DEF line, y
      <4>6. UpTo(S, i) = c
        <5>1. {j \in S : j <= i} = {j \in S : j <= n}
          <6>1. \A j \in S : j <= i <=> j <= n
            BY <1>4, <3>1, <3>3
          <6> QED BY <6>1
        <5> QED BY <5>1 DEF UpTo, c
      <4> QED BY <2>3, <4>1, <4>3, <4>5, <4>6
    <3>4. CASE \E j \in S : j \in i + 1 .. n
      <4>1. PICK l \in S : l \in i + 1 .. n
        BY <3>4
      <4>2. l \notin i + 1 .. e
        BY <2>4
      <4>3. e \in i .. n /\ e # n + 1 /\ e # n
        BY <1>4, <4>1, <4>2
      <4>4. Open(i, e, n)
        BY <2>4, <4>3
      <4>5. fields[UpTo(S, i)] = U(i)[e]
        BY <1>7, <4>3, <4>4
      <4>6. UpTo(S, i) # c
        <5>1. i < l /\ i \in Nat /\ l <= n
          BY <1>4, <4>1
        <5>2. UpTo(S, i) < UpTo(S, l)
          BY <1>1, <5>1, UpToGrows
        <5> QED BY <1>3, <1>5, <5>1, <5>2
      <4> QED BY <2>3, <3>1, <4>5, <4>6
    <3> QED BY <3>3, <3>4
  <2> QED BY <1>3, <1>11, <2>3, <2>4
<1> QED BY <1>10, <1>11

(* Where the field that starts at line i ends.                             *)
LEMMA FieldIs ==
  ASSUME NEW msg \in Seq(Lines), NEW i \in Starters(msg)
  PROVE  LET H == HeaderEnd(msg)
         IN  \E e \in i .. H :
               /\ \A j \in Starters(msg) : j \notin i + 1 .. e
               /\ e = H \/ e + 1 \in Starters(msg)
               /\ Field(msg, i) = Unfolded(msg, i)[e]
<1> DEFINE H    == HeaderEnd(msg)
           L    == Len(msg)
           S    == Starters(msg)
           ends == {j \in i + 1 .. L : Starts(msg, j) \/ IsBlankLine(msg[j])}
           e    == IF ends = {} THEN L ELSE Min(ends) - 1
<1>1. /\ H \in Nat /\ L \in Nat /\ H <= L /\ S \in SUBSET (1 .. H) /\ i \in 1 .. H
      /\ \A j \in 1 .. H : ~IsBlankLine(msg[j])
      /\ H < L => IsBlankLine(msg[H + 1])
  BY HeaderIs, StartersAre
<1>2. \A j : j \in S <=> j \in 1 .. L /\ Starts(msg, j)
  BY DEF Starters
<1>3. Field(msg, i) = Unfolded(msg, i)[e]
  BY DEF Field, Unfolded, IsUnfolded
<1>4. H < L => H + 1 \in ends
  BY <1>1
<1>5. \A j \in S : j \in i + 1 .. L => j \in ends
  BY <1>2
<1> SUFFICES e \in i .. H /\ (\A j \in S : j \notin i + 1 .. e) /\ (e = H \/ e + 1 \in S)
  BY <1>3
<1> HIDE DEF H, L, S
<1>6. CASE ends = {}
  <2>1. e = L /\ e = H
    BY <1>1, <1>4, <1>6
  <2> HIDE DEF e, ends
  <2> QED BY <1>1, <1>5, <1>6, <2>1
<1>7. CASE ends # {}
  <2>1. ends \in SUBSET Nat
    BY <1>1
  <2>2. PICK m \in ends : \A n \in ends : m <= n
    BY <1>7, <2>1, LeastNat
  <2>3. Min(ends) \in ends /\ \A n \in ends : Min(ends) <= n
    <3> HIDE DEF ends
    <3> QED BY <2>2 DEF Min
  <2> DEFINE x == Min(ends)
  <2>4. x \in i + 1 .. L /\ (Starts(msg, x) \/ IsBlankLine(msg[x])) /\ e = x - 1
    BY <1>7, <2>3
  <2>5. \A n \in ends : x <= n
    BY <2>3
  <2> HIDE DEF x, e, ends
  <2>6. x <= H + 1
    <3>1. H < L => x <= H + 1
      BY <1>4, <2>5
    <3> QED BY <1>1, <2>4, <3>1
  <2>7. e \in i .. H /\ (x = H + 1 => e = H) /\ e + 1 = x
    BY <1>1, <2>4, <2>6
  <2>8. x # H + 1 => x \in S
    <3> SUFFICES ASSUME x # H + 1 PROVE x \in S
      OBVIOUS
    <3>1. x \in 1 .. H /\ x \in 1 .. L
      BY <1>1, <2>4, <2>6
    <3> QED BY <1>1, <1>2, <2>4, <3>1
  <2>9. \A j \in S : j \notin i + 1 .. e
    <3> SUFFICES ASSUME NEW j \in S, j \in i + 1 .. e PROVE FALSE
      OBVIOUS
    <3>1. j \in i + 1 .. L /\ ~(x <= j)
      BY <1>1, <2>4, <2>7
    <3> QED BY <1>5, <2>5, <3>1
  <2> QED BY <2>7, <2>8, <2>9
<1> QED BY <1>6, <1>7

(* The fields that splitHeadersBody finds are those of the reference.      *)
LEMMA FieldsAre ==
  ASSUME NEW msg \in Seq(Lines)
  PROVE  LET S == Starters(msg)
             F == SplitHeaders(msg)
         IN  /\ F \in Seq(Seq(STRING)) /\ Len(F) = Cardinality(S)
             /\ \A i \in S : F[UpTo(S, i)] = Field(msg, i)
<1> DEFINE H   == HeaderEnd(msg)
           S   == Starters(msg)
           u   == Split(msg)
           bad == {n \in 0 .. H : ~SplitUpTo(msg, u[n], n)}
<1>1. H \in Nat /\ S \in SUBSET (1 .. H)
  BY StartersAre
<1>2. SplitHeaders(msg) = u[H] /\ u[0] = <<>> /\ \A n \in 1 .. H : u[n] = AddLine(u[n - 1], msg[n])
  BY <1>1, SplitIs
<1> HIDE DEF H, u
<1>3. bad = {}
  <2> SUFFICES ASSUME bad # {} PROVE FALSE
    OBVIOUS
  <2>1. bad \in SUBSET Nat
    OBVIOUS
  <2>2. PICK n \in bad : \A k \in bad : n <= k
    BY <2>1, LeastNat
  <2>3. n # 0
    <3>1. \A i \in S : i >= 1
      BY <1>1
    <3>2. UpTo(S, 0) = 0
      <4>1. \A j \in S : ~(j <= 0)
        BY <1>1
      <4>2. {j \in S : j <= 0} = {}
        BY <4>1
      <4> QED BY <4>2, FS_EmptySet DEF UpTo
    <3>3. \A i \in S : i .. 0 = {}
      BY <1>1
    <3>4. SplitUpTo(msg, <<>>, 0)
      BY <3>2, <3>3 DEF SplitUpTo
    <3> QED BY <1>2, <2>2, <3>4
  <2> DEFINE p == n - 1
  <2>4. p \in 0 .. H /\ p \in Nat /\ p + 1 = n /\ p + 1 <= H /\ ~(n <= p) /\ n \in 1 .. H
    BY <1>1, <2>2, <2>3
  <2> HIDE DEF p
  <2>5. SplitUpTo(msg, u[p], p)
    BY <2>2, <2>4
  <2>6. SplitUpTo(msg, AddLine(u[p], msg[p + 1]), p + 1)
    BY <2>4, <2>5, SplitStep DEF H
  <2>7. u[n] = AddLine(u[p], msg[p + 1])
    BY <1>2, <2>4 DEF p
  <2> QED BY <2>2, <2>4, <2>6, <2>7
<1>4. SplitUpTo(msg, u[H], H)
  <2>1. H \in 0 .. H
    BY <1>1
  <2> QED BY <1>3, <2>1
<1>5. UpTo(S, H) = Cardinality(S)
  <2>1. {j \in S : j <= H} = S
    BY <1>1
  <2> QED BY <2>1 DEF UpTo
<1>6. ASSUME NEW i \in S PROVE u[H][UpTo(S, i)] = Field(msg, i)
  <2>1. PICK e \in i .. H : /\ \A j \in S : j \notin i + 1 .. e
                            /\ e = H \/ e + 1 \in S
                            /\ Field(msg, i) = Unfolded(msg, i)[e]
    BY FieldIs DEF H
  <2> HIDE DEF S
  <2> QED BY <1>4, <1>6, <2>1 DEF SplitUpTo, S
<1> QED BY <1>2, <1>4, <1>5, <1>6 DEF SplitUpTo

(* The sender that field k names, and what is known after k fields: the    *)
(* first sender, and the last field of a name.                             *)
SenderOf(F, k) == ParseReturnPath(F[k]) \o (IF k = 1 THEN ParseUnixFrom(F[k]) ELSE <<>>)

FirstSender(F, k, opt) ==
  /\ (\A j \in 1 .. k : SenderOf(F, j) = <<>>) => opt = <<>>
  /\ \A j \in 1 .. k :
       SenderOf(F, j) # <<>> /\ (\A l \in 1 .. j - 1 : SenderOf(F, l) = <<>>)
         => opt = <<Str2ck(SenderOf(F, j)[1])>>
  /\ (\E j \in 1 .. k : SenderOf(F, j) # <<>>) => opt # <<>>

LastNamed(F, k, n, opt) ==
  /\ (\A j \in 1 .. k : F[j][1] # n) => opt = <<>>
  /\ \A j \in 1 .. k :
       F[j][1] = n /\ (\A l \in j + 1 .. k : F[l][1] # n) => opt = <<Str2ck(Tail(F[j]))>>

Known(F, k, sums) ==
  /\ FirstSender(F, k, sums.env)
  /\ LastNamed(F, k, "from:", sums.from)
  /\ LastNamed(F, k, "message-id:", sums.msgid)
  /\ LastNamed(F, k, "received:", sums.recv)

LEMMA NamedStep ==
  ASSUME NEW F, NEW k \in Nat, NEW n, NEW opt, LastNamed(F, k, n, opt)
  PROVE  LastNamed(F, k + 1, n, IF F[k + 1][1] = n THEN <<Str2ck(Tail(F[k + 1]))>> ELSE opt)
<1> DEFINE r == IF F[k + 1][1] = n THEN <<Str2ck(Tail(F[k + 1]))>> ELSE opt
           m == k + 1
<1>1. /\ m \in 1 .. m /\ \A j \in 1 .. m : j = m \/ (j \in 1 .. k /\ m \in j + 1 .. m)
      /\ \A j \in 1 .. k : j \in 1 .. m /\ \A l \in j + 1 .. k : l \in j + 1 .. m
  OBVIOUS
<1> HIDE DEF m
<1>2. r = IF F[m][1] = n THEN <<Str2ck(Tail(F[m]))>> ELSE opt
  BY DEF m
<1> HIDE DEF r
<1>3. (\A j \in 1 .. m : F[j][1] # n) => r = <<>>
  BY <1>1, <1>2 DEF LastNamed
<1>4. ASSUME NEW j \in 1 .. m, F[j][1] = n, \A l \in j + 1 .. m : F[l][1] # n
      PROVE  r = <<Str2ck(Tail(F[j]))>>
  <2>1. CASE j = m
    BY <1>2, <1>4, <2>1
  <2>2. CASE j # m
    <3>1. j \in 1 .. k /\ F[m][1] # n /\ \A l \in j + 1 .. k : F[l][1] # n
      BY <1>1, <1>4, <2>2
    <3> QED BY <1>2, <1>4, <3>1 DEF LastNamed
  <2> QED BY <2>1, <2>2
<1>5. LastNamed(F, m, n, r)
  BY <1>3, <1>4 DEF LastNamed
<1> QED BY <1>5 DEF m, r

LEMMA SenderStep ==
  ASSUME NEW F, NEW k \in Nat, NEW opt, FirstSender(F, k, opt)
  PROVE  FirstSender(F, k + 1, IF opt # <<>> \/ SenderOf(F, k + 1) = <<>> THEN opt
                               ELSE <<Str2ck(SenderOf(F, k + 1)[1])>>)
<1> DEFINE m == k + 1
           s(j) == SenderOf(F, j)
           r == IF opt # <<>> \/ s(m) = <<>> THEN opt ELSE <<Str2ck(s(m)[1])>>
<1>1. /\ m \in 1 .. m /\ \A j \in 1 .. m : j = m \/ j \in 1 .. k
      /\ \A j \in 1 .. k : j \in 1 .. m /\ j \in 1 .. m - 1
  OBVIOUS
<1> HIDE DEF m, s
<1>2. /\ (\A j \in 1 .. k : s(j) = <<>>) => opt = <<>>
      /\ \A j \in 1 .. k : s(j) # <<>> /\ (\A l \in 1 .. j - 1 : s(l) = <<>>) => opt = <<Str2ck(s(j)[1])>>
      /\ (\E j \in 1 .. k : s(j) # <<>>) => opt # <<>>
  BY DEF FirstSender, s
<1>3. (\A j \in 1 .. m : s(j) = <<>>) => r = <<>>
  BY <1>1, <1>2
<1>4. ASSUME NEW j \in 1 .. m, s(j) # <<>>, \A l \in 1 .. j - 1 : s(l) = <<>>
      PROVE  r = <<Str2ck(s(j)[1])>>
  <2>1. CASE j = m
    BY <1>1, <1>2, <1>4, <2>1
  <2>2. CASE j # m
    BY <1>1, <1>2, <1>4, <2>2
  <2> QED BY <2>1, <2>2
<1>5. (\E j \in 1 .. m : s(j) # <<>>) => r # <<>>
  BY <1>1, <1>2
<1> HIDE DEF r
<1>6. FirstSender(F, m, r)
  BY <1>3, <1>4, <1>5 DEF FirstSender, s
<1> QED BY <1>6 DEF m, r, s

LEMMA NoticeStep ==
  ASSUME NEW F, NEW k \in Nat, NEW sums, Known(F, k, sums)
  PROVE  Known(F, k + 1, Notice(sums, F[k + 1], k + 1))
<1> DEFINE m == k + 1
           f == F[m]
           r == Notice(sums, f, m)
<1>1. SenderOf(F, m) = IF m = 1 /\ ParseUnixFrom(f) # <<>> THEN ParseUnixFrom(f) ELSE ParseReturnPath(f)
  <2>1. ParseUnixFrom(f) # <<>> => f[1] = "From "
    BY DEF ParseUnixFrom
  <2>2. ParseReturnPath(f) # <<>> => f[1] = "return-path:"
    BY DEF ParseReturnPath
  <2>3. \A x : <<x>> \o <<>> = <<x>> /\ <<>> \o <<x>> = <<x>>
    OBVIOUS
  <2>4. (\E x : ParseUnixFrom(f) = <<x>>) \/ ParseUnixFrom(f) = <<>>
    BY DEF ParseUnixFrom
  <2>5. (\E x : ParseReturnPath(f) = <<x>>) \/ ParseReturnPath(f) = <<>>
    BY DEF ParseReturnPath
  <2>6. <<>> \o <<>> = <<>>
    OBVIOUS
  <2> HIDE DEF f, m
  <2> QED BY <2>1, <2>2, <2>3, <2>4, <2>5, <2>6 DEF SenderOf, f
<1>2. /\ r.env = IF sums.env # <<>> \/ SenderOf(F, m) = <<>> THEN sums.env ELSE <<Str2ck(SenderOf(F, m)[1])>>
      /\ r.from = IF f[1] = "from:" THEN <<Str2ck(Tail(f))>> ELSE sums.from
      /\ r.msgid = IF f[1] = "message-id:" THEN <<Str2ck(Tail(f))>> ELSE sums.msgid
      /\ r.recv = IF f[1] = "received:" THEN <<Str2ck(Tail(f))>> ELSE sums.recv
  <2> HIDE DEF f, m
  <2> QED BY <1>1 DEF Notice
<1> HIDE DEF r
<1> QED BY <1>2, NamedStep, SenderStep DEF Known, r

LEMMA NoticedKnows ==
  ASSUME NEW F, Len(F) \in Nat PROVE Known(F, Len(F), Noticed(F)[Len(F)])
<1> DEFINE L   == Len(F)
           u   == Noticed(F)
           bad == {n \in 0 .. L : ~Known(F, n, u[n])}
<1>1. u[0] = NoSums /\ \A n \in 1 .. L : u[n] = Notice(u[n - 1], F[n], n)
  BY NoticedIs
<1>2. L \in Nat
  OBVIOUS
<1> HIDE DEF u, L
<1>3. bad = {}
  <2> SUFFICES ASSUME bad # {} PROVE FALSE
    OBVIOUS
  <2>1. bad \in SUBSET Nat
    OBVIOUS
  <2>2. PICK n \in bad : \A k \in bad : n <= k
    BY <2>1, LeastNat
  <2>3. n # 0
    <3>1. 1 .. 0 = {}
      OBVIOUS
    <3>2. Known(F, 0, NoSums)
      BY <3>1 DEF Known, FirstSender, LastNamed, NoSums
    <3> QED BY <1>1, <2>2, <3>2
  <2> DEFINE p == n - 1
  <2>4. p \in 0 .. L /\ p \in Nat /\ p + 1 = n /\ ~(n <= p) /\ n \in 1 .. L
    BY <1>2, <2>2, <2>3
  <2>7. u[n] = Notice(u[p], F[n], n)
    BY <1>1, <2>4
  <2> HIDE DEF p
  <2>5. Known(F, p, u[p])
    BY <2>2, <2>4
  <2>6. Known(F, p + 1, Notice(u[p], F[p + 1], p + 1))
    BY <2>4, <2>5, NoticeStep
  <2> QED BY <2>2, <2>4, <2>6, <2>7
<1>4. L \in 0 .. L
  BY <1>2
<1> QED BY <1>3, <1>4 DEF u, L

LEMMA MinIs ==
  ASSUME NEW S \in SUBSET Nat, S # {} PROVE Min(S) \in S /\ \A k \in S : Min(S) <= k
<1>1. PICK m \in S : \A n \in S : m <= n
  BY LeastNat
<1> QED BY <1>1 DEF Min

LEMMA MaxIs ==
  ASSUME NEW L \in Nat, NEW S \in SUBSET (1 .. L), S # {}
  PROVE  Max(S) \in S /\ \A k \in S : k <= Max(S)
<1> DEFINE above == {L - k : k \in S}
<1>1. \A k \in S : k \in Nat /\ k <= L
  OBVIOUS
<1>2. above \in SUBSET Nat /\ above # {}
  <2>1. \A k \in S : L - k \in Nat
    BY <1>1
  <2> QED BY <2>1
<1>3. PICK a \in above : \A n \in above : a <= n
  BY <1>2, LeastNat
<1>4. PICK m \in S : a = L - m
  BY <1>3
<1>5. \A k \in S : k <= m
  <2> TAKE k \in S
  <2>1. L - k \in above
    OBVIOUS
  <2>2. L - m <= L - k
    BY <1>3, <1>4, <2>1
  <2> QED BY <1>1, <2>2
<1>6. \E m1 \in S : \A k \in S : m1 >= k
  BY <1>1, <1>5
<1>7. Max(S) \in S /\ \A k \in S : Max(S) >= k
  BY <1>6 DEF Max
<1> QED BY <1>1, <1>7

(* The order of the fields is that of the lines that start them.           *)
LEMMA FieldOrder ==
  ASSUME NEW msg \in Seq(Lines)
  PROVE  LET S == Starters(msg)
             C == Cardinality(S)
         IN  /\ C \in Nat /\ S \in SUBSET (1 .. Len(msg))
             /\ \A i \in S : UpTo(S, i) \in 1 .. C /\ (UpTo(S, i) = 1 <=> i = 1)
             /\ \A j \in 1 .. C : \E i \in S : UpTo(S, i) = j
             /\ \A i, k \in S : i < k <=> UpTo(S, i) < UpTo(S, k)
<1> DEFINE S == Starters(msg)
           C == Cardinality(S)
           H == HeaderEnd(msg)
<1>1. H \in Nat /\ S \in SUBSET (1 .. H) /\ S \in SUBSET (1 .. Len(msg)) /\ H <= Len(msg)
  BY StartersAre, HeaderIs
<1>2. /\ C \in Nat /\ \A j \in 1 .. C : Nth(S, j) \in S /\ UpTo(S, Nth(S, j)) = j
      /\ \A i \in S : UpTo(S, i) \in 1 .. C /\ Nth(S, UpTo(S, i)) = i
  BY <1>1, NthElement
<1>3. \A i \in S : i \in Nat /\ i >= 1 /\ UpTo(S, i) \in Nat
  BY <1>1, <1>2
<1>4. ASSUME NEW i \in S, NEW k \in S PROVE i < k <=> UpTo(S, i) < UpTo(S, k)
  <2>1. i < k => UpTo(S, i) < UpTo(S, k)
    BY <1>1, <1>3, UpToGrows
  <2>2. k < i => UpTo(S, k) < UpTo(S, i)
    BY <1>1, <1>3, UpToGrows
  <2> HIDE DEF S
  <2> QED BY <1>3, <2>1, <2>2
<1>5. ASSUME NEW i \in S PROVE 1 \in S /\ UpTo(S, 1) = 1
  <2>1. 1 \in 1 .. H
    BY <1>1
  <2>2. 1 \in S
    BY <2>1, StartersAre
  <2>3. {j \in S : j <= 1} = {1}
    BY <1>3, <2>2
  <2> QED BY <2>2, <2>3, FS_Singleton DEF UpTo
<1>6. \A i \in S : UpTo(S, i) = 1 <=> i = 1
  <2> HIDE DEF S
  <2> QED BY <1>2, <1>5
<1> QED BY <1>1, <1>2, <1>4, <1>6

LEMMA SendersAre ==
  ASSUME NEW msg \in Seq(Lines), NEW opt,
         FirstSender(SplitHeaders(msg), Len(SplitHeaders(msg)), opt)
  PROVE  LET senders == {i \in Starters(msg) : Sender(msg, i) # <<>>}
         IN  opt = IF senders = {} THEN <<>> ELSE <<Str2ck(Sender(msg, Min(senders))[1])>>
<1> DEFINE S       == Starters(msg)
           C       == Cardinality(S)
           F       == SplitHeaders(msg)
           P(i)    == UpTo(S, i)
           senders == {i \in S : Sender(msg, i) # <<>>}
<1>1. /\ C \in Nat /\ S \in SUBSET (1 .. Len(msg))
      /\ \A i \in S : P(i) \in 1 .. C /\ (P(i) = 1 <=> i = 1)
      /\ \A j \in 1 .. C : \E i \in S : P(i) = j
      /\ \A i, k \in S : i < k <=> P(i) < P(k)
  BY FieldOrder
<1>2. Len(F) = C /\ \A i \in S : F[P(i)] = Field(msg, i)
  BY FieldsAre
<1> HIDE DEF F, C, P
<1>3. \A i \in S : Sender(msg, i) = SenderOf(F, P(i))
  BY <1>1, <1>2 DEF Sender, SenderOf
<1>4. /\ (\A j \in 1 .. C : SenderOf(F, j) = <<>>) => opt = <<>>
      /\ \A j \in 1 .. C :
           SenderOf(F, j) # <<>> /\ (\A l \in 1 .. j - 1 : SenderOf(F, l) = <<>>)
             => opt = <<Str2ck(SenderOf(F, j)[1])>>
  BY <1>2 DEF FirstSender, F
<1> HIDE DEF S
<1>5. CASE senders = {}
  <2>1. \A j \in 1 .. C : SenderOf(F, j) = <<>>
    BY <1>1, <1>3, <1>5
  <2> QED BY <1>4, <1>5, <2>1 DEF S
<1>6. CASE senders # {}
  <2>1. senders \in SUBSET Nat
    <3>1. \A i \in S : i \in Nat
      BY <1>1
    <3> QED BY <3>1
  <2> DEFINE m == Min(senders)
  <2>2. m \in S /\ Sender(msg, m) # <<>> /\ \A k \in senders : m <= k
    BY <1>6, <2>1, MinIs
  <2> HIDE DEF m
  <2>3. ASSUME NEW l \in 1 .. P(m) - 1 PROVE SenderOf(F, l) = <<>>
    <3>1. P(m) \in Nat /\ P(m) <= C
      BY <1>1, <2>2
    <3>2. l \in 1 .. C /\ l < P(m)
      BY <1>1, <3>1
    <3>3. PICK k \in S : P(k) = l
      BY <1>1, <3>2
    <3>4. k < m /\ k \in Nat /\ m \in Nat
      BY <1>1, <2>2, <3>2, <3>3
    <3>5. k \notin senders
      BY <2>2, <3>4
    <3> QED BY <1>3, <3>3, <3>5
  <2>4. SenderOf(F, P(m)) = Sender(msg, m) /\ P(m) \in 1 .. C
    BY <1>1, <1>3, <2>2
  <2>5. opt = <<Str2ck(Sender(msg, m)[1])>>
    BY <1>4, <2>2, <2>3, <2>4
  <2> QED BY <1>6, <2>5 DEF m, S
<1> QED BY <1>5, <1>6

LEMMA NamedAre ==
  ASSUME NEW msg \in Seq(Lines), NEW opt, NEW n,
         LastNamed(SplitHeaders(msg), Len(SplitHeaders(msg)), n, opt)
  PROVE  LET named == {i \in Starters(msg) : Field(msg, i)[1] = n}
         IN  opt = IF named = {} THEN <<>> ELSE <<Str2ck(Tail(Field(msg, Max(named))))>>
<1> DEFINE S     == Starters(msg)
           C     == Cardinality(S)
           F     == SplitHeaders(msg)
           P(i)  == UpTo(S, i)
           named == {i \in S : Field(msg, i)[1] = n}
<1>1. /\ C \in Nat /\ S \in SUBSET (1 .. Len(msg)) /\ Len(msg) \in Nat
      /\ \A i \in S : P(i) \in 1 .. C
      /\ \A j \in 1 .. C : \E i \in S : P(i) = j
      /\ \A i, k \in S : i < k <=> P(i) < P(k)
  BY FieldOrder
<1>2. Len(F) = C /\ \A i \in S : F[P(i)] = Field(msg, i)
  BY FieldsAre
<1> HIDE DEF F, C, P
<1>4. /\ (\A j \in 1 .. C : F[j][1] # n) => opt = <<>>
      /\ \A j \in 1 .. C : F[j][1] = n /\ (\A l \in j + 1 .. C : F[l][1] # n) => opt = <<Str2ck(Tail(F[j]))>>
  BY <1>2 DEF LastNamed, F
<1> HIDE DEF S
<1>5. CASE named = {}
  <2>1. \A j \in 1 .. C : F[j][1] # n
    BY <1>1, <1>2, <1>5
  <2> QED BY <1>4, <1>5, <2>1 DEF S
<1>6. CASE named # {}
  <2>1. named \in SUBSET (1 .. Len(msg))
    BY <1>1
  <2> DEFINE m == Max(named)
  <2>2. m \in S /\ Field(msg, m)[1] = n /\ \A k \in named : k <= m
    BY <1>1, <1>6, <2>1, MaxIs
  <2> HIDE DEF m
  <2>3. ASSUME NEW l \in P(m) + 1 .. C PROVE F[l][1] # n
    <3>1. P(m) \in Nat /\ P(m) >= 1
      BY <1>1, <2>2
    <3>2. l \in 1 .. C /\ P(m) < l
      BY <1>1, <3>1
    <3>3. PICK k \in S : P(k) = l
      BY <1>1, <3>2
    <3>4. m < k /\ k \in Nat /\ m \in Nat
      BY <1>1, <2>2, <3>2, <3>3
    <3>5. k \notin named
      BY <2>2, <3>4
    <3> QED BY <1>2, <3>3, <3>5
  <2>4. F[P(m)] = Field(msg, m) /\ P(m) \in 1 .. C
    BY <1>1, <1>2, <2>2
  <2>5. opt = <<Str2ck(Tail(Field(msg, m)))>>
    BY <1>4, <2>2, <2>3, <2>4
  <2> QED BY <1>6, <2>5 DEF m, S
<1> QED BY <1>5, <1>6

(* What a server is sent of a list of checksums.                           *)
Pairs(cks) == {<<k.type, k.sum>> : k \in {x \in ToSet(cks) : x.report}}

LEMMA PacketPairs ==
  ASSUME NEW X, NEW cks \in Seq(X)
  PROVE  {<<k.type, k.sum>> : k \in ToSet(Packet(cks))} = Pairs(cks)
<1> DEFINE R == Reported(cks)
<1>1. R \in SUBSET (DOMAIN cks) /\ \A i : i \in R <=> i \in DOMAIN cks /\ cks[i].report
  BY DEF Reported
<1>2. DOMAIN cks = 1 .. Len(cks) /\ Len(cks) \in Nat
  OBVIOUS
<1>3. /\ Cardinality(R) \in Nat /\ DOMAIN Packet(cks) = 1 .. Cardinality(R)
      /\ \A n \in 1 .. Cardinality(R) : Packet(cks)[n] = cks[Nth(R, n)] /\ Nth(R, n) \in R
  BY <1>1, SelectType DEF Packet
<1>4. \A k \in R : \E n \in 1 .. Cardinality(R) : Nth(R, n) = k
  BY <1>1, <1>2, NthElement
<1> HIDE DEF R
<1>5. ToSet(Packet(cks)) = {x \in ToSet(cks) : x.report}
  <2>1. ASSUME NEW x \in ToSet(Packet(cks)) PROVE x \in ToSet(cks) /\ x.report
    <3>1. PICK n \in 1 .. Cardinality(R) : x = Packet(cks)[n]
      BY <1>3 DEF ToSet
    <3>2. x = cks[Nth(R, n)] /\ Nth(R, n) \in DOMAIN cks /\ cks[Nth(R, n)].report
      BY <1>1, <1>3, <3>1
    <3> QED BY <3>2 DEF ToSet
  <2>2. ASSUME NEW x \in ToSet(cks), x.report PROVE x \in ToSet(Packet(cks))
    <3>1. PICK i \in DOMAIN cks : x = cks[i]
      BY DEF ToSet
    <3>2. i \in R
      BY <1>1, <2>2, <3>1
    <3>3. PICK n \in 1 .. Cardinality(R) : Nth(R, n) = i
      BY <1>4, <3>2
    <3>4. x = Packet(cks)[n] /\ n \in DOMAIN Packet(cks)
      BY <1>3, <3>1, <3>3
    <3> QED BY <3>4 DEF ToSet
  <2> QED BY <2>1, <2>2
<1> QED BY <1>5 DEF Pairs

LEMMA PairsJoin ==
  ASSUME NEW X, NEW p \in Seq(X), NEW q \in Seq(X)
  PROVE  p \o q \in Seq(X) /\ Pairs(p \o q) = Pairs(p) \cup Pairs(q)
<1>1. /\ p \o q \in Seq(X) /\ Len(p \o q) = Len(p) + Len(q) /\ Len(p) \in Nat /\ Len(q) \in Nat
      /\ \A n \in 1 .. Len(p) : (p \o q)[n] = p[n]
      /\ \A n \in 1 .. Len(q) : (p \o q)[Len(p) + n] = q[n]
  BY Joined
<1> DEFINE r == p \o q
           a == Len(p)
           b == Len(q)
<1>2. DOMAIN r = 1 .. a + b /\ DOMAIN p = 1 .. a /\ DOMAIN q = 1 .. b
  BY <1>1
<1> HIDE DEF r, a, b
<1>3. ToSet(r) = ToSet(p) \cup ToSet(q)
  <2>1. \A n \in 1 .. a : n \in 1 .. a + b /\ r[n] = p[n]
    BY <1>1 DEF r, a, b
  <2>2. \A n \in 1 .. b : a + n \in 1 .. a + b /\ r[a + n] = q[n]
    BY <1>1 DEF r, a, b
  <2>3. \A n \in 1 .. a + b : n \in 1 .. a \/ (\E m \in 1 .. b : n = a + m)
    <3> TAKE n \in 1 .. a + b
    <3>1. a \in Nat /\ b \in Nat
      BY <1>1 DEF a, b
    <3>2. n \in 1 .. a \/ (n - a \in 1 .. b /\ n = a + (n - a))
      BY <3>1
    <3> QED BY <3>2
  <2> QED BY <1>2, <2>1, <2>2, <2>3 DEF ToSet
<1> QED BY <1>1, <1>3 DEF Pairs, r

LEMMA PairsOf ==
  /\ Pairs(<<>>) = {}
  /\ \A x : Pairs(<<x>>) = IF x.report THEN {<<x.type, x.sum>>} ELSE {}
<1>1. ToSet(<<>>) = {} /\ \A x : ToSet(<<x>>) = {x}
  BY DEF ToSet
<1>2. \A x : {y \in {x} : y.report} = IF x.report THEN {x} ELSE {}
  OBVIOUS
<1> QED BY <1>1, <1>2 DEF Pairs

(* A checksum that a message may have, as a sequence of none or one.       *)
Ck(type, sum)   == [type |-> type, sum |-> sum, report |-> TRUE]
Some(type, opt) == [i \in DOMAIN opt |-> Ck(type, opt[i])]
Few(p)          == p = <<>> \/ \E x : p = <<x>>

LEMMA SomeAre ==
  /\ \A t : Some(t, <<>>) = <<>>
  /\ \A t, x : Some(t, <<x>>) = <<Ck(t, x)>>
<1>1. ASSUME NEW t, NEW x PROVE Some(t, <<x>>) = <<Ck(t, x)>>
  <2> DEFINE y == Ck(t, x)
             one == [i \in 1 .. 1 |-> y]
  <2>1. Some(t, <<x>>) = one
    <3>1. DOMAIN <<x>> = 1 .. 1 /\ \A i \in 1 .. 1 : <<x>>[i] = x
      OBVIOUS
    <3> QED BY <3>1 DEF Some
  <2>2. one = <<y>>
    <3> HIDE DEF y
    <3>1. one \in Seq({y}) /\ Len(one) = 1 /\ \A i \in 1 .. 1 : one[i] = <<y>>[i]
      OBVIOUS
    <3>2. <<y>> \in Seq({y}) /\ Len(<<y>>) = 1
      OBVIOUS
    <3> HIDE DEF one
    <3> QED BY <3>1, <3>2, SameSeq
  <2> QED BY <2>1, <2>2
<1>2. \A t : Some(t, <<>>) = <<>>
  BY DEF Some
<1> QED BY <1>1, <1>2

LEMMA FewJoin ==
  ASSUME NEW a, NEW b, NEW c, NEW d, NEW e, NEW f, NEW g,
         Few(a), Few(b), Few(c), Few(d), Few(e), Few(f), Few(g)
  PROVE  LET all == a \o b \o c \o d \o e \o f \o g
         IN  /\ \E X : all \in Seq(X)
             /\ Pairs(all) = Pairs(a) \cup Pairs(b) \cup Pairs(c) \cup Pairs(d)
                               \cup Pairs(e) \cup Pairs(f) \cup Pairs(g)
<1> DEFINE X == ToSet(a) \cup ToSet(b) \cup ToSet(c) \cup ToSet(d) \cup ToSet(e) \cup ToSet(f) \cup ToSet(g)
<1>1. ASSUME NEW p, Few(p) PROVE p \in Seq(ToSet(p))
  <2>1. CASE p = <<>>
    BY <2>1
  <2>2. CASE \E x : p = <<x>>
    <3>1. PICK x : p = <<x>>
      BY <2>2
    <3>2. ToSet(p) = {x}
      BY <3>1 DEF ToSet
    <3> QED BY <3>1, <3>2
  <2> QED BY <1>1, <2>1, <2>2 DEF Few
<1>2. \A p, Y : p \in Seq(Y) /\ Y \subseteq X => p \in Seq(X)
  OBVIOUS
<1>3. /\ a \in Seq(X) /\ b \in Seq(X) /\ c \in Seq(X) /\ d \in Seq(X)
      /\ e \in Seq(X) /\ f \in Seq(X) /\ g \in Seq(X)
  BY <1>1, <1>2
<1> HIDE DEF X
<1> DEFINE ab == a \o b
           abc == ab \o c
           abcd == abc \o d
           abcde == abcd \o e
           abcdef == abcde \o f
           all == abcdef \o g
<1>4. ab \in Seq(X) /\ Pairs(ab) = Pairs(a) \cup Pairs(b)
  BY <1>3, PairsJoin
<1> HIDE DEF ab
<1>5. abc \in Seq(X) /\ Pairs(abc) = Pairs(ab) \cup Pairs(c)
  BY <1>3, <1>4, PairsJoin
<1> HIDE DEF abc
<1>6. abcd \in Seq(X) /\ Pairs(abcd) = Pairs(abc) \cup Pairs(d)
  BY <1>3, <1>5, PairsJoin
<1> HIDE DEF abcd
<1>7. abcde \in Seq(X) /\ Pairs(abcde) = Pairs(abcd) \cup Pairs(e)
  BY <1>3, <1>6, PairsJoin
<1> HIDE DEF abcde
<1>8. abcdef \in Seq(X) /\ Pairs(abcdef) = Pairs(abcde) \cup Pairs(f)
  BY <1>3, <1>7, PairsJoin
<1> HIDE DEF abcdef
<1>9. all \in Seq(X) /\ Pairs(all) = Pairs(abcdef) \cup Pairs(g)
  BY <1>3, <1>8, PairsJoin
<1> HIDE DEF all
<1>10. (\E Y : all \in Seq(Y)) /\ Pairs(all) = Pairs(a) \cup Pairs(b) \cup Pairs(c) \cup Pairs(d)
                             \cup Pairs(e) \cup Pairs(f) \cup Pairs(g)
  BY <1>4, <1>5, <1>6, <1>7, <1>8, <1>9
<1>11. all = a \o b \o c \o d \o e \o f \o g
  BY DEF all, abcdef, abcde, abcd, abc, ab
<1> QED BY <1>10, <1>11

(* What is sent of a message are the sums that stand in it.                *)
LEMMA ChecksumsAre ==
  ASSUME NEW msg \in Seq(Lines), NEW valid \in SUBSET BodyTypes
  PROVE  {<<k.type, k.sum>> : k \in ToSet(Packet(Checksums(msg, valid)))} = SumsToReport(msg, valid)
<1> DEFINE F == SplitHeaders(msg)
           s == Noticed(F)[Len(F)]
           S == Starters(msg)
           senders  == {i \in S : Sender(msg, i) # <<>>}
           named(n) == {i \in S : Field(msg, i)[1] = n}
           first    == Str2ck(Sender(msg, Min(senders))[1])
           last(n)  == Str2ck(Tail(Field(msg, Max(named(n)))))
           BodyCk(type) == IF type \in valid THEN <<Ck(type, type)>> ELSE <<>>
           env  == Some("env_From", s.env)
           from == Some("From", s.from)
           id   == IF s.msgid # <<>> THEN Some("Message-ID", s.msgid)
                   ELSE <<[Ck("Message-ID", <<>>) EXCEPT !.report = FALSE]>>
           recv == Some("Received", s.recv)
<1>1. Checksums(msg, valid) = env \o from \o id \o recv \o BodyCk("Body") \o BodyCk("Fuz1") \o BodyCk("Fuz2")
  BY DEF Checksums, Noticed, IsNoticed, Some, Ck
<1>2. Known(F, Len(F), s)
  <2>1. Len(F) \in Nat
    BY FieldsAre
  <2> QED BY <2>1, NoticedKnows
<1> HIDE DEF s
<1>3. s.env = IF senders = {} THEN <<>> ELSE <<first>>
  BY <1>2, SendersAre DEF Known
<1> DEFINE Opt(n) == IF named(n) = {} THEN <<>> ELSE <<last(n)>>
<1>4. s.from = Opt("from:") /\ s.msgid = Opt("message-id:") /\ s.recv = Opt("received:")
  BY <1>2, NamedAre DEF Known
<1> DEFINE Latest(t, n) == {<<t, last(n)>> : i \in named(n)}
           First      == {<<"env_From", first>> : i \in senders}
<1>5. SumsToReport(msg, valid) =
        First \cup Latest("From", "from:") \cup Latest("Message-ID", "message-id:") \cup Latest("Received", "received:")
          \cup {<<t, t>> : t \in valid}
  BY DEF SumsToReport, Starters
<1> HIDE DEF F, S, senders, named, first, last
<1>6. \A t, x : Pairs(<<Ck(t, x)>>) = {<<t, x>>} /\ Few(<<Ck(t, x)>>)
  <2> TAKE t, x
  <2>1. Ck(t, x).report /\ Ck(t, x).type = t /\ Ck(t, x).sum = x
    BY DEF Ck
  <2> QED BY <2>1, PairsOf DEF Few
<1>7. Pairs(<<>>) = {} /\ Few(<<>>)
  BY PairsOf DEF Few
<1>8. Few(env) /\ Pairs(env) = First
  <2>1. CASE senders = {}
    <3>1. env = <<>> /\ First = {}
      BY <1>3, <2>1, SomeAre
    <3> QED BY <1>7, <3>1
  <2>2. CASE senders # {}
    <3>1. env = <<Ck("env_From", first)>> /\ First = {<<"env_From", first>>}
      BY <1>3, <2>2, SomeAre
    <3> QED BY <1>6, <3>1
  <2> QED BY <2>1, <2>2
<1>9. ASSUME NEW t, NEW n PROVE Few(Some(t, Opt(n))) /\ Pairs(Some(t, Opt(n))) = Latest(t, n)
  <2>1. CASE named(n) = {}
    <3>1. Some(t, Opt(n)) = <<>> /\ Latest(t, n) = {}
      BY <2>1, SomeAre
    <3> QED BY <1>7, <3>1
  <2>2. CASE named(n) # {}
    <3>1. Some(t, Opt(n)) = <<Ck(t, last(n))>> /\ Latest(t, n) = {<<t, last(n)>>}
      BY <2>2, SomeAre
    <3> QED BY <1>6, <3>1
  <2> QED BY <2>1, <2>2
<1>10. Few(from) /\ Few(recv) /\ Pairs(from) = Latest("From", "from:") /\ Pairs(recv) = Latest("Received", "received:")
  <2> HIDE DEF Opt, Latest
  <2> QED BY <1>4, <1>9
<1>11. Few(id) /\ Pairs(id) = Latest("Message-ID", "message-id:")
  <2>1. CASE named("message-id:") = {}
    <3> DEFINE none == [Ck("Message-ID", <<>>) EXCEPT !.report = FALSE]
    <3>1. id = <<none>> /\ Latest("Message-ID", "message-id:") = {}
      BY <1>4, <2>1
    <3>2. ~none.report
      BY DEF Ck
    <3> HIDE DEF none
    <3> QED BY <3>1, <3>2, PairsOf DEF Few
  <2>2. CASE named("message-id:") # {}
    <3>1. id = Some("Message-ID", Opt("message-id:"))
      <4>1. s.msgid # <<>>
        BY <1>4, <2>2
      <4> QED BY <1>4, <4>1
    <3> HIDE DEF Opt, Latest
    <3> QED BY <1>9, <3>1
  <2> QED BY <2>1, <2>2
<1>12. \A t : Few(BodyCk(t)) /\ Pairs(BodyCk(t)) = IF t \in valid THEN {<<t, t>>} ELSE {}
  BY <1>6, <1>7
<1>13. {<<t, t>> : t \in valid} = (IF "Body" \in valid THEN {<<"Body", "Body">>} ELSE {})
          \cup (IF "Fuz1" \in valid THEN {<<"Fuz1", "Fuz1">>} ELSE {})
          \cup (IF "Fuz2" \in valid THEN {<<"Fuz2", "Fuz2">>} ELSE {})
  BY DEF BodyTypes
<1> HIDE DEF env, from, id, recv, BodyCk, First, Latest
<1>14. /\ \E X : Checksums(msg, valid) \in Seq(X)
       /\ Pairs(Checksums(msg, valid)) = Pairs(env) \cup Pairs(from) \cup Pairs(id) \cup Pairs(recv)
            \cup Pairs(BodyCk("Body")) \cup Pairs(BodyCk("Fuz1")) \cup Pairs(BodyCk("Fuz2"))
  BY <1>1, <1>8, <1>10, <1>11, <1>12, FewJoin
<1>15. {<<k.type, k.sum>> : k \in ToSet(Packet(Checksums(msg, valid)))} = Pairs(Checksums(msg, valid))
  BY <1>14, PacketPairs
<1> QED BY <1>5, <1>8, <1>10, <1>11, <1>12, <1>13, <1>14, <1>15

-----------------------------------------------------------------------------
(* The counts of an answer that a verdict looks at.                        *)
LEMMA BodyCountsOf ==
  ASSUME NEW cks, NEW held
  PROVE  LET sent == Packet(cks)
         IN  BodyCounts(BuildResult(cks, Reply(sent, held)))
               = {held[sent[i].type] : i \in {j \in DOMAIN sent : sent[j].type \in BodyTypes}}
<1> DEFINE sent   == Packet(cks)
           result == BuildResult(cks, Reply(sent, held))
<1>1. DOMAIN result = DOMAIN sent
  BY DEF BuildResult, Reply
<1>2. \A i \in DOMAIN sent : result[i].type = sent[i].type /\ result[i].cur = held[sent[i].type]
  BY DEF BuildResult, Reply
<1> HIDE DEF sent, result
<1>3. {j \in DOMAIN result : result[j].type \in BodyTypes} = {j \in DOMAIN sent : sent[j].type \in BodyTypes}
  BY <1>1, <1>2
<1>4. BodyCounts(result) = {held[sent[i].type] : i \in {j \in DOMAIN sent : sent[j].type \in BodyTypes}}
  BY <1>1, <1>2, <1>3 DEF BodyCounts
<1> QED BY <1>4 DEF sent, result

(* The largest of a few naturals.                                          *)
LEMMA MaxOfFew ==
  ASSUME NEW a \in Nat, NEW b \in Nat, NEW c \in Nat, NEW S \in SUBSET {a, b, c}
  PROVE  Max(S \cup {0}) \in S \cup {0} /\ \A n \in S \cup {0} : Max(S \cup {0}) >= n
<1>1. \E x \in S \cup {0} : \A y \in S \cup {0} : x >= y
  OBVIOUS
<1> QED BY <1>1 DEF Max

(* The verdict on an answer is the one of reference on the sums that were  *)
(* sent.                                                                   *)
LEMMA VerdictIsTrue ==
  ASSUME NEW cks, NEW held, \A t \in BodyTypes : held[t] \in Nat,
         NEW sums, sums = {<<k.type, k.sum>> : k \in ToSet(Packet(cks))}
  PROVE  VerdictThreshold(BuildResult(cks, Reply(Packet(cks), held)), Many) = TrueVerdict(sums, held)
<1> DEFINE sent   == Packet(cks)
           answer == BodyCounts(BuildResult(cks, Reply(sent, held)))
           counts == {held[s[1]] : s \in {x \in sums : x[1] \in BodyTypes}}
<1>1. answer = {held[sent[i].type] : i \in {j \in DOMAIN sent : sent[j].type \in BodyTypes}}
  BY BodyCountsOf
<1>2. answer = counts
  <2> HIDE DEF answer, sent
  <2>1. ASSUME NEW i \in DOMAIN sent, sent[i].type \in BodyTypes PROVE held[sent[i].type] \in counts
    <3>1. \E s \in sums : s[1] = sent[i].type
      <4>1. <<sent[i].type, sent[i].sum>> \in sums /\ <<sent[i].type, sent[i].sum>>[1] = sent[i].type
        BY DEF sent, ToSet
      <4> QED BY <4>1
    <3> QED BY <2>1, <3>1
  <2>2. ASSUME NEW s \in sums, s[1] \in BodyTypes PROVE held[s[1]] \in answer
    <3>1. PICK i \in DOMAIN sent : s = <<sent[i].type, sent[i].sum>>
      BY DEF sent, ToSet
    <3> QED BY <1>1, <2>2, <3>1
  <2> QED BY <1>1, <2>1, <2>2
<1>3. counts \in SUBSET {held["Body"], held["Fuz1"], held["Fuz2"]}
  BY DEF BodyTypes
<1>4. held["Body"] \in Nat /\ held["Fuz1"] \in Nat /\ held["Fuz2"] \in Nat
  BY DEF BodyTypes
<1> HIDE DEF counts, answer
<1>5. Max(counts \cup {0}) \in counts \cup {0} /\ \A n \in counts \cup {0} : Max(counts \cup {0}) >= n
  BY <1>3, <1>4, MaxOfFew
<1> DEFINE white == \E n \in counts : IsWhite(n)
           many  == \E n \in counts : n >= Many
<1>6. white <=> counts \cap {OK, OK2} # {}
  BY DEF IsWhite
<1>7. (counts # {} /\ Max(counts \cup {0}) >= Many) <=> many
  BY <1>3, <1>4, <1>5, ManyAssumption
<1>8. VerdictThreshold(BuildResult(cks, Reply(sent, held)), Many)
        = CASE white -> "accept"
            [] ~white /\ many -> "reject"
            [] OTHER -> "unknown"
  BY <1>2, <1>7 DEF VerdictThreshold, answer
<1>9. TrueVerdict(sums, held)
        = CASE white -> "accept"
            [] ~white /\ many -> "reject"
            [] OTHER -> "unknown"
  BY <1>6 DEF TrueVerdict, counts
<1> QED BY <1>8, <1>9

(* What is sent to the servers are the sums that stand in the message:     *)
(* the first sender, the last of other fields, each unfolded, the valid    *)
(* body sums, and nothing made up, for every message (Checksums,           *)
(* splitHeadersBody, buildQuery).                                          *)
THEOREM SumsSentAreOfTheMessage == Spec => []SumsAreOfTheMessage
<1>1. IInv => SumsAreOfTheMessage
  <2> SUFFICES ASSUME IInv, NEW h \in Handlers, pc[h] \in Kinds
               PROVE  {<<k.type, k.sum>> : k \in ToSet(Sent[ask[h]])} = Reference[ask[h]].sums
    BY DEF SumsAreOfTheMessage
  <2> DEFINE m == ask[h]
  <2>1. m \in Samples
    BY DEF IInv, Types
  <2>2. m.msg \in Seq(Lines) /\ m.valid \in SUBSET BodyTypes
    BY <2>1, SamplesAssumption
  <2>3. Sent[m] = Packet(Checksums(m.msg, m.valid)) /\ Reference[m].sums = SumsToReport(m.msg, m.valid)
    BY <2>1 DEF Sent, Sums, Reference
  <2> HIDE DEF m
  <2>4. {<<k.type, k.sum>> : k \in ToSet(Sent[m])} = Reference[m].sums
    BY <2>2, <2>3, ChecksumsAre
  <2> QED BY <2>4 DEF m
<1> QED BY InitIInv, NextIInv, <1>1, PTL DEF Spec

(* A check that does not fail counts the verdict on what the server holds  *)
(* of that message, whatever it holds and whatever the other requests do   *)
(* (VerdictThreshold, buildResult, checkHandler).                          *)
THEOREM VerdictsFollowSums == Spec => VerdictsAreTrue
<1>1. IInv /\ SumsAreOfTheMessage /\ [Next]_vars =>
        [\A h \in Handlers :
           (pc[h] = "check" /\ pc'[h] = "observe") =>
             \E c \in {"error"} \cup Reference[ask[h]].verdict : counter' = [counter EXCEPT ![c] = @ + 1]]_vars
  <2> SUFFICES ASSUME IInv, SumsAreOfTheMessage, [Next]_vars,
                      NEW h \in Handlers, pc[h] = "check", pc'[h] = "observe"
               PROVE  \E c \in {"error"} \cup Reference[ask[h]].verdict : counter' = [counter EXCEPT ![c] = @ + 1]
    OBVIOUS
  <2>1. pc \in [Handlers -> Places] /\ ask[h] \in Samples
    BY DEF IInv, Types, Kinds
  <2>2. pc' # pc
    OBVIOUS
  <2>3. PICK g \in Handlers : Accept(g) \/ Work(g)
    BY <2>2 DEF Next, Quiet, Scraping, Serving, vars, ScrapeBegin, ScrapeLock, ScrapeBucket, ScrapeCount,
                ServeReturn, Post, CloseAll, Exit
  <2>4. g = h /\ Answer(h)
    BY <2>1, <2>3 DEF Work, Accept, Gate, Body, Panic, Answer, ObserveLock, ObserveBuckets, ObserveCount,
                      Release, Goto, Kinds
  <2>5. CASE Inc("error")
    BY <2>5 DEF Inc
  <2>6. CASE Sent[ask[h]] # <<>> /\ Inc(Action[ask[h]])
    <3> DEFINE m   == ask[h]
               ref == SumsToReport(m.msg, m.valid)
    <3>1. Sent[m] = Packet(Sums[m]) /\ Reference[m].sums = ref
          /\ Reference[m].verdict = IF ref = {} THEN {} ELSE {TrueVerdict(ref, m.held)}
      BY <2>1 DEF Sent, Reference
    <3>2. {<<k.type, k.sum>> : k \in ToSet(Packet(Sums[m]))} = ref
      BY <3>1 DEF SumsAreOfTheMessage, Kinds
    <3>3. Action[m] = TrueVerdict(ref, m.held)
      <4>1. \A t \in BodyTypes : m.held[t] \in Nat
        BY <2>1, SamplesAssumption
      <4>2. Action[m] = VerdictThreshold(BuildResult(Sums[m], Reply(Packet(Sums[m]), m.held)), Many)
        BY <2>1, <3>1 DEF Action
      <4> QED BY <3>2, <4>1, <4>2, VerdictIsTrue
    <3>4. ref # {}
      <4>1. DOMAIN Packet(Sums[m]) # {}
        <5> DEFINE n == Cardinality(Reported(Sums[m]))
        <5>1. 1 .. n = {} => Packet(Sums[m]) = <<>>
          BY DEF Packet, Select
        <5>2. DOMAIN Packet(Sums[m]) = 1 .. n
          BY DEF Packet, Select
        <5> QED BY <2>6, <3>1, <5>1, <5>2
      <4> QED BY <3>2, <4>1 DEF ToSet
    <3>5. Reference[m].verdict = {Action[m]}
      BY <3>1, <3>3, <3>4
    <3> QED BY <2>6, <3>5 DEF Inc
  <2>7. Inc("error") \/ (Sent[ask[h]] # <<>> /\ Inc(Action[ask[h]]))
    <3>1. ~ Goto(h, "report", "observe")
      BY DEF Goto
    <3> QED BY <2>4, <3>1 DEF Answer
  <2> QED BY <2>5, <2>6, <2>7
<1> QED BY InitIInv, NextIInv, <1>1, SumsSentAreOfTheMessage, PTL DEF Spec, VerdictsAreTrue
=============================================================================
