-------------------------------- MODULE Serve --------------------------------
(***************************************************************************)
(* The HTTP daemon (cmd/gdcc/serve.go, metrics.go): handler goroutines     *)
(* that pass the token check and the concurrency gate, ask the DCC client, *)
(* count what they did and note their latency; a goroutine rendering       *)
(* /metrics; and runServe with one goroutine per listener.                 *)
(*                                                                         *)
(* net/http is external: it starts a goroutine per request, recovers a     *)
(* handler's panic after running its deferred calls, and a call of Serve   *)
(* returns when its listener fails or the server is closed.  The DCC       *)
(* client (DccClient) is here a call that fails, panics, or returns what a *)
(* server holds of the message's checksums (Verdict).                      *)
(* Counters changed by atomic operations change in one step each; a        *)
(* critical section of metrics.mu is a lock step and a step per access.    *)
(***************************************************************************)
EXTENDS Verdict, FiniteSets

CONSTANTS
  Handlers,     \* handler goroutines, reused from request to request
  Listeners,    \* the TCP and Unix listeners that were opened, not empty
  MaxConc,      \* serveConfig.maxConc
  NumBuckets,   \* buckets of the latency histogram
  MaxRequests,  \* BOUND: requests accepted
  MaxScrapes,   \* BOUND: scrapes of /metrics begun
  Samples,      \* BOUND: messages, their valid body sums, and what a server holds of them
  Nobody        \* holder of a free mutex

ASSUME SizesAssumption ==
  MaxConc \in Nat \ {0} /\ NumBuckets \in Nat \ {0} /\ MaxRequests \in Nat /\ MaxScrapes \in Nat

NoSample == [msg |-> <<>>, valid |-> {}, held |-> <<>>]
Scraper  == "scraper"
Buckets  == 1 .. NumBuckets
Kinds    == {"check", "report"}
Verdicts == {"reject", "accept", "unknown"}
Counters == Kinds \cup Verdicts \cup {"error"}

ASSUME NamesAssumption ==
  /\ IsFiniteSet(Handlers) /\ IsFiniteSet(Listeners)
  /\ Nobody \notin Handlers /\ Scraper \notin Handlers /\ Nobody # Scraper

(* Lines are not empty, and counts are unsigned words.                     *)
ASSUME SamplesAssumption ==
  \A m \in Samples :
    /\ m.msg \in Seq(Lines) /\ m.valid \subseteq BodyTypes
    /\ \A t \in BodyTypes : m.held[t] \in Nat

VARIABLES
  pc,           \* pc[h]: where the handler is
  ask,          \* ask[h]: the sample it is in the DCC client with
  sem,          \* tokens in the channel sem
  counter,      \* the atomic counters
  lock,         \* the holder of metrics.mu
  bcounts,      \* the buckets
  count,        \* the number of observations
  scrape,       \* the next line of a scrape, 0 when there is none
  seen,         \* what the scrape has read
  srv,          \* srv[l]: "serving", "failed" (not posted yet), or "gone"
  errc,         \* errors in the channel errc
  main,         \* runServe: "wait", "join" or "exit"
  accepted,     \* requests so far
  scrapes,      \* scrapes so far
  reported,     \* reports that succeeded, in all
  panicked      \* handlers that panicked in the DCC client, in all

hist    == <<accepted, scrapes, reported, panicked>>
metrics == <<counter, bcounts, count>>
listen  == <<srv, errc, main>>
vars    == <<pc, ask, sem, metrics, lock, scrape, seen, listen, hist>>

Init ==
  /\ pc = [h \in Handlers |-> "idle"]
  /\ ask = [h \in Handlers |-> NoSample]
  /\ sem = 0
  /\ counter = [c \in Counters |-> 0]
  /\ lock = Nobody
  /\ bcounts = [b \in Buckets |-> 0] /\ count = 0
  /\ scrape = 0
  /\ seen = [bcounts |-> bcounts, count |-> 0]
  /\ srv = [l \in Listeners |-> "serving"] /\ errc = 0 /\ main = "wait"
  /\ accepted = 0 /\ scrapes = 0 /\ reported = 0 /\ panicked = 0

Goto(h, from, to) == main # "exit" /\ pc[h] = from /\ pc' = [pc EXCEPT ![h] = to]
Inc(c) == counter' = [counter EXCEPT ![c] = @ + 1]

-----------------------------------------------------------------------------
(* A request arrives, and the token check passes it on or refuses it.      *)
Accept(h) ==
  /\ accepted < MaxRequests /\ \E l \in Listeners : srv[l] = "serving"
  /\ Goto(h, "idle", "gate") \/ Goto(h, "idle", "idle")
  /\ accepted' = accepted + 1
  /\ UNCHANGED <<ask, sem, metrics, lock, scrape, seen, listen, scrapes, reported, panicked>>

(* Slip: one more than the limit.                                          *)
GateOneMore(h) ==
  /\ \/ sem <= MaxConc /\ sem' = sem + 1 /\ Goto(h, "gate", "body")
     \/ sem > MaxConc /\ UNCHANGED sem /\ Goto(h, "gate", "idle")
  /\ UNCHANGED <<ask, metrics, lock, scrape, seen, listen, hist>>

(* The select of gate: a token, or 503.                                    *)
Gate(h) ==
  /\ \/ sem < MaxConc /\ sem' = sem + 1 /\ Goto(h, "gate", "body")
     \/ sem = MaxConc /\ UNCHANGED sem /\ Goto(h, "gate", "idle")
  /\ UNCHANGED <<ask, metrics, lock, scrape, seen, listen, hist>>

(* readBody: a wrong method or an unreadable body ends the handler; else   *)
(* the request is counted.  Which endpoint was asked for, and with what    *)
(* message, matters from here on, in the client's Check or Report.         *)
Body(h) ==
  /\ \/ Goto(h, "body", "observe") /\ UNCHANGED <<counter, ask>>
     \/ \E k \in Kinds, m \in Samples : Goto(h, "body", k) /\ Inc(k) /\ ask' = [ask EXCEPT ![h] = m]
  /\ UNCHANGED <<sem, bcounts, count, lock, scrape, seen, listen, hist>>

Returned(h) == ask' = [ask EXCEPT ![h] = NoSample]

(* Slip: the token is not given back by a deferred call.                   *)
PanicKeepingToken(h) ==
  /\ \E k \in Kinds : Goto(h, k, "idle")
  /\ Returned(h)
  /\ panicked' = panicked + 1
  /\ UNCHANGED <<sem, metrics, lock, scrape, seen, listen, accepted, scrapes, reported>>

(* A panic in Check or Report: only the deferred receive of gate runs, so  *)
(* the latency is not observed.                                            *)
Panic(h) ==
  /\ \E k \in Kinds : Goto(h, k, "idle")
  /\ Returned(h)
  /\ sem' = sem - 1
  /\ panicked' = panicked + 1
  /\ UNCHANGED <<metrics, lock, scrape, seen, listen, accepted, scrapes, reported>>

(* Check and Report begin with the checksums of the message, and Check     *)
(* ends with a verdict on the answer of a server.                          *)
Sums   == [m \in Samples |-> Checksums(m.msg, m.valid)]
Sent   == [m \in Samples |-> Packet(Sums[m])]
Action == [m \in Samples |-> VerdictThreshold(BuildResult(Sums[m], Reply(Sent[m], m.held)), Many)]

(* Slip: no return after the error of a report is counted.                 *)
AnswerBoth(h) ==
  /\ \/ (\E k \in Kinds : Goto(h, k, "observe")) /\ Inc("error") /\ UNCHANGED reported
     \/ Goto(h, "check", "observe") /\ Sent[ask[h]] # <<>> /\ Inc(Action[ask[h]]) /\ UNCHANGED reported
     \/ /\ Goto(h, "report", "observe") /\ Sent[ask[h]] # <<>>
        /\ reported' = reported + 1 /\ (Inc("error") \/ UNCHANGED counter)
  /\ Returned(h)
  /\ UNCHANGED <<sem, bcounts, count, lock, scrape, seen, listen, accepted, scrapes, panicked>>

(* The client fails, as it must with nothing to send, or a check gets a    *)
(* verdict, or a report is made; the outcome is counted and the answer     *)
(* written.                                                                *)
Answer(h) ==
  /\ \/ (\E k \in Kinds : Goto(h, k, "observe")) /\ Inc("error") /\ UNCHANGED reported
     \/ Goto(h, "check", "observe") /\ Sent[ask[h]] # <<>> /\ Inc(Action[ask[h]]) /\ UNCHANGED reported
     \/ /\ Goto(h, "report", "observe") /\ Sent[ask[h]] # <<>>
        /\ reported' = reported + 1 /\ UNCHANGED counter
  /\ Returned(h)
  /\ UNCHANGED <<sem, bcounts, count, lock, scrape, seen, listen, accepted, scrapes, panicked>>

(* observe awaits the lock.                                                *)
ObserveLock(h) ==
  /\ Goto(h, "observe", "buckets")
  /\ lock = Nobody /\ lock' = h
  /\ UNCHANGED <<ask, sem, metrics, scrape, seen, listen, hist>>

(* Every bucket whose bound is not below the latency, the first being      *)
(* fits; none when it is beyond all.                                       *)
ObserveBuckets(h) ==
  /\ Goto(h, "buckets", "count")
  /\ \E fits \in 1 .. NumBuckets + 1 :
       bcounts' = [b \in Buckets |-> IF b >= fits THEN bcounts[b] + 1 ELSE bcounts[b]]
  /\ UNCHANGED <<ask, sem, counter, count, lock, scrape, seen, listen, hist>>

ObserveCount(h) ==
  /\ Goto(h, "count", "release")
  /\ count' = count + 1
  /\ lock' = Nobody
  /\ UNCHANGED <<ask, sem, counter, bcounts, scrape, seen, listen, hist>>

(* The deferred receive of gate.                                           *)
Release(h) ==
  /\ Goto(h, "release", "idle")
  /\ sem' = sem - 1
  /\ UNCHANGED <<ask, metrics, lock, scrape, seen, listen, hist>>

-----------------------------------------------------------------------------
AtLock      == 1
AtBucket(b) == 1 + b
AtCount     == 2 + NumBuckets

(* The atomic counters are loaded first, one after the other: nothing is   *)
(* promised of the values a scrape shows together, and they are left out.  *)
ScrapeBegin ==
  /\ main # "exit" /\ scrape = 0 /\ scrapes < MaxScrapes
  /\ scrape' = 1 /\ scrapes' = scrapes + 1
  /\ UNCHANGED <<ask, pc, sem, metrics, lock, seen, listen, accepted, reported, panicked>>

(* Slip: the histogram is read without the lock.                           *)
ScrapeNoLock ==
  /\ main # "exit" /\ scrape = AtLock
  /\ scrape' = scrape + 1
  /\ UNCHANGED <<ask, pc, sem, metrics, lock, seen, listen, hist>>

ScrapeLock ==
  /\ main # "exit" /\ scrape = AtLock
  /\ lock = Nobody /\ lock' = Scraper
  /\ scrape' = scrape + 1
  /\ UNCHANGED <<ask, pc, sem, metrics, seen, listen, hist>>

ScrapeBucket ==
  /\ main # "exit"
  /\ \E b \in Buckets : scrape = AtBucket(b) /\ seen' = [seen EXCEPT !.bcounts[b] = bcounts[b]]
  /\ scrape' = scrape + 1
  /\ UNCHANGED <<ask, pc, sem, metrics, lock, listen, hist>>

(* Slip: the mutex stays locked.                                           *)
ScrapeKeepLock ==
  /\ main # "exit" /\ scrape = AtCount
  /\ seen' = [seen EXCEPT !.count = count]
  /\ scrape' = 0
  /\ UNCHANGED <<ask, pc, sem, metrics, lock, listen, hist>>

(* The last line, and the deferred Unlock.                                 *)
ScrapeCount ==
  /\ main # "exit" /\ scrape = AtCount
  /\ seen' = [seen EXCEPT !.count = count]
  /\ lock' = Nobody /\ scrape' = 0
  /\ UNCHANGED <<ask, pc, sem, metrics, listen, hist>>

-----------------------------------------------------------------------------
(* Serve returns: its listener failed, or the server was closed.           *)
ServeReturn(l) ==
  /\ main # "exit" /\ srv[l] = "serving"
  /\ srv' = [srv EXCEPT ![l] = "failed"]
  /\ UNCHANGED <<ask, pc, sem, metrics, lock, scrape, seen, errc, main, hist>>

(* Slip: errc has no buffer, so only the waiting runServe takes an error.  *)
PostUnbuffered(l) ==
  /\ main = "wait" /\ errc = 0 /\ srv[l] = "failed"
  /\ errc' = errc + 1
  /\ srv' = [srv EXCEPT ![l] = "gone"]
  /\ UNCHANGED <<ask, pc, sem, metrics, lock, scrape, seen, main, hist>>

(* errc <- err, and wg.Done.                                               *)
Post(l) ==
  /\ main # "exit" /\ srv[l] = "failed" /\ errc < Cardinality(Listeners)
  /\ errc' = errc + 1
  /\ srv' = [srv EXCEPT ![l] = "gone"]
  /\ UNCHANGED <<ask, pc, sem, metrics, lock, scrape, seen, main, hist>>

(* err := <-errc, then srv.Close, which makes every other Serve return.    *)
CloseAll ==
  /\ main = "wait" /\ errc > 0
  /\ errc' = errc - 1
  /\ main' = "join"
  /\ srv' = [l \in Listeners |-> IF srv[l] = "serving" THEN "failed" ELSE srv[l]]
  /\ UNCHANGED <<ask, pc, sem, metrics, lock, scrape, seen, hist>>

(* wg.Wait, and the process exits with whatever handlers still run.        *)
Exit ==
  /\ main = "join" /\ \A l \in Listeners : srv[l] = "gone"
  /\ main' = "exit"
  /\ UNCHANGED <<ask, pc, sem, metrics, lock, scrape, seen, srv, errc, hist>>

-----------------------------------------------------------------------------
Work(h) == \/ Gate(h) \/ Body(h) \/ Panic(h) \/ Answer(h)
           \/ ObserveLock(h) \/ ObserveBuckets(h) \/ ObserveCount(h) \/ Release(h)
Scraping == ScrapeLock \/ ScrapeBucket \/ ScrapeCount
Serving == (\E l \in Listeners : Post(l)) \/ CloseAll \/ Exit

(* The bounds are used up, or the process has exited.                      *)
Quiet == /\ main = "exit" \/ (accepted = MaxRequests /\ scrapes = MaxScrapes)
         /\ UNCHANGED vars

Next == \/ \E h \in Handlers : Accept(h) \/ Work(h)
        \/ ScrapeBegin \/ Scraping
        \/ (\E l \in Listeners : ServeReturn(l)) \/ Serving
        \/ Quiet

Spec == Init /\ [][Next]_vars

(* Goroutines run, the DCC client returns (DccClient!Returns), and a free  *)
(* mutex is taken by one of those that wait for it.                        *)
FairSpec ==
  /\ Spec
  /\ \A h \in Handlers : WF_vars(Work(h))
  /\ WF_vars(Scraping)
  /\ WF_vars(Serving)

-----------------------------------------------------------------------------
InHandler == {h \in Handlers : pc[h] \notin {"idle", "gate"}}
Locked    == {h \in Handlers : pc[h] \in {"buckets", "count"}}

Snapshots == [bcounts : [Buckets -> 0 .. MaxRequests], count : 0 .. MaxRequests]

TypeOK ==
  /\ pc \in [Handlers -> {"idle", "gate", "body", "check", "report", "observe", "buckets", "count", "release"}]
  /\ ask \in [Handlers -> Samples \cup {NoSample}]
  /\ sem \in 0 .. MaxConc
  /\ lock \in Handlers \cup {Nobody, Scraper}
  /\ counter \in [Counters -> 0 .. MaxRequests]
  /\ [bcounts |-> bcounts, count |-> count] \in Snapshots /\ seen \in Snapshots
  /\ scrape \in 0 .. AtCount
  /\ srv \in [Listeners -> {"serving", "failed", "gone"}]
  /\ errc \in 0 .. Cardinality(Listeners) /\ main \in {"wait", "join", "exit"}
  /\ accepted \in 0 .. MaxRequests /\ scrapes \in 0 .. MaxScrapes
  /\ reported \in 0 .. MaxRequests /\ panicked \in 0 .. MaxRequests

(* A request is turned away with 503 only while MaxConc others are being   *)
(* handled, after any history of errors, refused bodies and panics (gate). *)
BusyOnlyWhenFull ==
  [][\A h \in Handlers : pc[h] = "gate" /\ pc'[h] = "idle" => Cardinality(InHandler) = MaxConc]_vars

(* Every request that reached the DCC client is accounted for once: it is  *)
(* still there, or it failed, got a verdict, was reported, or panicked     *)
(* (checkHandler, reportHandler).                                          *)
EveryRequestCounted ==
  counter["check"] + counter["report"] =
    counter["error"] + counter["reject"] + counter["accept"] + counter["unknown"]
      + reported + panicked + Cardinality({h \in Handlers : pc[h] \in Kinds})

(* What is to be sent of a message, and the verdict on it, by reference.   *)
Reference ==
  [m \in Samples |->
     LET sums == SumsToReport(m.msg, m.valid)
     IN  [sums |-> sums, verdict |-> IF sums = {} THEN {} ELSE {TrueVerdict(sums, m.held)}]]

(* What is sent to the servers, for a check or a report, are the sums that *)
(* stand in the message: the first sender, the last of other fields, each  *)
(* unfolded, the valid body sums, and nothing made up (Checksums,          *)
(* splitHeadersBody, buildQuery).                                          *)
SumsAreOfTheMessage ==
  \A h \in Handlers : pc[h] \in Kinds => {<<k.type, k.sum>> : k \in ToSet(Sent[ask[h]])} = Reference[ask[h]].sums

(* A check that does not fail counts and answers the verdict on what the   *)
(* server holds of this message's body: accept if any sum is whitelisted,  *)
(* however bulky the others or the header's, else reject if any is bulk    *)
(* (VerdictThreshold, buildResult, checkHandler).                          *)
VerdictsAreTrue ==
  [][\A h \in Handlers :
       (pc[h] = "check" /\ pc'[h] = "observe") =>
         \E c \in {"error"} \cup Reference[ask[h]].verdict : counter' = [counter EXCEPT ![c] = @ + 1]]_vars

(* A scrape shows a histogram that existed: the buckets are cumulative and *)
(* none holds more than the count (observe, ServeHTTP).                    *)
ScrapeIsConsistent ==
  scrape = 0 =>
    /\ \A b \in Buckets : seen.bcounts[b] <= seen.count
    /\ \A b, d \in Buckets : b <= d => seen.bcounts[b] <= seen.bcounts[d]

(* Every request that is being handled ends, or the process does (gate,    *)
(* instrument, observe).                                                   *)
RequestsEnd == \A h \in Handlers : pc[h] # "idle" ~> pc[h] = "idle" \/ main = "exit"

(* When one listener fails, the others are shut down and the daemon exits  *)
(* (runServe).                                                             *)
OneFailureEndsAll == (\E l \in Listeners : srv[l] = "failed") ~> main = "exit"
=============================================================================
