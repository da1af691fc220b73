------------------------------ MODULE DccClient ------------------------------
(***************************************************************************)
(* The transaction engine of dcc/client.go: send, parallelQuery, exchange  *)
(* and readAnswer, for several calls made concurrently on one Client, over *)
(* a datagram network that loses, duplicates, delays and garbles.          *)
(*                                                                         *)
(* A query with more than one server races one goroutine (a "leg") per     *)
(* server; a report, or a query with one server, runs its legs one after   *)
(* the other.  A leg is one activation of exchange.  Time is abstract:     *)
(* a wait may end by timeout at any moment, and the deadlines are sets of  *)
(* calls and legs for which they have passed.  Servers and network are     *)
(* external: a request, once transmitted, may be answered zero, one or     *)
(* many times, and a datagram may be delivered at any later time, to any   *)
(* socket connected to its sender (ephemeral ports are reused).            *)
(***************************************************************************)
EXTENDS Integers, Sequences

CONSTANTS
  Calls,        \* calls of CheckContext / ReportNContext, each made once
  Reports,      \* the calls among them that are reports
  NumServers,   \* length of Client.Servers, tried in order
  MaxXmits,     \* transmissions per exchange (maxXmits in proto.go)
  Keyed,        \* the client has a password and signs (sender())
  MaxGarbled,   \* BOUND: corrupted datagrams the network makes up
  RidBound,     \* BOUND: rid stays below it, so its 32-bit wrap is not reached
  NoCall        \* the source of counts no server computed

ASSUME CallsAssumption   == Reports \subseteq Calls /\ NoCall \notin Calls
ASSUME ServersAssumption == NumServers \in Nat \ {0}
ASSUME XmitsAssumption   == MaxXmits \in Nat \ {0}
ASSUME KeyedAssumption   == Keyed \in BOOLEAN
ASSUME BoundsAssumption  == MaxGarbled \in Nat /\ RidBound \in Nat

VARIABLES
  rid,          \* Client.rid, the transaction counter shared by all calls
  nums,         \* nums[o]: opNums.r of the call, 0 before send assigns it
  call,         \* call[o]: where send is
  at,           \* at[o]: the server being tried (seq), results taken (par)
  by,           \* by[o]: the server whose counts were returned, 0 if none
  out,          \* out[o]: the result channel of parallelQuery
  cancelled,    \* calls whose context is done
  late,         \* calls whose total deadline has passed
  due,          \* legs whose own share of the budget has been used up
  pc,           \* pc[l]: where the leg is
  xmit,         \* xmit[l]: its transmissions so far
  res,          \* res[l]: what its exchange returned
  val,          \* val[l]: the call the accepted counts were computed for
  tail,         \* tail[l]: transmissions made after the leg was told to end
  asked,        \* requests transmitted
  wire,         \* datagrams the servers' addresses have sent
  served,       \* pairs <<o, s>>: server s processed (for a report: counted) o
  garbled       \* corrupted datagrams so far

callVars == <<rid, nums, call, at, by, out>>
timeVars == <<cancelled, late, due>>
legVars  == <<pc, xmit, res, val, tail>>
netVars  == <<asked, wire, served, garbled>>
vars     == <<callVars, timeVars, legVars, netVars>>

Srv  == 1 .. NumServers

(* A leg l is the exchange of a call l[1] with a server l[2].              *)
Legs == Calls \X Srv

(* The leg the sequential loop is at.                                      *)
Current(o) == <<o, at[o]>>

(* Capacity of the result channel: make(chan res, len(servers)).           *)
OutCap == NumServers

(* "short" is below the header size; "refusal" bears our id but is an op    *)
(* other than answer, or an answer of the wrong length.                    *)
Kinds    == {"short", "refusal", "answer"}
Request  == [srv : Srv, rid : 1 .. RidBound, ask : Calls]
Datagram == [srv : Srv, rid : 1 .. RidBound, kind : Kinds,
             signed : BOOLEAN, val : Calls \cup {NoCall}]

CallStates == {"idle", "seq", "par", "ok", "err"}
LegStates  == {"none", "dial", "top", "write", "wait", "read", "ret", "gone"}
Results    == {"none", "ok", "silent", "told", "reply", "io"}

(* Slip: racing whatever the operation.                                    *)
ParallelAnyOp(o) == NumServers > 1

(* Only queries race, and only when there is somebody to race.             *)
Parallel(o) == o \notin Reports /\ NumServers > 1

(* The leg can see that its work is no longer wanted: its context is done, *)
(* or parallelQuery closed the stop channel on the way to success.         *)
Told(l) == l[1] \in cancelled \/ (Parallel(l[1]) /\ call[l[1]] = "ok")

(* The deadline passed to exchange has passed.                             *)
LegDue(l) == l[1] \in late \/ l \in due

Init ==
  /\ rid = 0
  /\ nums = [o \in Calls |-> 0]
  /\ call = [o \in Calls |-> "idle"]
  /\ at   = [o \in Calls |-> 0]
  /\ by   = [o \in Calls |-> 0]
  /\ out  = [o \in Calls |-> <<>>]
  /\ cancelled = {} /\ late = {} /\ due = {}
  /\ pc   = [l \in Legs |-> "none"]
  /\ xmit = [l \in Legs |-> 0]
  /\ res  = [l \in Legs |-> "none"]
  /\ val  = [l \in Legs |-> NoCall]
  /\ tail = [l \in Legs |-> 0]
  /\ asked = {} /\ wire = {} /\ served = {} /\ garbled = 0

-----------------------------------------------------------------------------
(* The caller: send and parallelQuery.                                     *)

(* No reportable checksum: send returns before it takes a rid.             *)
NoChecksums(o) ==
  /\ call[o] = "idle"
  /\ call' = [call EXCEPT ![o] = "err"]
  /\ UNCHANGED <<rid, nums, at, by, out, timeVars, legVars, netVars>>

(* Slip: the rid is read first and incremented on its own, so that two     *)
(* calls may share one.                                                    *)
StartStaleRid(o) ==
  /\ call[o] = "idle"
  /\ rid < RidBound
  /\ rid' = rid + 1
  /\ \E seen \in 0 .. rid : nums' = [nums EXCEPT ![o] = seen + 1]
  /\ IF Parallel(o)
     THEN /\ call' = [call EXCEPT ![o] = "par"]
          /\ pc' = [l \in Legs |-> IF l[1] = o THEN "dial" ELSE pc[l]]
          /\ UNCHANGED at
     ELSE /\ call' = [call EXCEPT ![o] = "seq"]
          /\ at' = [at EXCEPT ![o] = 1]
          /\ UNCHANGED pc
  /\ UNCHANGED <<by, out, timeVars, xmit, res, val, tail, netVars>>

(* The rid is taken atomically, then the call races or goes one by one.    *)
Start(o) ==
  /\ call[o] = "idle"
  /\ rid < RidBound
  /\ rid' = rid + 1
  /\ nums' = [nums EXCEPT ![o] = rid']
  /\ IF Parallel(o)
     THEN /\ call' = [call EXCEPT ![o] = "par"]
          /\ pc' = [l \in Legs |-> IF l[1] = o THEN "dial" ELSE pc[l]]
          /\ UNCHANGED at
     ELSE /\ call' = [call EXCEPT ![o] = "seq"]
          /\ at' = [at EXCEPT ![o] = 1]
          /\ UNCHANGED pc
  /\ UNCHANGED <<by, out, timeVars, xmit, res, val, tail, netVars>>

(* The head of the sequential loop: nothing is started past the deadline.  *)
SeqPick(o) ==
  /\ call[o] = "seq"
  /\ pc[Current(o)] = "none"
  /\ IF o \in late
     THEN call' = [call EXCEPT ![o] = "err"] /\ UNCHANGED pc
     ELSE pc' = [pc EXCEPT ![Current(o)] = "dial"] /\ UNCHANGED call
  /\ UNCHANGED <<rid, nums, at, by, out, timeVars, xmit, res, val, tail, netVars>>

(* The rest of its body: success, or give up, or on to the next server.    *)
SeqReturn(o) ==
  /\ call[o] = "seq"
  /\ pc[Current(o)] = "ret"
  /\ pc' = [pc EXCEPT ![Current(o)] = "gone"]
  /\ \/ /\ res[Current(o)] = "ok"
        /\ call' = [call EXCEPT ![o] = "ok"]
        /\ by' = [by EXCEPT ![o] = at[o]]
        /\ UNCHANGED at
     \/ /\ res[Current(o)] # "ok"
        /\ o \in cancelled \/ at[o] = NumServers
        /\ call' = [call EXCEPT ![o] = "err"]
        /\ UNCHANGED <<at, by>>
     \/ /\ res[Current(o)] # "ok"
        /\ o \notin cancelled /\ at[o] < NumServers
        /\ at' = [at EXCEPT ![o] = @ + 1]
        /\ UNCHANGED <<call, by>>
  /\ UNCHANGED <<rid, nums, out, timeVars, xmit, res, val, tail, netVars>>

(* Slip: giving up one result early.                                       *)
ParTakeOneShort(o) ==
  /\ call[o] = "par"
  /\ out[o] # <<>>
  /\ out' = [out EXCEPT ![o] = Tail(@)]
  /\ at' = [at EXCEPT ![o] = @ + 1]
  /\ LET l == <<o, Head(out[o])>> IN
     \/ /\ res[l] = "ok"
        /\ call' = [call EXCEPT ![o] = "ok"]
        /\ by' = [by EXCEPT ![o] = l[2]]
     \/ /\ res[l] # "ok"
        /\ call' = [call EXCEPT ![o] = IF at[o] + 2 = NumServers THEN "err" ELSE "par"]
        /\ UNCHANGED by
  /\ UNCHANGED <<rid, nums, timeVars, legVars, netVars>>

(* parallelQuery takes one result off the channel; the first success wins, *)
(* and the last of len(servers) failures ends the call.                    *)
ParTake(o) ==
  /\ call[o] = "par"
  /\ out[o] # <<>>
  /\ out' = [out EXCEPT ![o] = Tail(@)]
  /\ at' = [at EXCEPT ![o] = @ + 1]
  /\ LET l == <<o, Head(out[o])>> IN
     \/ /\ res[l] = "ok"
        /\ call' = [call EXCEPT ![o] = "ok"]
        /\ by' = [by EXCEPT ![o] = l[2]]
     \/ /\ res[l] # "ok"
        /\ call' = [call EXCEPT ![o] = IF at[o] + 1 = NumServers THEN "err" ELSE "par"]
        /\ UNCHANGED by
  /\ UNCHANGED <<rid, nums, timeVars, legVars, netVars>>

-----------------------------------------------------------------------------
(* Time and the user's context.                                            *)

Cancel(o) ==
  /\ call[o] \in {"seq", "par"} /\ o \notin cancelled
  /\ cancelled' = cancelled \cup {o}
  /\ UNCHANGED <<late, due, callVars, legVars, netVars>>

TotalDeadline(o) ==
  /\ call[o] \in {"seq", "par"} /\ o \notin late
  /\ late' = late \cup {o}
  /\ UNCHANGED <<cancelled, due, callVars, legVars, netVars>>

(* A sequential attempt gets a share of what remains; the last one gets    *)
(* all of it, so its deadline is the total deadline.                       *)
AttemptDeadline(o) ==
  /\ call[o] = "seq" /\ at[o] < NumServers
  /\ pc[Current(o)] \notin {"none", "gone"} /\ Current(o) \notin due
  /\ due' = due \cup {Current(o)}
  /\ UNCHANGED <<cancelled, late, callVars, legVars, netVars>>

-----------------------------------------------------------------------------
(* A leg: exchange, with readAnswer inlined ("wait" is the head of its     *)
(* loop, "read" the blocking Read).                                        *)

(* exchange returns r.                                                     *)
Return(l, r) == /\ pc' = [pc EXCEPT ![l] = "ret"]
                /\ res' = [res EXCEPT ![l] = r]

Goto(l, where) == /\ pc' = [pc EXCEPT ![l] = where]
                  /\ UNCHANGED res

(* resolve and DialUDP: neither looks at the context or the deadline.      *)
Dial(l) ==
  /\ pc[l] = "dial"
  /\ Goto(l, "top") \/ Return(l, "io")
  /\ UNCHANGED <<callVars, timeVars, xmit, val, tail, netVars>>

(* The select at the head of the transmit loop.                            *)
Top(l) ==
  /\ pc[l] = "top"
  /\ IF Told(l) THEN Return(l, "told") ELSE Goto(l, "write")
  /\ UNCHANGED <<callVars, timeVars, xmit, val, tail, netVars>>

Write(l) ==
  /\ pc[l] = "write"
  /\ xmit' = [xmit EXCEPT ![l] = @ + 1]
  /\ \/ /\ Goto(l, "wait")
        /\ asked' = asked \cup {[srv |-> l[2], rid |-> nums[l[1]], ask |-> l[1]]}
        /\ tail' = [tail EXCEPT ![l] =
                      IF Told(l) \/ LegDue(l) THEN @ + 1 ELSE @]
     \/ /\ Return(l, "io")
        /\ UNCHANGED <<asked, tail>>
  /\ UNCHANGED <<callVars, timeVars, val, wire, served, garbled>>

(* The head of readAnswer's loop, when the wait is not over.               *)
Wait(l) ==
  /\ pc[l] = "wait"
  /\ IF Told(l) THEN Return(l, "told") ELSE Goto(l, "read")
  /\ UNCHANGED <<callVars, timeVars, xmit, val, tail, netVars>>

(* Slips: one transmission too many; transmitting on past the deadline;    *)
(* listening on after the last transmission until the deadline comes.      *)
TimeoutOneMore(l) ==
  /\ pc[l] = "read" \/ (pc[l] = "wait" /\ ~Told(l))
  /\ IF LegDue(l) \/ xmit[l] > MaxXmits THEN Return(l, "silent") ELSE Goto(l, "top")
  /\ UNCHANGED <<callVars, timeVars, xmit, val, tail, netVars>>

TimeoutPastDeadline(l) ==
  /\ pc[l] = "read" \/ (pc[l] = "wait" /\ ~Told(l))
  /\ IF xmit[l] = MaxXmits THEN Return(l, "silent") ELSE Goto(l, "top")
  /\ UNCHANGED <<callVars, timeVars, xmit, val, tail, netVars>>

TimeoutListenOn(l) ==
  /\ pc[l] = "read" \/ (pc[l] = "wait" /\ ~Told(l))
  /\ IF LegDue(l) THEN Return(l, "silent")
     ELSE Goto(l, IF xmit[l] = MaxXmits THEN "wait" ELSE "top")
  /\ UNCHANGED <<callVars, timeVars, xmit, val, tail, netVars>>

(* The wait is over, at the head of the loop or in the blocked Read (by    *)
(* the read deadline, or by the watcher of the context moving it to now):  *)
(* transmit again unless the deadline or maxXmits says otherwise.          *)
Timeout(l) ==
  /\ pc[l] = "read" \/ (pc[l] = "wait" /\ ~Told(l))
  /\ IF LegDue(l) \/ xmit[l] = MaxXmits
     THEN Return(l, "silent")
     ELSE Goto(l, "top")
  /\ UNCHANGED <<callVars, timeVars, xmit, val, tail, netVars>>

RecvError(l) ==
  /\ pc[l] = "read"
  /\ Return(l, "io")
  /\ UNCHANGED <<callVars, timeVars, xmit, val, tail, netVars>>

(* Slip: the signature is not looked at.                                   *)
ClassifyUnsigned(l, d) ==
  IF d.kind = "short" THEN "fail"
  ELSE IF d.rid # nums[l[1]] THEN "skip"
  ELSE IF d.kind # "answer" THEN "fail" ELSE "accept"

(* What readAnswer makes of a datagram, in the order parseAnswer and       *)
(* verifyAnswerSig look at it.                                             *)
Classify(l, d) ==
  IF d.kind = "short" THEN "fail"
  ELSE IF d.rid # nums[l[1]] THEN "skip"
  ELSE IF d.kind # "answer" THEN "fail"
  ELSE IF Keyed /\ ~d.signed THEN "skip"
  ELSE "accept"

Read(l) ==
  /\ pc[l] = "read"
  /\ \E d \in wire :
       /\ d.srv = l[2]
       /\ \/ /\ Classify(l, d) = "accept"
             /\ Return(l, "ok")
             /\ val' = [val EXCEPT ![l] = d.val]
          \/ /\ Classify(l, d) = "fail"
             /\ Return(l, "reply")
             /\ UNCHANGED val
          \/ /\ Classify(l, d) = "skip"
             /\ Goto(l, "wait")
             /\ UNCHANGED val
  /\ UNCHANGED <<callVars, timeVars, xmit, tail, netVars>>

(* Slip: an unbuffered channel, so a leg posts only while the caller takes. *)
PostUnbuffered(l) ==
  /\ Parallel(l[1])
  /\ pc[l] = "ret"
  /\ call[l[1]] = "par" /\ out[l[1]] = <<>>
  /\ out' = [out EXCEPT ![l[1]] = Append(@, l[2])]
  /\ Goto(l, "gone")
  /\ UNCHANGED <<rid, nums, call, at, by, timeVars, xmit, val, tail, netVars>>

(* The goroutine of a racing leg sends its result and ends.                *)
Post(l) ==
  /\ Parallel(l[1])
  /\ pc[l] = "ret"
  /\ Len(out[l[1]]) < OutCap
  /\ out' = [out EXCEPT ![l[1]] = Append(@, l[2])]
  /\ Goto(l, "gone")
  /\ UNCHANGED <<rid, nums, call, at, by, timeVars, xmit, val, tail, netVars>>

-----------------------------------------------------------------------------
(* The servers and the network (external).                                 *)

Reply(r, kind) == [srv |-> r.srv, rid |-> r.rid, kind |-> kind,
                   signed |-> Keyed, val |-> r.ask]

ServerAnswer ==
  \E r \in asked :
    /\ served' = served \cup {<<r.ask, r.srv>>}
    /\ wire' = wire \cup {Reply(r, "answer")}
    /\ UNCHANGED <<asked, garbled, callVars, timeVars, legVars>>

ServerError ==
  \E r \in asked :
    /\ wire' = wire \cup {Reply(r, "refusal")}
    /\ UNCHANGED <<asked, served, garbled, callVars, timeVars, legVars>>

(* A corrupted datagram from a server's address that still bears the id of *)
(* a request, and no valid signature.                                      *)
Garble ==
  \E r \in asked, k \in Kinds :
    /\ garbled < MaxGarbled
    /\ garbled' = garbled + 1
    /\ wire' = wire \cup {[srv |-> r.srv, rid |-> r.rid, kind |-> k,
                           signed |-> FALSE, val |-> NoCall]}
    /\ UNCHANGED <<asked, served, callVars, timeVars, legVars>>

-----------------------------------------------------------------------------
Returned(o) == call[o] \in {"ok", "err"}

(* Every call has returned and no goroutine is left.                       *)
Quiet ==
  /\ \A o \in Calls : Returned(o)
  /\ \A l \in Legs : pc[l] \in {"none", "gone"}
  /\ UNCHANGED vars

CallerStep(o) == NoChecksums(o) \/ Start(o) \/ SeqPick(o) \/ SeqReturn(o) \/ ParTake(o)
TimeStep(o)   == Cancel(o) \/ TotalDeadline(o) \/ AttemptDeadline(o)
LegStep(l)    == \/ Dial(l) \/ Top(l) \/ Write(l) \/ Wait(l)
                 \/ Timeout(l) \/ RecvError(l) \/ Read(l) \/ Post(l)
NetStep       == ServerAnswer \/ ServerError \/ Garble

Next == \/ \E o \in Calls : CallerStep(o) \/ TimeStep(o)
        \/ \E l \in Legs : LegStep(l)
        \/ NetStep
        \/ Quiet

Spec == Init /\ [][Next]_vars

(* Goroutines are scheduled, resolution and dialling return, and every     *)
(* wait has an end; no answer, no cancellation and no deadline is needed.  *)
Fairness ==
  /\ \A o \in Calls : WF_vars(SeqPick(o) \/ SeqReturn(o) \/ ParTake(o))
  /\ \A l \in Legs : /\ WF_vars(Dial(l) \/ Top(l) \/ Write(l) \/ Wait(l))
                     /\ WF_vars(Timeout(l))
                     /\ WF_vars(Post(l))

FairSpec == Spec /\ Fairness

-----------------------------------------------------------------------------
(* Properties.                                                             *)

CallerTypes == /\ rid \in 0 .. RidBound
               /\ nums \in [Calls -> 0 .. RidBound]
               /\ call \in [Calls -> CallStates]
               /\ at \in [Calls -> 0 .. NumServers]
               /\ by \in [Calls -> 0 .. NumServers]
               /\ out \in [Calls -> Seq(Srv)]
TimeTypes   == cancelled \subseteq Calls /\ late \subseteq Calls /\ due \subseteq Legs
LegTypes    == /\ pc \in [Legs -> LegStates]
               /\ xmit \in [Legs -> 0 .. MaxXmits]
               /\ res \in [Legs -> Results]
               /\ val \in [Legs -> Calls \cup {NoCall}]
               /\ tail \in [Legs -> 0 .. MaxXmits]
NetTypes    == /\ asked \subseteq Request /\ wire \subseteq Datagram
               /\ served \subseteq Legs
               /\ garbled \in 0 .. MaxGarbled

(* Every variable has its type; in particular no leg transmits more than   *)
(* maxXmits times, whatever the network and the deadlines do               *)
(* (exchange's loop).                                                      *)
TypeOK == CallerTypes /\ TimeTypes /\ LegTypes /\ NetTypes

(* The counts can be trusted: the client checks signatures, or the network *)
(* does not corrupt.                                                       *)
Trusted == Keyed \/ MaxGarbled = 0

(* A call that succeeds returns counts its winning server computed for     *)
(* this very call's checksums, though stale answers of other calls, and    *)
(* corrupted ones, reach the same sockets (parseAnswer's id test and       *)
(* verifyAnswerSig).                                                       *)
OkIsGenuine ==
  Trusted => \A o \in Calls :
    call[o] = "ok" => /\ by[o] \in Srv
                      /\ val[<<o, by[o]>>] = o
                      /\ <<o, by[o]>> \in served

(* A report is offered to servers strictly one after the other: by the     *)
(* time an exchange with a later server exists, every earlier one has      *)
(* ended, unanswered and not because the user cancelled.  Otherwise one    *)
(* report would be counted as separate copies (send's comment).            *)
ReportFailsOverInOrder ==
  \A o \in Reports : \A s, t \in Srv :
    s < t /\ pc[<<o, t>>] # "none" =>
      pc[<<o, s>>] = "gone" /\ res[<<o, s>>] \notin {"ok", "told"}

(* A call never fails while one of its exchanges got an answer: the caller *)
(* collects the results of all racing legs before it gives up              *)
(* (parallelQuery's loop).                                                 *)
NoAnswerDropped ==
  \A o \in Calls : call[o] = "err" => \A s \in Srv : res[<<o, s>>] # "ok"

(* Once a leg is told to end (the query won elsewhere, the context done,   *)
(* its deadline passed) it transmits at most once more: the packet it had  *)
(* already decided on, or the first one after a slow resolution.           *)
QuietOnceTold == \A l \in Legs : tail[l] <= 1

(* What the comment in send says: a report advances "only when a server    *)
(* gives no answer at all".                                                *)
AdvanceOnlyOnSilence ==
  \A o \in Reports : \A s \in Srv :
    call[o] = "seq" /\ s < at[o] => res[<<o, s>>] # "reply"

(* Every call that starts returns, though nobody answers and nobody        *)
(* cancels (send).                                                         *)
Returns == \A o \in Calls : call[o] \in {"seq", "par"} ~> Returned(o)

(* Every goroutine parallelQuery started ends, also those that lost the    *)
(* race and whose results nobody takes (the buffered channel absorbs them).*)
LegsQuit == \A l \in Legs : pc[l] # "none" ~> pc[l] = "gone"

(* What the user sees of a call: it does not tell how its servers are tried.*)
Status == [o \in Calls |-> IF call[o] \in {"seq", "par"} THEN "open" ELSE call[o]]

(* The engine implements the promise of DccCall.                           *)
Abs == INSTANCE DccCall WITH NoServer <- 0, status <- Status, handled <- served

(* Every behaviour of the engine is one the abstract call allows.          *)
ImplementsCall == Abs!Spec
=============================================================================
