------------------------------ MODULE CallClock ------------------------------
(***************************************************************************)
(* The time budget of one sequential call of dcc/client.go: how send       *)
(* splits the total deadline over the servers, how exchange backs off, and *)
(* how a cancellation reaches a goroutine blocked in a UDP read.           *)
(*                                                                         *)
(* The clock is an integer number of ticks since send took its deadline.   *)
(* Code takes no time; time passes only in resolve (whose system call      *)
(* knows neither the deadline nor the context) and in the blocking Read.   *)
(* What is sent and answered is the business of DccClient; here an answer  *)
(* just ends a wait, and a stray datagram restarts it.  A racing leg is    *)
(* the case of one server: its deadline is the total one.                  *)
(***************************************************************************)
EXTENDS Integers

CONSTANTS
  Budget,       \* Client.Timeout, in ticks
  CtxDeadlines, \* where min(Timeout, deadline of the context) may fall
  MinBackoff,   \* the least backoff (50 ms)
  BackoffShare, \* the first backoff is this fraction of Timeout (1 << maxXmits)
  NumServers,   \* length of Client.Servers
  MaxXmits,     \* maxXmits
  MaxSlow,      \* BOUND: ticks a call spends resolving
  MaxStray      \* BOUND: stray datagrams a call receives

ASSUME BudgetAssumption ==
  /\ Budget \in Nat \ {0} /\ MinBackoff \in Nat \ {0} /\ BackoffShare \in Nat \ {0}
  /\ CtxDeadlines \subseteq 1 .. Budget
ASSUME SizesAssumption ==
  NumServers \in Nat \ {0} /\ MaxXmits \in Nat \ {0} /\ MaxSlow \in Nat /\ MaxStray \in Nat

VARIABLES
  now,          \* ticks since the call started
  deadline,     \* the total deadline
  pc,           \* where the call is
  srv,          \* the server being tried
  attempt,      \* the deadline passed to exchange
  share,        \* share[s]: the time granted to server s, -1 if never tried
  xmit,         \* transmissions of this exchange
  backoff,      \* its current backoff
  until,        \* the end of the current wait (waitUntil)
  readDeadline, \* the read deadline of the socket
  cancelled,    \* the context is done
  watching,     \* the watcher goroutine of this exchange is still waiting
  slow,         \* ticks spent in resolve so far
  stray,        \* stray datagrams so far
  cancelAt,     \* when the context was cancelled
  stopBy        \* the end of the wait it was cancelled in, or that moment

budget == <<deadline, attempt, share>>
wait   == <<xmit, backoff, until>>
hist   == <<cancelAt, stopBy>>
vars   == <<now, pc, srv, budget, wait, readDeadline, cancelled, watching, slow, stray, hist>>

Servers == 1 .. NumServers
Bigger(a, b)  == IF a >= b THEN a ELSE b
Smaller(a, b) == IF a <= b THEN a ELSE b

(* A fresh socket has no read deadline: a Read blocks until a datagram.    *)
NoDeadline == -1

Running == pc \notin {"ok", "err"}

(* backoff := c.timeout() / (1 << maxXmits), at least 50 ms.               *)
FirstBackoff == Bigger(Budget \div BackoffShare, MinBackoff)

Init ==
  /\ now = 0 /\ deadline \in CtxDeadlines
  /\ pc = "pick" /\ srv = 1
  /\ attempt = 0 /\ share = [s \in Servers |-> -1]
  /\ xmit = 0 /\ backoff = FirstBackoff /\ until = 0 /\ readDeadline = NoDeadline
  /\ cancelled = FALSE /\ watching = FALSE
  /\ slow = 0 /\ stray = 0
  /\ cancelAt = 0 /\ stopBy = 0

-----------------------------------------------------------------------------
(* Slip: every server is given all that remains.                           *)
PickGreedy ==
  /\ pc = "pick"
  /\ LET remaining == deadline - now IN
     \/ remaining <= 0 /\ pc' = "err" /\ UNCHANGED <<attempt, share>>
     \/ /\ remaining > 0 /\ pc' = "dial"
        /\ attempt' = deadline
        /\ share' = [share EXCEPT ![srv] = deadline - now]
  /\ UNCHANGED <<now, srv, deadline, wait, readDeadline, cancelled, watching, slow, stray, hist>>

(* The head of send's loop: the remaining budget is divided among the      *)
(* servers still to try.                                                   *)
Pick ==
  /\ pc = "pick"
  /\ LET remaining == deadline - now
         part == remaining \div (NumServers - srv + 1)
     IN \/ remaining <= 0 /\ pc' = "err" /\ UNCHANGED <<attempt, share>>
        \/ /\ remaining > 0 /\ pc' = "dial"
           /\ attempt' = now + part
           /\ share' = [share EXCEPT ![srv] = part]
  /\ UNCHANGED <<now, srv, deadline, wait, readDeadline, cancelled, watching, slow, stray, hist>>

(* exchange returned an error: give up if the context is done or there is  *)
(* nobody left, else go on.  Its watcher ends with it.                     *)
GiveUp ==
  /\ watching' = FALSE
  /\ IF cancelled \/ srv = NumServers
     THEN pc' = "err" /\ UNCHANGED srv
     ELSE pc' = "pick" /\ srv' = srv + 1

(* Resolved and dialled: the watcher is started.  Or one of them failed.   *)
Dial ==
  /\ pc = "dial"
  /\ \/ pc' = "top" /\ watching' = TRUE /\ UNCHANGED srv
     \/ GiveUp
  /\ xmit' = 0 /\ backoff' = FirstBackoff /\ readDeadline' = NoDeadline
  /\ UNCHANGED <<now, budget, until, cancelled, slow, stray, hist>>

(* The select at the head of the transmit loop.                            *)
Top ==
  /\ pc = "top"
  /\ \/ cancelled /\ GiveUp
     \/ ~cancelled /\ pc' = "write" /\ UNCHANGED <<srv, watching>>
  /\ UNCHANGED <<now, budget, wait, readDeadline, cancelled, slow, stray, hist>>

(* Slip: the wait is not cut at the deadline.                              *)
WriteUncut ==
  /\ pc = "write"
  /\ xmit' = xmit + 1
  /\ until' = now + backoff
  /\ pc' = "check" /\ UNCHANGED <<srv, watching>>
  /\ UNCHANGED <<now, budget, backoff, readDeadline, cancelled, slow, stray, hist>>

(* Write, and the end of the wait for an answer to it.                     *)
Write ==
  /\ pc = "write"
  /\ xmit' = xmit + 1
  /\ \/ /\ pc' = "check" /\ until' = Smaller(now + backoff, attempt)
        /\ UNCHANGED <<srv, watching>>
     \/ GiveUp /\ UNCHANGED until
  /\ UNCHANGED <<now, budget, backoff, readDeadline, cancelled, slow, stray, hist>>

(* Slip: one transmission too many.                                        *)
TimedOutOneMore ==
  IF now >= attempt \/ xmit > MaxXmits
  THEN GiveUp /\ UNCHANGED backoff
  ELSE pc' = "top" /\ backoff' = 2 * backoff /\ UNCHANGED <<srv, watching>>

(* readAnswer returned errTimeout to the transmit loop.                    *)
TimedOut ==
  IF now >= attempt \/ xmit = MaxXmits
  THEN GiveUp /\ UNCHANGED backoff
  ELSE pc' = "top" /\ backoff' = 2 * backoff /\ UNCHANGED <<srv, watching>>

(* Slip: readAnswer does not look at the context before it reads.          *)
CheckBlind ==
  /\ pc = "check"
  /\ \/ now >= until /\ TimedOut
     \/ now < until /\ pc' = "arm" /\ UNCHANGED <<srv, watching, backoff>>
  /\ UNCHANGED <<now, budget, xmit, until, readDeadline, cancelled, slow, stray, hist>>

(* The head of readAnswer's loop: the context, then the clock.             *)
Check ==
  /\ pc = "check"
  /\ \/ cancelled /\ GiveUp /\ UNCHANGED backoff
     \/ ~cancelled /\ now >= until /\ TimedOut
     \/ ~cancelled /\ now < until /\ pc' = "arm" /\ UNCHANGED <<srv, watching, backoff>>
  /\ UNCHANGED <<now, budget, xmit, until, readDeadline, cancelled, slow, stray, hist>>

(* Slip: the read is left without a deadline.                              *)
ArmNever ==
  /\ pc = "arm"
  /\ pc' = "read"
  /\ UNCHANGED <<now, srv, budget, wait, readDeadline, cancelled, watching, slow, stray, hist>>

(* SetReadDeadline(until): a step of its own, the watcher runs beside it.  *)
Arm ==
  /\ pc = "arm"
  /\ readDeadline' = until
  /\ pc' = "read"
  /\ UNCHANGED <<now, srv, budget, wait, cancelled, watching, slow, stray, hist>>

(* The read deadline has not passed.                                       *)
MayBlock == readDeadline = NoDeadline \/ now < readDeadline

ReadTimeout ==
  /\ pc = "read" /\ readDeadline # NoDeadline /\ now >= readDeadline
  /\ TimedOut
  /\ UNCHANGED <<now, budget, xmit, until, readDeadline, cancelled, slow, stray, hist>>

(* A datagram before the read deadline: the answer, or one that fails the  *)
(* exchange, or a stray one that is skipped.                               *)
ReadDatagram ==
  /\ pc = "read" /\ MayBlock
  /\ \/ pc' = "ok" /\ watching' = FALSE /\ UNCHANGED <<srv, stray>>
     \/ GiveUp /\ UNCHANGED stray
     \/ /\ stray < MaxStray /\ stray' = stray + 1
        /\ pc' = "check" /\ UNCHANGED <<srv, watching>>
  /\ UNCHANGED <<now, budget, wait, readDeadline, cancelled, slow, hist>>

-----------------------------------------------------------------------------
(* The user cancels the context.                                           *)
Cancel ==
  /\ Running /\ ~cancelled
  /\ cancelled' = TRUE
  /\ cancelAt' = now
  /\ stopBy' = IF pc \in {"check", "arm", "read"} THEN Bigger(now, until) ELSE now
  /\ UNCHANGED <<now, pc, srv, budget, wait, readDeadline, watching, slow, stray>>

(* The watcher goroutine trips the read deadline, once.                    *)
Watch ==
  /\ watching /\ cancelled
  /\ readDeadline' = now
  /\ watching' = FALSE
  /\ UNCHANGED <<now, pc, srv, budget, wait, cancelled, slow, stray, hist>>

(* Time passes only while the call waits and no other goroutine can run.   *)
Tick ==
  /\ ~(watching /\ cancelled)
  /\ \/ pc = "dial" /\ slow < MaxSlow /\ slow' = slow + 1
     \/ pc = "read" /\ MayBlock /\ UNCHANGED slow
  /\ now < Budget + MaxSlow
  /\ now' = now + 1
  /\ UNCHANGED <<pc, srv, budget, wait, readDeadline, cancelled, watching, stray, hist>>

Returned == ~Running /\ UNCHANGED vars

Code == Pick \/ Dial \/ Top \/ Write \/ Check \/ Arm \/ ReadTimeout
Next == Code \/ ReadDatagram \/ Cancel \/ Watch \/ Tick \/ Returned

Spec == Init /\ [][Next]_vars

(* Goroutines run, and time passes.                                        *)
FairSpec == Spec /\ WF_vars(Code) /\ WF_vars(Watch) /\ WF_vars(Tick)

-----------------------------------------------------------------------------
TypeOK ==
  /\ now \in 0 .. Budget + MaxSlow /\ deadline \in 1 .. Budget
  /\ pc \in {"pick", "dial", "top", "write", "check", "arm", "read", "ok", "err"}
  /\ srv \in Servers
  /\ attempt \in 0 .. Budget
  /\ share \in [Servers -> -1 .. Budget]
  /\ xmit \in 0 .. MaxXmits /\ backoff \in Nat /\ until \in Nat /\ readDeadline \in Nat \cup {NoDeadline}
  /\ cancelled \in BOOLEAN /\ watching \in BOOLEAN
  /\ slow \in 0 .. MaxSlow /\ stray \in 0 .. MaxStray
  /\ cancelAt \in Nat /\ stopBy \in Nat

(* The call never outlives its total budget by more than the time its name *)
(* resolutions took: no wait, backoff, failover or stray datagram stretches*)
(* it (send's deadline, and waitUntil in exchange).                        *)
BudgetHolds == Running => now <= deadline + slow

(* With prompt resolution, each server that is tried is granted at least   *)
(* its even share of the budget, and a call fails only after all of them   *)
(* were tried, unless it was cancelled: a dead server cannot starve the    *)
(* ones behind it (send's loop).                                           *)
EveryServerGetsItsShare ==
  slow = 0 =>
    /\ \A s \in Servers : share[s] # -1 => share[s] >= deadline \div NumServers
    /\ pc = "err" /\ ~cancelled /\ deadline >= NumServers => share[NumServers] # -1

(* A cancellation costs at most the wait it falls into: the call never     *)
(* starts another one (exchange, readAnswer).                              *)
CancelEndsWithTheWait ==
  cancelled /\ pc = "read" => now <= stopBy

(* What the comment in exchange says of the watcher: a read in flight is   *)
(* unblocked promptly when the context is cancelled.                       *)
CancelIsPrompt ==
  cancelled /\ pc = "read" => now = cancelAt

(* Every call returns, cancelled or not, answered or not (send).           *)
CallReturns == <>~Running
=============================================================================
