--------------------------- MODULE CallClockProofs ---------------------------
(***************************************************************************)
(* That no call outlives its budget, that a cancellation costs at most the *)
(* wait it falls into, and that every server gets its share of the budget, *)
(* for any budget, number of servers, backoff and number of transmissions. *)
(***************************************************************************)
EXTENDS CallClock, TLAPS

(* No exchange is granted time beyond the total deadline, nor a wait time  *)
(* beyond the exchange.                                                    *)
DeadlinesNest ==
  /\ attempt <= deadline
  /\ pc \in {"check", "arm", "read"} => until <= attempt
  /\ pc \in {"top", "write"} => xmit < MaxXmits

(* A blocking Read has a deadline: the end of the wait, or, once the       *)
(* watcher tripped it, a moment that has passed.                           *)
ReadIsBounded ==
  pc = "read" =>
    /\ readDeadline # NoDeadline
    /\ readDeadline <= deadline + slow
    /\ ~cancelled => readDeadline = until

(* Outside resolve, time passes only within the deadline.                  *)
ClockIsBounded == now <= deadline + slow

(* After a cancellation the wait and its read deadline end by stopBy.      *)
StopIsNear ==
  cancelled /\ pc \in {"arm", "read"} =>
    /\ until <= stopBy
    /\ now <= stopBy
    /\ pc = "read" => readDeadline <= stopBy

IInv == TypeOK /\ DeadlinesNest /\ ReadIsBounded /\ ClockIsBounded /\ StopIsNear

(* An integer share of the remaining time is not more than all of it.      *)
LEMMA ShareIsPart ==
  ASSUME NEW x \in Nat, NEW k \in Nat \ {0} PROVE x \div k \in 0 .. x
  OBVIOUS

LEMMA FirstBackoffIsNat == FirstBackoff \in Nat
<1>1. Budget \div BackoffShare \in Nat
  BY BudgetAssumption, ShareIsPart
<1> QED BY <1>1, BudgetAssumption DEF FirstBackoff, Bigger

LEMMA InitIInv == Init => IInv
<1> SUFFICES ASSUME Init PROVE IInv
  OBVIOUS
<1>1. deadline \in 1 .. Budget
  BY BudgetAssumption DEF Init
<1>2. share \in [Servers -> -1 .. Budget] /\ srv \in Servers
  BY BudgetAssumption, SizesAssumption DEF Init, Servers
<1>3. TypeOK
  <2>1. /\ now \in 0 .. Budget + MaxSlow /\ attempt \in 0 .. Budget
        /\ xmit \in 0 .. MaxXmits /\ slow \in 0 .. MaxSlow /\ stray \in 0 .. MaxStray
        /\ until \in Nat /\ cancelAt \in Nat /\ stopBy \in Nat
    BY BudgetAssumption, SizesAssumption DEF Init
  <2>2. backoff \in Nat /\ readDeadline \in Nat \cup {NoDeadline}
    BY FirstBackoffIsNat DEF Init
  <2>3. cancelled \in BOOLEAN /\ watching \in BOOLEAN /\ pc = "pick"
    BY DEF Init
  <2> QED BY <1>1, <1>2, <2>1, <2>2, <2>3 DEF TypeOK
<1>4. DeadlinesNest /\ ReadIsBounded /\ ClockIsBounded /\ StopIsNear
  BY <1>1 DEF Init, DeadlinesNest, ReadIsBounded, ClockIsBounded, StopIsNear
<1> QED BY <1>3, <1>4 DEF IInv

LEMMA GiveUpIsSafe ==
  ASSUME IInv, GiveUp
  PROVE  pc' \in {"pick", "err"} /\ srv' \in Servers /\ watching' = FALSE
  BY SizesAssumption DEF IInv, TypeOK, GiveUp, Servers

(* A step that ends an exchange, or only moves the call, keeps the         *)
(* invariant: its bounds speak of the states within an exchange.           *)
LEMMA MoveIInv ==
  ASSUME IInv,
         UNCHANGED <<now, budget, until, cancelled, slow, hist>>,
         pc' \in {"pick", "dial", "ok", "err"},
         srv' \in Servers, watching' \in BOOLEAN,
         xmit' \in 0 .. MaxXmits, backoff' \in Nat, readDeadline' \in Nat \cup {NoDeadline},
         stray' \in 0 .. MaxStray
  PROVE  IInv'
  BY DEF IInv, TypeOK, DeadlinesNest, ReadIsBounded, ClockIsBounded, StopIsNear, budget, hist

LEMMA NextIInv == IInv /\ [Next]_vars => IInv'
<1> SUFFICES ASSUME IInv, [Next]_vars PROVE IInv'
  OBVIOUS
<1> USE BudgetAssumption, SizesAssumption
    DEF IInv, TypeOK, DeadlinesNest, ReadIsBounded, ClockIsBounded, StopIsNear,
        NoDeadline, budget, wait, hist
<1>1. CASE Pick
  <2> DEFINE remaining == deadline - now
  <2> DEFINE part == remaining \div (NumServers - srv + 1)
  <2>1. CASE remaining <= 0
    BY <1>1, <2>1 DEF Pick
  <2>2. CASE remaining > 0
    <3>1. remaining \in Nat /\ NumServers - srv + 1 \in Nat \ {0}
      BY <2>2 DEF Servers
    <3>2. part \in 0 .. remaining
      BY <3>1, ShareIsPart
    <3> HIDE DEF part
    <3>3. /\ pc' = "dial" /\ attempt' = now + part
          /\ share' = [share EXCEPT ![srv] = part]
      BY <1>1, <2>2 DEF Pick, part
    <3>4. UNCHANGED <<now, srv, deadline, wait, readDeadline, cancelled, watching, slow, stray, hist>>
      BY <1>1 DEF Pick
    <3>5. part \in Nat /\ now + part <= deadline /\ deadline <= Budget
      BY <3>2
    <3>6. attempt' \in 0 .. Budget /\ share' \in [Servers -> -1 .. Budget]
      BY <3>3, <3>5
    <3>7. TypeOK'
      BY <3>3, <3>4, <3>6
    <3>8. DeadlinesNest' /\ ReadIsBounded' /\ ClockIsBounded' /\ StopIsNear'
      BY <3>3, <3>4, <3>5
    <3> QED BY <3>7, <3>8
  <2> QED BY <2>1, <2>2
<1>2. CASE Dial
  <2>1. /\ xmit' = 0 /\ backoff' = FirstBackoff /\ readDeadline' = NoDeadline
        /\ UNCHANGED <<now, budget, until, cancelled, slow, stray, hist>>
    BY <1>2 DEF Dial
  <2>2. CASE GiveUp
    <3>1. xmit' \in 0 .. MaxXmits /\ backoff' \in Nat /\ readDeadline' \in Nat \cup {NoDeadline}
      BY <2>1, FirstBackoffIsNat
    <3>2. UNCHANGED <<now, budget, until, cancelled, slow, hist>> /\ stray' \in 0 .. MaxStray
      BY <2>1
    <3>3. pc' \in {"pick", "err"} /\ srv' \in Servers /\ watching' \in BOOLEAN
      BY <2>2, GiveUpIsSafe
    <3> QED BY <3>1, <3>2, <3>3, MoveIInv
  <2>3. CASE pc' = "top" /\ watching' = TRUE /\ UNCHANGED srv
    BY <2>1, <2>3, FirstBackoffIsNat
  <2> QED BY <1>2, <2>2, <2>3 DEF Dial
<1>3. CASE Top
  <2>1. UNCHANGED <<now, budget, wait, readDeadline, cancelled, slow, stray, hist>> /\ pc = "top"
    BY <1>3 DEF Top
  <2>2. CASE GiveUp
    BY <2>1, <2>2, GiveUpIsSafe, MoveIInv
  <2>3. CASE pc' = "write" /\ UNCHANGED <<srv, watching>>
    BY <2>1, <2>3
  <2> QED BY <1>3, <2>2, <2>3 DEF Top
<1>4. CASE Write
  <2>1. /\ xmit' = xmit + 1 /\ pc = "write"
        /\ UNCHANGED <<now, budget, backoff, readDeadline, cancelled, slow, stray, hist>>
    BY <1>4 DEF Write
  <2>2. xmit' \in 0 .. MaxXmits
    BY <2>1
  <2>3. CASE GiveUp /\ UNCHANGED until
    BY <2>1, <2>2, <2>3, GiveUpIsSafe, MoveIInv
  <2>4. CASE pc' = "check" /\ until' = Smaller(now + backoff, attempt) /\ UNCHANGED <<srv, watching>>
    <3>1. until' \in Nat /\ until' <= attempt
      BY <2>4 DEF Smaller
    <3> QED BY <2>1, <2>2, <2>4, <3>1
  <2> QED BY <1>4, <2>3, <2>4 DEF Write
<1>13. ASSUME TimedOut, UNCHANGED <<now, budget, xmit, until, readDeadline, cancelled, slow, stray, hist>>
       PROVE  IInv'
  <2>1. CASE GiveUp /\ UNCHANGED backoff
    BY <1>13, <2>1, GiveUpIsSafe, MoveIInv
  <2>2. CASE xmit # MaxXmits /\ pc' = "top" /\ backoff' = 2 * backoff /\ UNCHANGED <<srv, watching>>
    BY <1>13, <2>2
  <2> QED BY <1>13, <2>1, <2>2 DEF TimedOut
<1>5. CASE Check
  <2>1. UNCHANGED <<now, budget, xmit, until, readDeadline, cancelled, slow, stray, hist>> /\ pc = "check"
    BY <1>5 DEF Check
  <2>2. CASE GiveUp /\ UNCHANGED backoff
    BY <2>1, <2>2, GiveUpIsSafe, MoveIInv
  <2>3. CASE TimedOut
    BY <1>13, <2>1, <2>3
  <2>4. CASE ~cancelled /\ pc' = "arm" /\ UNCHANGED <<srv, watching, backoff>>
    BY <2>1, <2>4
  <2> QED BY <1>5, <2>2, <2>3, <2>4 DEF Check
<1>6. CASE Arm
  <2>1. /\ pc = "arm" /\ pc' = "read" /\ readDeadline' = until
        /\ UNCHANGED <<now, srv, budget, wait, cancelled, watching, slow, stray, hist>>
    BY <1>6 DEF Arm
  <2> QED BY <2>1
<1>7. CASE ReadTimeout
  BY <1>7, <1>13 DEF ReadTimeout
<1>8. CASE ReadDatagram
  <2>1. UNCHANGED <<now, budget, wait, readDeadline, cancelled, slow, hist>> /\ pc = "read"
    BY <1>8 DEF ReadDatagram
  <2>2. CASE pc' = "ok" /\ watching' = FALSE /\ UNCHANGED <<srv, stray>>
    BY <2>1, <2>2, MoveIInv
  <2>3. CASE GiveUp /\ UNCHANGED stray
    BY <2>1, <2>3, GiveUpIsSafe, MoveIInv
  <2>4. CASE stray < MaxStray /\ stray' = stray + 1 /\ pc' = "check" /\ UNCHANGED <<srv, watching>>
    BY <2>1, <2>4
  <2> QED BY <1>8, <2>2, <2>3, <2>4 DEF ReadDatagram
<1>9. CASE Cancel
  BY <1>9 DEF Cancel, Bigger
<1>10. CASE Watch
  <2>1. /\ cancelled /\ readDeadline' = now /\ watching' = FALSE
        /\ UNCHANGED <<now, pc, srv, budget, wait, cancelled, slow, stray, hist>>
    BY <1>10 DEF Watch
  <2>2. TypeOK'
    <3>0. now \in Nat /\ readDeadline' = now
      BY <2>1
    <3>1. readDeadline' \in Nat \cup {NoDeadline} /\ watching' \in BOOLEAN
      BY <2>1, <3>0
    <3> HIDE DEF NoDeadline
    <3> QED BY <2>1, <3>1
  <2>3. DeadlinesNest' /\ ClockIsBounded'
    BY <2>1
  <2>4. ReadIsBounded'
    BY <2>1
  <2>5. StopIsNear'
    BY <2>1
  <2> QED BY <2>2, <2>3, <2>4, <2>5
<1>11. CASE Tick
  BY <1>11 DEF Tick, MayBlock
<1>12. CASE UNCHANGED vars
  BY <1>12 DEF vars
<1> QED
  BY <1>1, <1>2, <1>3, <1>4, <1>5, <1>6, <1>7, <1>8, <1>9, <1>10, <1>11, <1>12
  DEF Next, Code, Returned

(* The types of a call's clock and deadlines (send, exchange).             *)
THEOREM ClockTypes == Spec => []TypeOK
<1>1. IInv => TypeOK
  BY DEF IInv
<1> QED BY InitIInv, NextIInv, <1>1, PTL DEF Spec

(* No wait, backoff, failover or stray datagram stretches a call beyond    *)
(* its deadline by more than its name resolutions took (send, exchange).   *)
THEOREM CallsKeepTheBudget == Spec => []BudgetHolds
<1>1. IInv => BudgetHolds
  BY DEF IInv, ClockIsBounded, BudgetHolds
<1> QED BY InitIInv, NextIInv, <1>1, PTL DEF Spec

(* A cancelled call never begins another wait (exchange, readAnswer).      *)
THEOREM CancellingEndsTheWait == Spec => []CancelEndsWithTheWait
<1>1. IInv => CancelEndsWithTheWait
  BY DEF IInv, StopIsNear, CancelEndsWithTheWait
<1> QED BY InitIInv, NextIInv, <1>1, PTL DEF Spec

-----------------------------------------------------------------------------
(* Products keep the order, and dividing by a factor does.                 *)
LEMMA Times ==
  ASSUME NEW x \in Int, NEW y \in Int, NEW k \in Nat, x <= y PROVE x * k <= y * k
<1>1. PICK d \in Nat : y = x + d
  OBVIOUS
<1>2. d * k \in Nat /\ (x + d) * k = x * k + d * k /\ x * k \in Int
  OBVIOUS
<1> QED BY <1>1, <1>2

LEMMA Over ==
  ASSUME NEW x \in Int, NEW y \in Int, NEW k \in Nat \ {0}, x * k <= y * k PROVE x <= y
<1>1. CASE y + 1 <= x
  <2>1. (y + 1) * k <= x * k
    BY <1>1, Times
  <2>2. (y + 1) * k = y * k + k /\ y * k \in Int /\ x * k \in Int
    OBVIOUS
  <2> QED BY <2>1, <2>2
<1> QED BY <1>1

LEMMA Quotient ==
  ASSUME NEW x \in Nat, NEW k \in Nat \ {0}
  PROVE  x \div k \in Nat /\ (x \div k) * k <= x /\ x < (x \div k) * k + k
OBVIOUS

(* An integer share of what remains, for one of the k servers left: it is at *)
(* least the even share of all, and leaves enough for the others.          *)
LEMMA Shares ==
  ASSUME NEW all \in Nat, NEW rest \in Nat, NEW n \in Nat \ {0}, NEW k \in Nat \ {0},
         all * k <= rest * n
  PROVE  /\ all \div n <= rest \div k
         /\ all * (k - 1) <= (rest - rest \div k) * n
<1> DEFINE q == all \div n
           p == rest \div k
<1>1. q \in Nat /\ q * n <= all /\ p \in Nat /\ p * k <= rest /\ rest < p * k + k
  BY Quotient
<1> HIDE DEF q, p
<1>2. q * k <= rest
  <2>1. (q * n) * k <= all * k
    BY <1>1, Times
  <2>2. (q * k) * n = (q * n) * k /\ q * k \in Nat /\ (q * k) * n \in Nat /\ all * k \in Nat /\ rest * n \in Nat
    BY <1>1
  <2>3. (q * k) * n <= rest * n
    BY <2>1, <2>2
  <2> QED BY <2>2, <2>3, Over
<1>3. q <= p
  <2>1. CASE p + 1 <= q
    <3>1. (p + 1) * k <= q * k
      BY <1>1, <2>1, Times
    <3>2. (p + 1) * k = p * k + k /\ p * k \in Nat /\ q * k \in Nat
      BY <1>1
    <3> QED BY <1>1, <1>2, <3>1, <3>2
  <2> QED BY <1>1, <2>1
<1>4. all * (k - 1) <= (rest - p) * n
  <2>1. (p * k) * n <= rest * n
    BY <1>1, Times
  <2>2. (all * k) * (k - 1) <= (rest * n) * (k - 1)
    BY Times
  <2>3. ((rest - p) * n) * k = (rest * n) * k - (p * k) * n
    BY <1>1
  <2>4. (rest * n) * (k - 1) = (rest * n) * k - rest * n
    OBVIOUS
  <2>5. (all * (k - 1)) * k = (all * k) * (k - 1)
    OBVIOUS
  <2>6. (all * (k - 1)) * k <= ((rest - p) * n) * k
    <3>1. (rest * n) * k \in Int /\ (p * k) * n \in Int /\ rest * n \in Int /\ (all * k) * (k - 1) \in Int
      BY <1>1
    <3> QED BY <2>1, <2>2, <2>3, <2>4, <2>5, <3>1
  <2>7. all * (k - 1) \in Int /\ (rest - p) * n \in Int
    BY <1>1
  <2> QED BY <2>6, <2>7, Over
<1> QED BY <1>3, <1>4 DEF q, p

(* A server is being tried.                                                *)
InExchange == pc \in {"dial", "top", "write", "check", "arm", "read"}

(* At every server, what is left suffices for an even share for each server *)
(* that has not been tried; within an exchange, what its deadline leaves.  *)
SharesInv ==
  slow = 0 =>
    /\ \A s \in Servers : share[s] # -1 => share[s] >= deadline \div NumServers
    /\ pc = "pick" => deadline * (NumServers - srv + 1) <= (deadline - now) * NumServers
    /\ InExchange => /\ now <= attempt /\ share[srv] # -1
                     /\ deadline * (NumServers - srv) <= (deadline - attempt) * NumServers
    /\ pc = "read" => readDeadline <= attempt
    /\ pc = "err" /\ ~cancelled => share[NumServers] # -1

LEMMA InitShares == Init => SharesInv
<1> SUFFICES ASSUME Init PROVE SharesInv
  OBVIOUS
<1>1. deadline \in Nat /\ NumServers \in Nat /\ now = 0 /\ srv = 1 /\ pc = "pick"
  BY BudgetAssumption, SizesAssumption DEF Init
<1>2. deadline * (NumServers - srv + 1) <= (deadline - now) * NumServers
  BY <1>1
<1> QED BY <1>1, <1>2 DEF Init, SharesInv, InExchange

(* A step within an exchange.                                              *)
LEMMA StayShares ==
  ASSUME IInv, SharesInv, InExchange, InExchange', UNCHANGED <<now, budget, srv, slow>>,
         pc' = "read" => readDeadline' <= attempt
  PROVE  SharesInv'
BY DEF SharesInv, InExchange, budget

(* A step that ends an exchange without an answer.                         *)
LEMMA LeaveShares ==
  ASSUME IInv, SharesInv, InExchange, GiveUp, UNCHANGED <<now, budget, cancelled, slow>>
  PROVE  SharesInv'
<1> SUFFICES ASSUME slow = 0
             PROVE  /\ \A s \in Servers : share[s] # -1 => share[s] >= deadline \div NumServers
                    /\ pc' = "pick" => deadline * (NumServers - srv' + 1) <= (deadline - now) * NumServers
                    /\ pc' = "err" /\ ~cancelled => share[NumServers] # -1
  BY GiveUpIsSafe DEF SharesInv, InExchange, budget
<1>1. /\ now \in Nat /\ attempt \in Nat /\ deadline \in Nat /\ srv \in 1 .. NumServers /\ NumServers \in Nat
      /\ now <= attempt /\ share[srv] # -1
      /\ deadline * (NumServers - srv) <= (deadline - attempt) * NumServers
      /\ \A s \in Servers : share[s] # -1 => share[s] >= deadline \div NumServers
  BY BudgetAssumption, SizesAssumption DEF SharesInv, IInv, TypeOK, Servers
<1>2. CASE pc' = "pick"
  <2>1. srv' = srv + 1
    BY <1>2 DEF GiveUp
  <2>2. (deadline - attempt) * NumServers <= (deadline - now) * NumServers
    BY <1>1, Times
  <2>3. NumServers - srv' + 1 = NumServers - srv
    BY <1>1, <2>1
  <2>4. deadline * (NumServers - srv) \in Int /\ (deadline - attempt) * NumServers \in Int /\ (deadline - now) * NumServers \in Int
    BY <1>1
  <2> QED BY <1>1, <1>2, <2>2, <2>3, <2>4
<1>3. CASE pc' = "err"
  <2>1. ~cancelled => srv = NumServers
    BY <1>3 DEF GiveUp
  <2> QED BY <1>1, <1>3, <2>1
<1> QED BY <1>1, <1>2, <1>3, GiveUpIsSafe

(* The loop of send gives a server its part, and always has one to give.   *)
LEMMA PickShares == ASSUME IInv, SharesInv, Pick PROVE SharesInv'
<1> DEFINE remaining == deadline - now
           left == NumServers - srv + 1
           part == remaining \div left
<1>1. pc = "pick" /\ UNCHANGED <<now, srv, deadline, readDeadline, cancelled, slow>>
  BY DEF Pick
<1> SUFFICES ASSUME slow = 0 PROVE SharesInv'
  BY <1>1 DEF SharesInv
<1>2. /\ now \in Nat /\ deadline \in Nat /\ deadline > 0 /\ srv \in Servers /\ srv \in 1 .. NumServers /\ NumServers \in Nat \ {0}
      /\ share \in [Servers -> -1 .. Budget]
      /\ deadline * left <= remaining * NumServers
      /\ \A s \in Servers : share[s] # -1 => share[s] >= deadline \div NumServers
  BY <1>1, BudgetAssumption, SizesAssumption DEF SharesInv, IInv, TypeOK, Servers
<1>3. left \in Nat \ {0} /\ remaining \in Int /\ NumServers - srv = left - 1
  BY <1>2
<1>4. remaining > 0
  <2>1. CASE remaining <= 0
    <3>1. remaining * NumServers <= 0 * NumServers
      BY <1>2, <1>3, <2>1, Times
    <3>2. 1 * left <= deadline * left
      BY <1>2, <1>3, Times
    <3>3. deadline * left \in Int /\ remaining * NumServers \in Int
      BY <1>2, <1>3
    <3> QED BY <1>2, <1>3, <3>1, <3>2, <3>3
  <2> QED BY <1>3, <2>1
<1>5. /\ pc' = "dial" /\ attempt' = now + part /\ share' = [share EXCEPT ![srv] = part]
  <2>1. remaining \in Int /\ ~(remaining <= 0)
    BY <1>3, <1>4
  <2> QED BY <2>1 DEF Pick
<1>6. /\ deadline \div NumServers <= part
      /\ deadline * (left - 1) <= (remaining - part) * NumServers
      /\ part \in Nat
  <2>1. remaining \in Nat
    BY <1>3, <1>4
  <2> HIDE DEF remaining, left
  <2>2. part \in Nat
    BY <1>3, <2>1, Quotient
  <2>3. deadline \div NumServers <= part /\ deadline * (left - 1) <= (remaining - part) * NumServers
    BY <1>2, <1>3, <2>1, Shares
  <2> QED BY <2>2, <2>3
<1>7. deadline - attempt' = remaining - part
  <2> HIDE DEF part
  <2> QED BY <1>2, <1>5, <1>6
<1> HIDE DEF part, left, remaining
<1>8. now <= attempt'
  BY <1>2, <1>5, <1>6
<1>9. share'[srv] = part /\ \A s \in Servers : share'[s] # -1 => share'[s] >= deadline \div NumServers
  <2>1. ASSUME NEW s \in Servers PROVE share'[s] = IF s = srv THEN part ELSE share[s]
    BY <1>2, <1>5
  <2>2. deadline \div NumServers \in Nat
    BY <1>2, Quotient
  <2> QED BY <1>2, <1>6, <2>1, <2>2
<1>10. deadline * (NumServers - srv) <= (deadline - attempt') * NumServers
  BY <1>3, <1>6, <1>7
<1>11. share'[srv] # -1
  BY <1>6, <1>9
<1> QED BY <1>1, <1>5, <1>8, <1>9, <1>10, <1>11 DEF SharesInv, InExchange

LEMMA NextShares == IInv /\ SharesInv /\ [Next]_vars => SharesInv'
<1> SUFFICES ASSUME IInv, SharesInv, [Next]_vars PROVE SharesInv'
  OBVIOUS
<1> USE DEF budget, wait, hist
<1>1. CASE Pick
  BY <1>1, PickShares
<1>2. CASE Dial
  <2>1. UNCHANGED <<now, budget, cancelled, slow>> /\ InExchange
    BY <1>2 DEF Dial, InExchange
  <2>2. CASE pc' = "top" /\ UNCHANGED srv
    BY <2>1, <2>2, StayShares DEF InExchange
  <2> QED BY <1>2, <2>1, <2>2, LeaveShares DEF Dial
<1>3. CASE Top
  <2>1. UNCHANGED <<now, budget, cancelled, slow>> /\ InExchange
    BY <1>3 DEF Top, InExchange
  <2>2. CASE pc' = "write" /\ UNCHANGED srv
    BY <2>1, <2>2, StayShares DEF InExchange
  <2> QED BY <1>3, <2>1, <2>2, LeaveShares DEF Top
<1>4. CASE Write
  <2>1. UNCHANGED <<now, budget, cancelled, slow>> /\ InExchange
    BY <1>4 DEF Write, InExchange
  <2>2. CASE pc' = "check" /\ UNCHANGED srv
    BY <2>1, <2>2, StayShares DEF InExchange
  <2> QED BY <1>4, <2>1, <2>2, LeaveShares DEF Write
<1>5. ASSUME TimedOut, UNCHANGED <<now, budget, cancelled, slow>>, InExchange PROVE SharesInv'
  <2>1. CASE pc' = "top" /\ UNCHANGED srv
    BY <1>5, <2>1, StayShares DEF InExchange
  <2> QED BY <1>5, <2>1, LeaveShares DEF TimedOut
<1>6. CASE Check
  <2>1. UNCHANGED <<now, budget, cancelled, slow>> /\ InExchange
    BY <1>6 DEF Check, InExchange
  <2>2. CASE pc' = "arm" /\ UNCHANGED srv
    BY <2>1, <2>2, StayShares DEF InExchange
  <2> QED BY <1>5, <1>6, <2>1, <2>2, LeaveShares DEF Check
<1>7. CASE Arm
  <2>1. UNCHANGED <<now, budget, srv, slow>> /\ InExchange /\ InExchange' /\ readDeadline' = until /\ pc = "arm"
    BY <1>7 DEF Arm, InExchange
  <2>2. until <= attempt
    BY <2>1 DEF IInv, DeadlinesNest
  <2> QED BY <2>1, <2>2, StayShares
<1>8. CASE ReadTimeout
  BY <1>5, <1>8 DEF ReadTimeout, InExchange
<1>9. CASE ReadDatagram
  <2>1. UNCHANGED <<now, budget, cancelled, slow>> /\ InExchange
    BY <1>9 DEF ReadDatagram, InExchange
  <2>2. CASE pc' = "check" /\ UNCHANGED srv
    BY <2>1, <2>2, StayShares DEF InExchange
  <2>3. CASE pc' = "ok" /\ UNCHANGED srv
    BY <2>1, <2>3 DEF SharesInv, InExchange
  <2> QED BY <1>9, <2>1, <2>2, <2>3, LeaveShares DEF ReadDatagram
<1>10. CASE Cancel
  BY <1>10 DEF Cancel, SharesInv, InExchange
<1>11. CASE Watch
  BY <1>11 DEF Watch, SharesInv, InExchange
<1>12. CASE Tick
  <2>1. CASE pc = "dial" /\ slow' = slow + 1
    <3>1. slow' # 0
      BY <2>1 DEF IInv, TypeOK
    <3> QED BY <3>1 DEF SharesInv
  <2>2. CASE pc = "read" /\ MayBlock /\ UNCHANGED slow
    <3>1. UNCHANGED <<pc, srv, budget, readDeadline, cancelled, slow>> /\ now' = now + 1
      BY <1>12, <2>2 DEF Tick
    <3>2. slow = 0 => now + 1 <= attempt
      <4>1. now < readDeadline /\ now \in Nat /\ attempt \in Nat /\ readDeadline \in Int
        BY <2>2, BudgetAssumption DEF IInv, ReadIsBounded, MayBlock, TypeOK, NoDeadline
      <4>2. slow = 0 => readDeadline <= attempt
        BY <2>2 DEF SharesInv
      <4> QED BY <4>1, <4>2
    <3> QED BY <2>2, <3>1, <3>2 DEF SharesInv, InExchange
  <2> QED BY <1>12, <2>1, <2>2 DEF Tick
<1>13. CASE UNCHANGED vars
  BY <1>13 DEF vars, SharesInv, InExchange
<1> QED
  BY <1>1, <1>2, <1>3, <1>4, <1>6, <1>7, <1>8, <1>9, <1>10, <1>11, <1>12, <1>13 DEF Next, Code, Returned, vars

(* A dead server does not starve the ones behind it: each that is tried    *)
(* gets an even share at least, and a call that was not cancelled fails    *)
(* only after the last was tried (the loop of send), however the divisions *)
(* round.                                                                  *)
THEOREM SharesAreEven == Spec => []EveryServerGetsItsShare
<1>1. SharesInv => EveryServerGetsItsShare
  BY DEF SharesInv, EveryServerGetsItsShare
<1> QED BY InitIInv, NextIInv, InitShares, NextShares, <1>1, PTL DEF Spec
=============================================================================
