--------------------------- MODULE DccClientProofs ---------------------------
(***************************************************************************)
(* Theorems about DccClient for every set of calls, number of servers and  *)
(* bound, with machine-checked proofs.                                     *)
(***************************************************************************)
EXTENDS DccClient, FiniteSets, FiniteSetTheorems, TLAPS

(* A leg that may still transmit has transmitted less than maxXmits times, *)
(* and no leg has transmitted late more often than it has transmitted.     *)
XmitsLeft ==
  \A l \in Legs :
    /\ pc[l] \in {"none", "dial", "top", "write"} => xmit[l] < MaxXmits
    /\ tail[l] <= xmit[l]

(* Where the caller is in its loop: the sequential one is at a server, the *)
(* racing one has taken fewer results than there are legs; and only calls  *)
(* with a transaction id have legs.                                        *)
AtInLoop ==
  \A o \in Calls :
    /\ call[o] = "idle" => at[o] = 0
    /\ call[o] = "seq" => at[o] \in Srv
    /\ call[o] = "par" => at[o] < NumServers
    /\ call[o] \in {"seq", "par"} => nums[o] \in 1 .. RidBound

LegsOfCalls ==
  \A l \in Legs :
    pc[l] # "none" => call[l[1]] # "idle" /\ nums[l[1]] \in 1 .. RidBound

IndType == TypeOK /\ XmitsLeft /\ AtInLoop /\ LegsOfCalls

-----------------------------------------------------------------------------
(* Type correctness.                                                       *)

LEMMA InitType == Init => IndType
BY ServersAssumption, XmitsAssumption, BoundsAssumption
   DEF Init, IndType, TypeOK, CallerTypes, TimeTypes, LegTypes, NetTypes, XmitsLeft, AtInLoop,
       LegsOfCalls, Legs, Srv, CallStates, LegStates, Results

LEMMA CurrentLeg ==
  ASSUME IndType, NEW o \in Calls, call[o] = "seq"
  PROVE  at[o] \in Srv /\ Current(o) \in Legs
BY DEF IndType, AtInLoop, Current, Legs

LEMMA CallerType ==
  ASSUME IndType, NEW o \in Calls, CallerStep(o)
  PROVE  IndType'
<1> USE ServersAssumption, XmitsAssumption, BoundsAssumption DEF IndType, TypeOK
<1>0. \A l \in Legs : l[1] \in Calls /\ l[2] \in Srv
  BY DEF Legs
<1>1. CASE NoChecksums(o)
  <2>1. CallerTypes'
    BY <1>1 DEF NoChecksums, CallerTypes, CallStates
  <2>2. UNCHANGED <<timeVars, legVars, netVars>>
    BY <1>1 DEF NoChecksums
  <2>3. TimeTypes' /\ LegTypes' /\ NetTypes' /\ XmitsLeft'
    BY <2>2 DEF TimeTypes, LegTypes, NetTypes, XmitsLeft, timeVars, legVars, netVars
  <2>4. AtInLoop' /\ LegsOfCalls'
    BY <1>0, <1>1 DEF NoChecksums, CallerTypes, AtInLoop, LegsOfCalls, legVars
  <2> QED BY <2>1, <2>3, <2>4
<1>2. CASE Start(o)
  <2>1. CallerTypes' /\ nums'[o] \in 1 .. RidBound
    <3>1. rid' \in 1 .. RidBound /\ nums' = [nums EXCEPT ![o] = rid']
      BY <1>2 DEF Start, CallerTypes
    <3>2. nums' \in [Calls -> 0 .. RidBound] /\ nums'[o] \in 1 .. RidBound
      BY <3>1 DEF CallerTypes
    <3>3. call' \in [Calls -> CallStates]
      BY <1>2 DEF Start, CallerTypes, CallStates
    <3>5. at' \in [Calls -> 0 .. NumServers]
      <4>1. at' = at \/ at' = [at EXCEPT ![o] = 1]
        BY <1>2 DEF Start
      <4>2. 1 \in 0 .. NumServers /\ at \in [Calls -> 0 .. NumServers]
        BY DEF CallerTypes
      <4> QED BY <4>1, <4>2, Zenon
    <3>4. UNCHANGED <<by, out>>
      BY <1>2 DEF Start
    <3> QED BY <3>1, <3>2, <3>3, <3>4, <3>5 DEF CallerTypes
  <2>2. UNCHANGED <<timeVars, netVars, xmit, res, val, tail>>
    BY <1>2 DEF Start
  <2>3. TimeTypes' /\ NetTypes'
    BY <2>2 DEF TimeTypes, NetTypes, timeVars, netVars
  <2>4. pc' \in [Legs -> LegStates]
    BY <1>2 DEF Start, LegTypes, LegStates
  <2>5. LegTypes'
    BY <2>2, <2>4 DEF LegTypes
  <2>6. \A l \in Legs : l[1] = o => pc[l] = "none"
    BY <1>2 DEF Start, LegsOfCalls
  <2>7. \A l \in Legs : pc'[l] # pc[l] => l[1] = o
    BY <1>2 DEF Start
  <2>8. XmitsLeft'
    BY <2>2, <2>6, <2>7 DEF XmitsLeft
  <2>9. AtInLoop'
    BY <1>2, <2>1 DEF Start, CallerTypes, AtInLoop, Srv
  <2>10. \A p \in Calls \ {o} : call'[p] = call[p] /\ nums'[p] = nums[p]
    BY <1>2 DEF Start, CallerTypes
  <2>11. call'[o] # "idle"
    BY <1>2 DEF Start, CallerTypes
  <2>12. LegsOfCalls'
    BY <1>0, <2>1, <2>7, <2>10, <2>11 DEF LegsOfCalls
  <2> QED BY <2>1, <2>3, <2>5, <2>8, <2>9, <2>12
<1>3. CASE SeqPick(o)
  <2>0. at[o] \in Srv /\ Current(o) \in Legs
    BY <1>3, CurrentLeg DEF SeqPick
  <2>1. CallerTypes'
    BY <1>3 DEF SeqPick, CallerTypes, CallStates
  <2>2. UNCHANGED <<timeVars, netVars, xmit, res, val, tail>>
    BY <1>3 DEF SeqPick
  <2>3. TimeTypes' /\ NetTypes'
    BY <2>2 DEF TimeTypes, NetTypes, timeVars, netVars
  <2>4. LegTypes'
    BY <1>3, <2>2 DEF SeqPick, LegTypes, LegStates
  <2>5. XmitsLeft'
    BY <1>3, <2>0, <2>2 DEF SeqPick, LegTypes, XmitsLeft
  <2>6. AtInLoop'
    BY <1>3 DEF SeqPick, CallerTypes, AtInLoop
  <2>7. nums' = nums /\ \A p \in Calls : call[p] # "idle" => call'[p] # "idle"
    BY <1>3 DEF SeqPick, CallerTypes
  <2>8. \A l \in Legs : pc'[l] # pc[l] => l = Current(o)
    BY <1>3 DEF SeqPick, LegTypes
  <2>9. Current(o)[1] = o /\ call[o] = "seq" /\ nums[o] \in 1 .. RidBound
    BY <1>3 DEF SeqPick, Current, AtInLoop
  <2>10. LegsOfCalls'
    BY <1>0, <2>7, <2>8, <2>9 DEF LegsOfCalls
  <2> QED BY <2>1, <2>3, <2>4, <2>5, <2>6, <2>10
<1>4. CASE SeqReturn(o)
  <2>0. at[o] \in Srv /\ Current(o) \in Legs
    BY <1>4, CurrentLeg DEF SeqReturn
  <2>1. UNCHANGED <<rid, nums, out, timeVars, netVars, xmit, res, val, tail>>
    BY <1>4 DEF SeqReturn
  <2>2. call' \in [Calls -> CallStates]
    BY <1>4 DEF SeqReturn, CallerTypes, CallStates
  <2>3. at' \in [Calls -> 0 .. NumServers] /\ by' \in [Calls -> 0 .. NumServers]
    <3>1. at[o] \in 0 .. NumServers /\ (at[o] < NumServers => at[o] + 1 \in 0 .. NumServers)
      BY DEF CallerTypes
    <3>2. CASE at' = at /\ (by' = by \/ by' = [by EXCEPT ![o] = at[o]])
      BY <3>1, <3>2 DEF CallerTypes
    <3>3. CASE at[o] < NumServers /\ at' = [at EXCEPT ![o] = at[o] + 1] /\ by' = by
      BY <3>1, <3>3 DEF CallerTypes
    <3> QED BY <1>4, <3>2, <3>3 DEF SeqReturn
  <2>4. CallerTypes'
    BY <2>1, <2>2, <2>3 DEF CallerTypes
  <2>5. TimeTypes' /\ NetTypes'
    BY <2>1 DEF TimeTypes, NetTypes, timeVars, netVars
  <2>6. LegTypes'
    BY <1>4, <2>1 DEF SeqReturn, LegTypes, LegStates
  <2>7. XmitsLeft'
    BY <1>4, <2>0, <2>1 DEF SeqReturn, LegTypes, XmitsLeft
  <2>8. AtInLoop'
    <3>1. \A p \in Calls \ {o} : call'[p] = call[p] /\ at'[p] = at[p] /\ nums'[p] = nums[p]
      BY <1>4 DEF SeqReturn, CallerTypes
    <3>2. call'[o] = "seq" => at'[o] \in Srv /\ call[o] = "seq"
      BY <1>4, <2>0 DEF SeqReturn, CallerTypes, Srv
    <3>3. call'[o] \in {"ok", "err", "seq"} /\ nums'[o] = nums[o]
      BY <1>4 DEF SeqReturn, CallerTypes
    <3> QED BY <3>1, <3>2, <3>3 DEF AtInLoop
  <2>9. LegsOfCalls'
    <3>1. \A p \in Calls : call[p] # "idle" => call'[p] # "idle"
      BY <1>4 DEF SeqReturn, CallerTypes
    <3>2. \A l \in Legs : pc[l] = "none" => pc'[l] = "none"
      BY <1>4, <2>0 DEF SeqReturn, LegTypes
    <3> QED BY <1>0, <2>1, <3>1, <3>2 DEF LegsOfCalls
  <2> QED BY <2>4, <2>5, <2>6, <2>7, <2>8, <2>9
<1>5. CASE ParTake(o)
  <2>1. UNCHANGED <<rid, nums, timeVars, legVars, netVars>>
    BY <1>5 DEF ParTake
  <2>2. Head(out[o]) \in Srv /\ Tail(out[o]) \in Seq(Srv)
    BY <1>5 DEF ParTake, CallerTypes
  <2>3. out' \in [Calls -> Seq(Srv)]
    BY <1>5, <2>2 DEF ParTake, CallerTypes
  <2>4. call' \in [Calls -> CallStates]
    BY <1>5 DEF ParTake, CallerTypes, CallStates
  <2>5. by' \in [Calls -> 0 .. NumServers]
    <3>1. by' = by \/ by' = [by EXCEPT ![o] = Head(out[o])]
      BY <1>5 DEF ParTake
    <3>2. Head(out[o]) \in 0 .. NumServers
      BY <2>2 DEF Srv
    <3> QED BY <3>1, <3>2 DEF CallerTypes
  <2>6. at' \in [Calls -> 0 .. NumServers]
    BY <1>5 DEF ParTake, CallerTypes, AtInLoop
  <2>7. CallerTypes'
    BY <2>1, <2>3, <2>4, <2>5, <2>6 DEF CallerTypes
  <2>8. TimeTypes' /\ LegTypes' /\ NetTypes' /\ XmitsLeft'
    BY <2>1 DEF TimeTypes, LegTypes, NetTypes, XmitsLeft, timeVars, legVars, netVars
  <2>9. AtInLoop'
    <3>1. \A p \in Calls \ {o} : call'[p] = call[p] /\ at'[p] = at[p] /\ nums'[p] = nums[p]
      BY <1>5 DEF ParTake, CallerTypes
    <3>2. call'[o] = "par" => at'[o] < NumServers /\ call[o] = "par"
      BY <1>5 DEF ParTake, CallerTypes, AtInLoop
    <3>3. call'[o] \in {"ok", "err", "par"} /\ nums'[o] = nums[o]
      BY <1>5 DEF ParTake, CallerTypes
    <3> QED BY <3>1, <3>2, <3>3 DEF AtInLoop
  <2>10. LegsOfCalls'
    <3>1. \A p \in Calls : call[p] # "idle" => call'[p] # "idle"
      BY <1>5 DEF ParTake, CallerTypes
    <3> QED BY <1>0, <2>1, <3>1 DEF LegsOfCalls, legVars
  <2> QED BY <2>7, <2>8, <2>9, <2>10
<1> QED BY <1>1, <1>2, <1>3, <1>4, <1>5 DEF CallerStep

LEMMA TimeType ==
  ASSUME IndType, NEW o \in Calls, TimeStep(o)
  PROVE  IndType'
<1> USE DEF IndType, TypeOK
<1>1. callVars' = callVars /\ legVars' = legVars /\ netVars' = netVars
  BY DEF TimeStep, Cancel, TotalDeadline, AttemptDeadline
<1>2. CallerTypes' /\ LegTypes' /\ NetTypes' /\ XmitsLeft' /\ AtInLoop' /\ LegsOfCalls'
  BY <1>1 DEF CallerTypes, LegTypes, NetTypes, XmitsLeft, AtInLoop, LegsOfCalls,
              callVars, legVars, netVars
<1>3. TimeTypes'
  BY CurrentLeg DEF TimeStep, Cancel, TotalDeadline, AttemptDeadline, TimeTypes
<1> QED BY <1>2, <1>3

LEMMA NetType ==
  ASSUME IndType, NetStep
  PROVE  IndType'
<1> USE BoundsAssumption, KeyedAssumption DEF IndType, TypeOK
<1>1. callVars' = callVars /\ timeVars' = timeVars /\ legVars' = legVars
  BY DEF NetStep, ServerAnswer, ServerError, Garble
<1>2. CallerTypes' /\ TimeTypes' /\ LegTypes' /\ XmitsLeft' /\ AtInLoop' /\ LegsOfCalls'
  BY <1>1 DEF CallerTypes, TimeTypes, LegTypes, XmitsLeft, AtInLoop, LegsOfCalls,
              callVars, timeVars, legVars
<1>3. \A r \in asked, k \in Kinds : Reply(r, k) \in Datagram /\ <<r.ask, r.srv>> \in Legs
  BY DEF NetTypes, Reply, Request, Datagram, Legs
<1>4. CASE ServerAnswer
  BY <1>2, <1>3, <1>4 DEF ServerAnswer, NetTypes, Kinds
<1>5. CASE ServerError
  BY <1>2, <1>3, <1>5 DEF ServerError, NetTypes, Kinds
<1>6. CASE Garble
  <2>1. PICK r \in asked, k \in Kinds :
          wire' = wire \cup {[srv |-> r.srv, rid |-> r.rid, kind |-> k,
                              signed |-> FALSE, val |-> NoCall]}
    BY <1>6 DEF Garble
  <2>2. wire' \subseteq Datagram
    <3>1. r.srv \in Srv /\ r.rid \in 1 .. RidBound /\ wire \subseteq Datagram
      BY DEF NetTypes, Request
    <3>2. [srv |-> r.srv, rid |-> r.rid, kind |-> k, signed |-> FALSE, val |-> NoCall] \in Datagram
      BY <3>1 DEF Datagram
    <3> QED BY <2>1, <3>1, <3>2
  <2>3. garbled' \in 0 .. MaxGarbled /\ UNCHANGED <<asked, served>>
    BY <1>6 DEF Garble, NetTypes
  <2> QED BY <1>2, <2>2, <2>3 DEF NetTypes
<1> QED BY <1>4, <1>5, <1>6 DEF NetStep

LEMMA LegType ==
  ASSUME IndType, NEW l \in Legs, LegStep(l)
  PROVE  IndType'
<1> USE XmitsAssumption DEF IndType, TypeOK, Goto, Return
<1>0. l[1] \in Calls /\ l[2] \in Srv
  BY DEF Legs
<1>1. CASE Dial(l)
  <2>1. CallerTypes' /\ TimeTypes' /\ NetTypes' /\ AtInLoop'
    BY <1>1 DEF Dial, CallerTypes, TimeTypes, NetTypes, AtInLoop, callVars, timeVars, netVars
  <2>2. LegTypes' /\ XmitsLeft' /\ LegsOfCalls'
    BY <1>1 DEF Dial, LegTypes, XmitsLeft, LegsOfCalls, LegStates, Results, callVars
  <2> QED BY <2>1, <2>2
<1>2. CASE Top(l)
  <2>1. CallerTypes' /\ TimeTypes' /\ NetTypes' /\ AtInLoop'
    BY <1>2 DEF Top, CallerTypes, TimeTypes, NetTypes, AtInLoop, callVars, timeVars, netVars
  <2>2. LegTypes' /\ XmitsLeft' /\ LegsOfCalls'
    BY <1>2 DEF Top, LegTypes, XmitsLeft, LegsOfCalls, LegStates, Results, callVars
  <2> QED BY <2>1, <2>2
<1>3. CASE Write(l)
  <2>1. CallerTypes' /\ TimeTypes' /\ AtInLoop'
    BY <1>3 DEF Write, CallerTypes, TimeTypes, AtInLoop, callVars, timeVars
  <2>2. [srv |-> l[2], rid |-> nums[l[1]], ask |-> l[1]] \in Request
    BY <1>0, <1>3 DEF Write, LegsOfCalls, Request
  <2>3. NetTypes'
    BY <1>3, <2>2 DEF Write, NetTypes
  <2>4. xmit[l] \in 0 .. MaxXmits - 1 /\ tail[l] \in 0 .. xmit[l]
    BY <1>3 DEF Write, LegTypes, XmitsLeft
  <2>5. /\ xmit' = [xmit EXCEPT ![l] = xmit[l] + 1]
        /\ \E n \in {tail[l], tail[l] + 1} : tail' = [tail EXCEPT ![l] = n]
    BY <1>3 DEF Write, LegTypes
  <2>6. LegTypes'
    BY <1>3, <2>4, <2>5 DEF Write, LegTypes, LegStates, Results
  <2>7. XmitsLeft'
    BY <1>3, <2>4, <2>5 DEF Write, LegTypes, XmitsLeft
  <2>8. LegsOfCalls'
    BY <1>3 DEF Write, LegTypes, LegsOfCalls, callVars
  <2> QED BY <2>1, <2>3, <2>6, <2>7, <2>8
<1>4. CASE Wait(l)
  <2>1. CallerTypes' /\ TimeTypes' /\ NetTypes' /\ AtInLoop'
    BY <1>4 DEF Wait, CallerTypes, TimeTypes, NetTypes, AtInLoop, callVars, timeVars, netVars
  <2>2. LegTypes' /\ XmitsLeft' /\ LegsOfCalls'
    BY <1>4 DEF Wait, LegTypes, XmitsLeft, LegsOfCalls, LegStates, Results, callVars
  <2> QED BY <2>1, <2>2
<1>5. CASE Timeout(l)
  <2>1. CallerTypes' /\ TimeTypes' /\ NetTypes' /\ AtInLoop'
    BY <1>5 DEF Timeout, CallerTypes, TimeTypes, NetTypes, AtInLoop, callVars, timeVars, netVars
  <2>2. LegTypes' /\ XmitsLeft' /\ LegsOfCalls'
    BY <1>5 DEF Timeout, LegTypes, XmitsLeft, LegsOfCalls, LegStates, Results, callVars
  <2> QED BY <2>1, <2>2
<1>6. CASE RecvError(l)
  <2>1. CallerTypes' /\ TimeTypes' /\ NetTypes' /\ AtInLoop'
    BY <1>6 DEF RecvError, CallerTypes, TimeTypes, NetTypes, AtInLoop, callVars, timeVars, netVars
  <2>2. LegTypes' /\ XmitsLeft' /\ LegsOfCalls'
    BY <1>6 DEF RecvError, LegTypes, XmitsLeft, LegsOfCalls, LegStates, Results, callVars
  <2> QED BY <2>1, <2>2
<1>7. CASE Read(l)
  <2>1. CallerTypes' /\ TimeTypes' /\ NetTypes' /\ AtInLoop'
    BY <1>7 DEF Read, CallerTypes, TimeTypes, NetTypes, AtInLoop, callVars, timeVars, netVars
  <2>2. \A d \in wire : d.val \in Calls \cup {NoCall}
    BY DEF NetTypes, Datagram
  <2>3. LegTypes' /\ XmitsLeft' /\ LegsOfCalls'
    BY <1>7, <2>2 DEF Read, LegTypes, XmitsLeft, LegsOfCalls, LegStates, Results, callVars
  <2> QED BY <2>1, <2>3
<1>8. CASE Post(l)
  <2>1. TimeTypes' /\ NetTypes' /\ AtInLoop'
    BY <1>8 DEF Post, TimeTypes, NetTypes, AtInLoop, timeVars, netVars
  <2>2. CallerTypes'
    BY <1>0, <1>8 DEF Post, CallerTypes
  <2>3. LegTypes' /\ XmitsLeft' /\ LegsOfCalls'
    BY <1>8 DEF Post, LegTypes, XmitsLeft, LegsOfCalls, LegStates
  <2> QED BY <2>1, <2>2, <2>3
<1> QED BY <1>1, <1>2, <1>3, <1>4, <1>5, <1>6, <1>7, <1>8 DEF LegStep

LEMMA NextType == IndType /\ [Next]_vars => IndType'
<1> SUFFICES ASSUME IndType, [Next]_vars
             PROVE  IndType'
  OBVIOUS
<1>1. CASE \E o \in Calls : CallerStep(o)
  BY <1>1, CallerType
<1>2. CASE \E o \in Calls : TimeStep(o)
  BY <1>2, TimeType
<1>3. CASE \E l \in Legs : LegStep(l)
  BY <1>3, LegType
<1>4. CASE NetStep
  BY <1>4, NetType
<1>5. CASE UNCHANGED vars
  BY <1>5 DEF IndType, TypeOK, CallerTypes, TimeTypes, LegTypes, NetTypes, XmitsLeft, AtInLoop,
              LegsOfCalls, vars, callVars, timeVars, legVars, netVars
<1> QED BY <1>1, <1>2, <1>3, <1>4, <1>5 DEF Next, Quiet

(* Every variable always has its type; in particular no leg ever transmits *)
(* more than maxXmits times (exchange's loop).                             *)
THEOREM TypeCorrect == Spec => []TypeOK
<1>1. IndType => TypeOK
  BY DEF IndType
<1> QED BY InitType, NextType, <1>1, PTL DEF Spec

-----------------------------------------------------------------------------
(* Genuineness of the returned counts.                                     *)

(* A started call has a transaction id of its own.                         *)
RidsDistinct ==
  /\ \A o \in Calls : nums[o] <= rid /\ (call[o] = "idle" => nums[o] = 0)
  /\ \A o, p \in Calls : nums[o] = nums[p] /\ nums[o] # 0 => o = p

(* Requests bear the id of the call they are about.                        *)
RequestsBearIds ==
  \A r \in asked : r.rid = nums[r.ask] /\ call[r.ask] # "idle"

(* A datagram was sent by a server that processed what it answers, under   *)
(* the id of that call; or it is corrupted, and then not signed.           *)
WireGenuine ==
  \A d \in wire :
    \/ d.val = NoCall /\ garbled > 0 /\ ~d.signed
    \/ /\ d.val \in Calls /\ d.rid = nums[d.val] /\ call[d.val] # "idle"
       /\ d.kind = "answer" => <<d.val, d.srv>> \in served

(* An exchange that got its answer got the one for its own call.           *)
LegsGenuine ==
  /\ \A l \in Legs : res[l] = "ok" => pc[l] \in {"ret", "gone"}
  /\ Trusted => \A l \in Legs : res[l] = "ok" => val[l] = l[1] /\ l \in served

(* A call that succeeded took the result of an exchange that did.          *)
WinnerAnswered ==
  \A o \in Calls : call[o] = "ok" => by[o] \in Srv /\ res[<<o, by[o]>>] = "ok"

IndGenuine == RidsDistinct /\ RequestsBearIds /\ WireGenuine /\ LegsGenuine /\ WinnerAnswered

LEMMA InitGenuine == Init => IndGenuine
BY DEF Init, IndGenuine, RidsDistinct, RequestsBearIds, WireGenuine, LegsGenuine, WinnerAnswered

(* What no step of the caller takes back: the id of a started call and     *)
(* the result of an exchange.                                              *)
LEMMA CallerGenuine ==
  ASSUME IndType, IndGenuine, NEW o \in Calls, CallerStep(o)
  PROVE  IndGenuine'
<1> USE DEF IndType, IndGenuine, TypeOK
<1>1. UNCHANGED <<timeVars, res, val, netVars>>
  BY DEF CallerStep, NoChecksums, Start, SeqPick, SeqReturn, ParTake, legVars
<1>2. RidsDistinct' /\ \A p \in Calls : call[p] # "idle" => call'[p] # "idle" /\ nums'[p] = nums[p]
  <2>1. CASE Start(o)
    <3>1. rid' = rid + 1 /\ nums' = [nums EXCEPT ![o] = rid'] /\ call[o] = "idle"
      BY <2>1 DEF Start
    <3>2. call'[o] # "idle" /\ \A p \in Calls \ {o} : call'[p] = call[p]
      BY <2>1 DEF Start, CallerTypes
    <3>3. rid \in Nat /\ nums \in [Calls -> Nat]
      BY DEF CallerTypes
    <3>4. nums'[o] = rid' /\ \A p \in Calls \ {o} : nums'[p] = nums[p] /\ nums[p] <= rid
      BY <3>1, <3>3 DEF RidsDistinct
    <3> QED BY <3>1, <3>2, <3>3, <3>4 DEF RidsDistinct
  <2>2. CASE ~Start(o)
    <3>1. rid' = rid /\ nums' = nums
      BY <2>2 DEF CallerStep, NoChecksums, SeqPick, SeqReturn, ParTake
    <3>2. \A p \in Calls : call'[p] = "idle" => call[p] = "idle"
      BY <2>2 DEF CallerStep, NoChecksums, SeqPick, SeqReturn, ParTake, CallerTypes
    <3> QED BY <3>1, <3>2 DEF RidsDistinct
  <2> QED BY <2>1, <2>2
<1>3. RequestsBearIds' /\ WireGenuine'
  <2>1. \A r \in asked : r.ask \in Calls
    BY DEF NetTypes, Request
  <2> QED BY <1>1, <1>2, <2>1 DEF RequestsBearIds, WireGenuine, netVars
<1>4. LegsGenuine'
  <2>1. \A l \in Legs : pc[l] \in {"ret", "gone"} => pc'[l] \in {"ret", "gone"}
    <3>1. CASE NoChecksums(o) \/ ParTake(o)
      BY <3>1 DEF NoChecksums, ParTake, legVars
    <3>2. CASE Start(o)
      BY <3>2 DEF Start, LegsOfCalls
    <3>3. CASE SeqPick(o)
      BY <3>3 DEF SeqPick, LegTypes
    <3>4. CASE SeqReturn(o)
      BY <3>4 DEF SeqReturn, LegTypes
    <3> QED BY <3>1, <3>2, <3>3, <3>4 DEF CallerStep
  <2> QED BY <1>1, <2>1 DEF LegsGenuine, netVars, Trusted
<1>5. WinnerAnswered'
  <2>1. CASE NoChecksums(o) \/ Start(o) \/ SeqPick(o)
    <3>1. by' = by /\ \A p \in Calls : call'[p] = "ok" => call[p] = "ok"
      BY <2>1 DEF NoChecksums, Start, SeqPick, CallerTypes
    <3> QED BY <1>1, <3>1 DEF WinnerAnswered
  <2>2. CASE SeqReturn(o)
    <3>1. at[o] \in Srv
      BY <2>2, CurrentLeg DEF SeqReturn
    <3>2. \A p \in Calls \ {o} : call'[p] = call[p] /\ by'[p] = by[p]
      BY <2>2 DEF SeqReturn, CallerTypes
    <3>3. call'[o] = "ok" => by'[o] = at[o] /\ res[<<o, at[o]>>] = "ok"
      BY <2>2 DEF SeqReturn, CallerTypes, Current
    <3> QED BY <1>1, <3>1, <3>2, <3>3 DEF WinnerAnswered
  <2>3. CASE ParTake(o)
    <3>1. Head(out[o]) \in Srv
      BY <2>3 DEF ParTake, CallerTypes
    <3>2. \A p \in Calls \ {o} : call'[p] = call[p] /\ by'[p] = by[p]
      BY <2>3 DEF ParTake, CallerTypes
    <3>3. call'[o] = "ok" => by'[o] = Head(out[o]) /\ res[<<o, Head(out[o])>>] = "ok"
      BY <2>3 DEF ParTake, CallerTypes
    <3> QED BY <1>1, <3>1, <3>2, <3>3 DEF WinnerAnswered
  <2> QED BY <2>1, <2>2, <2>3 DEF CallerStep
<1> QED BY <1>2, <1>3, <1>4, <1>5

LEMMA LegGenuine ==
  ASSUME IndType, IndGenuine, NEW l \in Legs, LegStep(l)
  PROVE  IndGenuine'
<1> USE DEF IndType, IndGenuine, TypeOK
<1>0. l[1] \in Calls /\ l[2] \in Srv /\ l = <<l[1], l[2]>>
  BY DEF Legs
<1>1. UNCHANGED <<rid, nums, call, by, wire, served, garbled>>
  BY DEF LegStep, Dial, Top, Write, Wait, Timeout, RecvError, Read, Post, callVars, netVars
<1>2. RidsDistinct' /\ WireGenuine'
  BY <1>1 DEF RidsDistinct, WireGenuine
<1>3. RequestsBearIds'
  <2>1. pc[l] # "none"
    BY DEF LegStep, Dial, Top, Write, Wait, Timeout, RecvError, Read, Post
  <2>2. asked' \subseteq asked \cup {[srv |-> l[2], rid |-> nums[l[1]], ask |-> l[1]]}
    BY DEF LegStep, Dial, Top, Write, Wait, Timeout, RecvError, Read, Post, netVars
  <2> QED BY <1>1, <2>1, <2>2 DEF RequestsBearIds, LegsOfCalls
<1>4. /\ \A k \in Legs \ {l} : pc'[k] = pc[k] /\ res'[k] = res[k] /\ val'[k] = val[k]
      /\ pc[l] # "gone"
  BY DEF LegStep, Dial, Top, Write, Wait, Timeout, RecvError, Read, Post, Goto, Return, LegTypes
<1>5. ASSUME res[l] # "ok" \/ res'[l] = "ok"
      PROVE  WinnerAnswered'
  <2> SUFFICES ASSUME NEW p \in Calls, call[p] = "ok"
               PROVE  by[p] \in Srv /\ res'[<<p, by[p]>>] = "ok"
    BY <1>1 DEF WinnerAnswered
  <2>1. by[p] \in Srv /\ res[<<p, by[p]>>] = "ok" /\ <<p, by[p]>> \in Legs
    BY DEF WinnerAnswered, Legs
  <2> QED BY <1>4, <1>5, <2>1
<1>6. CASE Read(l) /\ res'[l] = "ok"
  <2>1. pc[l] = "read" /\ res[l] # "ok"
    BY <1>6 DEF Read, LegsGenuine
  <2>2. PICK d \in wire : d.srv = l[2] /\ Classify(l, d) = "accept" /\ val'[l] = d.val
    BY <1>6, <2>1 DEF Read, Return, Goto, LegTypes
  <2>3. d.rid = nums[l[1]] /\ d.kind = "answer" /\ (Keyed => d.signed)
    BY <2>2 DEF Classify
  <2>4. Trusted => d.val \in Calls /\ d.rid = nums[d.val] /\ <<d.val, d.srv>> \in served
    BY <2>3, BoundsAssumption DEF Trusted, WireGenuine, NetTypes
  <2>5. nums[l[1]] # 0
    BY <2>1 DEF LegsOfCalls
  <2>6. Trusted => val'[l] = l[1] /\ l \in served
    BY <1>0, <2>2, <2>3, <2>4, <2>5 DEF RidsDistinct
  <2>7. pc'[l] = "ret"
    BY <1>6, <2>1 DEF Read, Return, Goto, LegTypes
  <2>8. LegsGenuine'
    BY <1>1, <1>4, <2>6, <2>7 DEF LegsGenuine, Trusted
  <2>9. WinnerAnswered'
    BY <1>6, <1>5
  <2> QED BY <1>2, <1>3, <2>8, <2>9
<1>7. CASE Post(l)
  <2>1. res' = res /\ val' = val /\ pc'[l] = "gone"
    BY <1>7 DEF Post, Goto, LegTypes
  <2> QED BY <1>1, <1>2, <1>3, <1>4, <2>1 DEF LegsGenuine, WinnerAnswered, Trusted
<1>8. CASE ~Post(l) /\ ~(Read(l) /\ res'[l] = "ok")
  <2>1. pc[l] \notin {"ret", "gone"}
    BY <1>8 DEF LegStep, Dial, Top, Write, Wait, Timeout, RecvError, Read
  <2>2. res[l] # "ok"
    BY <2>1 DEF LegsGenuine
  <2>3. res'[l] # "ok"
    BY <1>8, <2>2 DEF LegStep, Dial, Top, Write, Wait, Timeout, RecvError, Read, Goto, Return, LegTypes
  <2>4. LegsGenuine'
    BY <1>1, <1>4, <2>3 DEF LegsGenuine, Trusted
  <2> QED BY <1>2, <1>3, <1>5, <2>2, <2>4
<1> QED BY <1>6, <1>7, <1>8

LEMMA NetGenuine ==
  ASSUME IndType, IndGenuine, NetStep
  PROVE  IndGenuine'
<1> USE DEF IndType, IndGenuine, TypeOK
<1>1. UNCHANGED <<callVars, legVars, asked>> /\ served \subseteq served'
  BY DEF NetStep, ServerAnswer, ServerError, Garble
<1>2. RidsDistinct' /\ RequestsBearIds' /\ LegsGenuine' /\ WinnerAnswered'
  BY <1>1 DEF RidsDistinct, RequestsBearIds, LegsGenuine, WinnerAnswered, Trusted, callVars, legVars
<1>3. \A r \in asked : r.ask \in Calls /\ r.rid = nums[r.ask] /\ call[r.ask] # "idle"
  BY DEF RequestsBearIds, NetTypes, Request
<1>4. CASE ServerAnswer
  BY <1>1, <1>2, <1>3, <1>4 DEF ServerAnswer, Reply, WireGenuine, callVars
<1>5. CASE ServerError
  BY <1>1, <1>2, <1>3, <1>5 DEF ServerError, Reply, WireGenuine, callVars
<1>6. CASE Garble
  <2>1. garbled \in Nat /\ garbled' = garbled + 1 /\ served' = served
    BY <1>6 DEF Garble, NetTypes
  <2>2. PICK r \in asked, k \in Kinds :
          wire' = wire \cup {[srv |-> r.srv, rid |-> r.rid, kind |-> k,
                              signed |-> FALSE, val |-> NoCall]}
    BY <1>6 DEF Garble
  <2>3. ASSUME NEW d \in wire'
        PROVE  \/ d.val = NoCall /\ garbled' > 0 /\ ~d.signed
               \/ /\ d.val \in Calls /\ d.rid = nums'[d.val] /\ call'[d.val] # "idle"
                  /\ d.kind = "answer" => <<d.val, d.srv>> \in served'
    <3>1. CASE d \in wire
      BY <1>1, <2>1, <3>1 DEF WireGenuine, callVars
    <3>2. CASE d \notin wire
      BY <2>1, <2>2, <2>3, <3>2
    <3> QED BY <3>1, <3>2
  <2>4. WireGenuine'
    BY <2>3 DEF WireGenuine
  <2> QED BY <1>2, <2>4
<1> QED BY <1>4, <1>5, <1>6 DEF NetStep

LEMMA NextGenuine == IndType /\ IndGenuine /\ [Next]_vars => IndGenuine'
<1> SUFFICES ASSUME IndType, IndGenuine, [Next]_vars
             PROVE  IndGenuine'
  OBVIOUS
<1> USE DEF IndGenuine, RidsDistinct, RequestsBearIds, WireGenuine, LegsGenuine, WinnerAnswered, Trusted
<1>1. CASE \E o \in Calls : CallerStep(o)
  BY <1>1, CallerGenuine
<1>2. CASE \E o \in Calls : TimeStep(o)
  <2>1. UNCHANGED <<callVars, legVars, netVars>>
    BY <1>2 DEF TimeStep, Cancel, TotalDeadline, AttemptDeadline
  <2> QED BY <2>1 DEF callVars, legVars, netVars
<1>3. CASE \E l \in Legs : LegStep(l)
  BY <1>3, LegGenuine
<1>4. CASE NetStep
  BY <1>4, NetGenuine
<1>5. CASE UNCHANGED vars
  BY <1>5 DEF vars, callVars, legVars, netVars
<1> QED BY <1>1, <1>2, <1>3, <1>4, <1>5 DEF Next, Quiet

-----------------------------------------------------------------------------
(* The order of a sequential call's exchanges.                             *)

(* Servers past the current one are untouched, those before it have been   *)
(* left without an answer and without a cancellation.                      *)
SeqShape ==
  \A o \in Calls : ~Parallel(o) =>
    /\ call[o] # "par"
    /\ \A s \in Srv :
         /\ s > at[o] => pc[<<o, s>>] = "none"
         /\ s < at[o] => pc[<<o, s>>] = "gone" /\ res[<<o, s>>] \notin {"ok", "told"}

(* Without a race, only a done context tells an exchange to end.           *)
ToldIsCancelled ==
  \A l \in Legs : ~Parallel(l[1]) /\ res[l] = "told" => l[1] \in cancelled

IndOrder == SeqShape /\ ToldIsCancelled

LEMMA InitOrder == Init => IndOrder
BY ServersAssumption DEF Init, IndOrder, SeqShape, ToldIsCancelled, Legs, Srv

LEMMA CallerOrder ==
  ASSUME IndType, IndOrder, NEW o \in Calls, CallerStep(o)
  PROVE  IndOrder'
<1> USE DEF IndType, IndOrder, TypeOK, Parallel
<1>1. UNCHANGED <<timeVars, res>>
  BY DEF CallerStep, NoChecksums, Start, SeqPick, SeqReturn, ParTake, legVars
<1>2. ToldIsCancelled'
  BY <1>1 DEF ToldIsCancelled, timeVars
<1>3. \A p \in Calls, s \in Srv : <<p, s>> \in Legs
  BY DEF Legs
<1>4. \A p \in Calls \ {o} : /\ call'[p] = call[p] /\ at'[p] = at[p]
                           /\ \A s \in Srv : pc'[<<p, s>>] = pc[<<p, s>>]
  <2>1. CASE NoChecksums(o)
    BY <2>1 DEF NoChecksums, CallerTypes, legVars
  <2>2. CASE Start(o)
    BY <1>3, <2>2 DEF Start, CallerTypes
  <2>3. CASE SeqPick(o)
    BY <1>3, <2>3 DEF SeqPick, CallerTypes, LegTypes, Current
  <2>4. CASE SeqReturn(o)
    BY <1>3, <2>4 DEF SeqReturn, CallerTypes, LegTypes, Current
  <2>5. CASE ParTake(o)
    BY <2>5 DEF ParTake, CallerTypes, legVars
  <2> QED BY <2>1, <2>2, <2>3, <2>4, <2>5 DEF CallerStep
<1>5. ASSUME ~Parallel(o)
      PROVE  /\ call'[o] # "par"
             /\ \A s \in Srv :
                  /\ s > at'[o] => pc'[<<o, s>>] = "none"
                  /\ s < at'[o] => pc'[<<o, s>>] = "gone" /\ res[<<o, s>>] \notin {"ok", "told"}
  <2>1. CASE NoChecksums(o)
    BY <1>5, <2>1 DEF NoChecksums, CallerTypes, SeqShape, legVars
  <2>2. CASE Start(o)
    BY <1>5, <2>2 DEF Start, CallerTypes, SeqShape, AtInLoop, Srv
  <2>3. CASE SeqPick(o)
    BY <1>3, <1>5, <2>3 DEF SeqPick, CallerTypes, LegTypes, SeqShape, Current, Srv
  <2>4. CASE SeqReturn(o)
    <3>1. at[o] \in Srv /\ Current(o) \in Legs
      BY <2>4, CurrentLeg DEF SeqReturn
    <3>2. pc' = [pc EXCEPT ![Current(o)] = "gone"] /\ call'[o] # "par"
      BY <2>4 DEF SeqReturn, CallerTypes
    <3>3. \A s \in Srv \ {at[o]} : pc'[<<o, s>>] = pc[<<o, s>>]
      BY <1>3, <3>2 DEF LegTypes, Current
    <3>4. pc'[<<o, at[o]>>] = "gone"
      BY <3>1, <3>2 DEF LegTypes, Current
    <3>5. CASE at' = at
      BY <1>5, <3>1, <3>2, <3>3, <3>4, <3>5 DEF SeqShape, Srv
    <3>6. CASE at'[o] = at[o] + 1 /\ res[Current(o)] # "ok" /\ o \notin cancelled
      <4>1. Current(o) = <<o, at[o]>> /\ Current(o)[1] = o
        BY DEF Current
      <4>2. res[<<o, at[o]>>] \notin {"ok", "told"}
        BY <1>5, <3>1, <3>6, <4>1 DEF ToldIsCancelled
      <4> QED BY <1>5, <3>1, <3>2, <3>3, <3>4, <3>6, <4>2, ServersAssumption DEF SeqShape, Srv
    <3> QED BY <2>4, <3>5, <3>6 DEF SeqReturn, CallerTypes
  <2>5. CASE ParTake(o)
    BY <1>5, <2>5 DEF ParTake, SeqShape
  <2> QED BY <2>1, <2>2, <2>3, <2>4, <2>5 DEF CallerStep
<1>6. SeqShape'
  BY <1>1, <1>4, <1>5 DEF SeqShape
<1> QED BY <1>2, <1>6

LEMMA LegOrder ==
  ASSUME IndType, IndOrder, NEW l \in Legs, LegStep(l)
  PROVE  IndOrder'
<1> USE DEF IndType, IndOrder, TypeOK, Parallel
<1>0. l[1] \in Calls /\ l[2] \in Srv /\ l = <<l[1], l[2]>>
  BY DEF Legs
<1>1. UNCHANGED <<call, at, timeVars>>
  BY DEF LegStep, Dial, Top, Write, Wait, Timeout, RecvError, Read, Post, callVars
<1>2. \A k \in Legs \ {l} : pc'[k] = pc[k] /\ res'[k] = res[k]
  BY DEF LegStep, Dial, Top, Write, Wait, Timeout, RecvError, Read, Post, Goto, Return, LegTypes
<1>3. pc[l] \notin {"none", "gone"}
  BY DEF LegStep, Dial, Top, Write, Wait, Timeout, RecvError, Read, Post
<1>4. SeqShape'
  <2> SUFFICES ASSUME NEW o \in Calls, ~Parallel(o), NEW s \in Srv
               PROVE  /\ call'[o] # "par"
                      /\ s > at'[o] => pc'[<<o, s>>] = "none"
                      /\ s < at'[o] => pc'[<<o, s>>] = "gone" /\ res'[<<o, s>>] \notin {"ok", "told"}
    BY <1>0 DEF SeqShape
  <2>1. <<o, s>> \in Legs
    BY DEF Legs
  <2>2. CASE <<o, s>> # l
    BY <1>1, <1>2, <2>1, <2>2 DEF SeqShape
  <2>3. CASE <<o, s>> = l
    BY <1>1, <1>3, <2>3 DEF SeqShape
  <2> QED BY <2>2, <2>3
<1>5. ToldIsCancelled'
  <2>1. res'[l] = "told" => res[l] = "told" \/ Told(l)
    BY DEF LegStep, Dial, Top, Write, Wait, Timeout, RecvError, Read, Post, Goto, Return, LegTypes
  <2> QED BY <1>1, <1>2, <2>1 DEF ToldIsCancelled, Told, timeVars
<1> QED BY <1>4, <1>5

LEMMA NextOrder == IndType /\ IndOrder /\ [Next]_vars => IndOrder'
<1> SUFFICES ASSUME IndType, IndOrder, [Next]_vars
             PROVE  IndOrder'
  OBVIOUS
<1> USE DEF IndOrder, SeqShape, ToldIsCancelled, Parallel
<1>1. CASE \E o \in Calls : CallerStep(o)
  BY <1>1, CallerOrder
<1>2. CASE \E o \in Calls : TimeStep(o)
  <2>1. UNCHANGED <<callVars, legVars>> /\ cancelled \subseteq cancelled'
    BY <1>2 DEF TimeStep, Cancel, TotalDeadline, AttemptDeadline
  <2> QED BY <2>1 DEF callVars, legVars
<1>3. CASE \E l \in Legs : LegStep(l)
  BY <1>3, LegOrder
<1>4. CASE NetStep
  <2>1. UNCHANGED <<callVars, timeVars, legVars>>
    BY <1>4 DEF NetStep, ServerAnswer, ServerError, Garble
  <2> QED BY <2>1 DEF callVars, timeVars, legVars
<1>5. CASE UNCHANGED vars
  BY <1>5 DEF vars, callVars, timeVars, legVars
<1> QED BY <1>1, <1>2, <1>3, <1>4, <1>5 DEF Next, Quiet

-----------------------------------------------------------------------------
(* Legs that were told to end.                                             *)

(* A leg that transmitted late has been told or is past its deadline, and  *)
(* is back at the head of the transmit loop only if it has been told.      *)
IndQuiet ==
  \A l \in Legs :
    /\ tail[l] <= 1
    /\ tail[l] = 1 => /\ Told(l) \/ LegDue(l)
                      /\ pc[l] \notin {"none", "dial", "write"}
                      /\ pc[l] = "top" => Told(l)

LEMMA InitQuiet == Init => IndQuiet
BY DEF Init, IndQuiet

LEMMA NextQuiet == IndType /\ IndQuiet /\ [Next]_vars => IndQuiet'
<1> SUFFICES ASSUME IndType, IndQuiet, [Next]_vars
             PROVE  IndQuiet'
  OBVIOUS
<1> USE DEF IndType, TypeOK
<1>0. \A l \in Legs : l[1] \in Calls /\ l[2] \in Srv
  BY DEF Legs
<1>1. ASSUME NEW o \in Calls, CallerStep(o)
      PROVE  IndQuiet'
  <2>1. UNCHANGED <<timeVars, tail>>
    BY <1>1 DEF CallerStep, NoChecksums, Start, SeqPick, SeqReturn, ParTake, legVars
  <2>2. \A p \in Calls : call[p] = "ok" => call'[p] = "ok"
    BY <1>1 DEF CallerStep, NoChecksums, Start, SeqPick, SeqReturn, ParTake, CallerTypes
  <2>3. \A l \in Legs : pc'[l] = pc[l] \/ pc[l] = "none" \/ pc'[l] = "gone"
    <3>1. CASE NoChecksums(o) \/ ParTake(o)
      BY <3>1 DEF NoChecksums, ParTake, legVars
    <3>2. CASE Start(o)
      BY <1>0, <3>2 DEF Start, LegsOfCalls, LegTypes
    <3>3. CASE SeqPick(o)
      BY <3>3 DEF SeqPick, LegTypes
    <3>4. CASE SeqReturn(o)
      BY <3>4 DEF SeqReturn, LegTypes
    <3> QED BY <1>1, <3>1, <3>2, <3>3, <3>4 DEF CallerStep
  <2> QED BY <1>0, <2>1, <2>2, <2>3 DEF IndQuiet, Told, LegDue, Parallel, timeVars
<1>2. CASE \E o \in Calls : TimeStep(o)
  <2>1. /\ UNCHANGED <<callVars, legVars>>
        /\ cancelled \subseteq cancelled' /\ late \subseteq late' /\ due \subseteq due'
    BY <1>2 DEF TimeStep, Cancel, TotalDeadline, AttemptDeadline
  <2> QED BY <2>1 DEF IndQuiet, Told, LegDue, Parallel, callVars, legVars
<1>3. ASSUME NEW l \in Legs, LegStep(l)
      PROVE  IndQuiet'
  <2>1. UNCHANGED <<call, timeVars>>
    BY <1>3 DEF LegStep, Dial, Top, Write, Wait, Timeout, RecvError, Read, Post, callVars
  <2>2. \A k \in Legs : (Told(k))' = Told(k) /\ (LegDue(k))' = LegDue(k)
    BY <2>1 DEF Told, LegDue, Parallel, timeVars
  <2>3. \A k \in Legs \ {l} : pc'[k] = pc[k] /\ tail'[k] = tail[k]
    BY <1>3 DEF LegStep, Dial, Top, Write, Wait, Timeout, RecvError, Read, Post, Goto, Return, LegTypes
  <2>4. CASE Write(l)
    <3>1. pc[l] = "write" /\ pc'[l] \in {"wait", "ret"}
      BY <2>4 DEF Write, Goto, Return, LegTypes
    <3>2. tail[l] = 0
      BY <3>1 DEF IndQuiet, LegTypes
    <3>3. tail'[l] = 0 \/ (tail'[l] = 1 /\ (Told(l) \/ LegDue(l)))
      BY <2>4, <3>2 DEF Write, LegTypes
    <3> QED BY <2>2, <2>3, <3>1, <3>3 DEF IndQuiet
  <2>5. CASE ~Write(l)
    <3>1. tail' = tail
      BY <1>3, <2>5 DEF LegStep, Dial, Top, Wait, Timeout, RecvError, Read, Post
    <3>2. pc[l] = "dial" \/ pc'[l] \notin {"none", "dial", "write", "top"}
          \/ (pc[l] = "top" /\ pc'[l] = "write" /\ ~Told(l))
          \/ (pc'[l] = "top" /\ ~LegDue(l))
      BY <1>3, <2>5 DEF LegStep, Dial, Top, Wait, Timeout, RecvError, Read, Post, Goto, Return, LegTypes
    <3>3. tail[l] = 1 => /\ pc'[l] \notin {"none", "dial", "write"}
                         /\ pc'[l] = "top" => Told(l)
      BY <3>2 DEF IndQuiet
    <3> QED BY <2>2, <2>3, <3>1, <3>3 DEF IndQuiet
  <2> QED BY <2>4, <2>5
<1>4. CASE NetStep
  <2>1. UNCHANGED <<callVars, timeVars, legVars>>
    BY <1>4 DEF NetStep, ServerAnswer, ServerError, Garble
  <2> QED BY <2>1 DEF IndQuiet, Told, LegDue, Parallel, callVars, timeVars, legVars
<1>5. CASE UNCHANGED vars
  BY <1>5 DEF IndQuiet, Told, LegDue, Parallel, vars, callVars, timeVars, legVars
<1> QED BY <1>1, <1>2, <1>3, <1>4, <1>5 DEF Next, Quiet

-----------------------------------------------------------------------------
(* The theorems.                                                           *)

LEMMA Invariants == Spec => [](IndType /\ IndGenuine /\ IndOrder /\ IndQuiet)
BY InitType, NextType, InitGenuine, NextGenuine, InitOrder, NextOrder, InitQuiet, NextQuiet, PTL
   DEF Spec

(* A call that succeeds returns counts its winning server computed for     *)
(* this very call's checksums, if the client checks signatures or nothing  *)
(* is corrupted (parseAnswer's id test and verifyAnswerSig).               *)
THEOREM CountsAreGenuine == Spec => []OkIsGenuine
<1>1. IndType /\ IndGenuine => OkIsGenuine
  <2> SUFFICES ASSUME IndGenuine, Trusted, NEW o \in Calls, call[o] = "ok"
               PROVE  by[o] \in Srv /\ val[<<o, by[o]>>] = o /\ <<o, by[o]>> \in served
    BY DEF OkIsGenuine
  <2>1. by[o] \in Srv /\ res[<<o, by[o]>>] = "ok" /\ <<o, by[o]>> \in Legs
    BY DEF IndGenuine, WinnerAnswered, Legs
  <2> QED BY <2>1 DEF IndGenuine, LegsGenuine
<1> QED BY Invariants, <1>1, PTL

(* A report's exchanges are strictly one after the other, so that no two   *)
(* servers are asked to count it unless the first gave no usable answer    *)
(* (send's loop).                                                          *)
THEOREM ReportsInOrder == Spec => []ReportFailsOverInOrder
<1>1. IndType /\ IndOrder => ReportFailsOverInOrder
  <2> SUFFICES ASSUME IndType, IndOrder, NEW o \in Reports, NEW s \in Srv, NEW t \in Srv,
                      s < t, pc[<<o, t>>] # "none"
               PROVE  pc[<<o, s>>] = "gone" /\ res[<<o, s>>] \notin {"ok", "told"}
    BY DEF ReportFailsOverInOrder
  <2>1. o \in Calls /\ ~Parallel(o)
    BY CallsAssumption DEF Parallel
  <2>2. at[o] \in 0 .. NumServers
    BY <2>1 DEF IndType, TypeOK, CallerTypes
  <2>3. t <= at[o]
    BY <2>1, <2>2 DEF IndOrder, SeqShape, Srv
  <2> QED BY <2>1, <2>2, <2>3 DEF IndOrder, SeqShape, Srv
<1> QED BY Invariants, <1>1, PTL

(* A leg told to end, by the winner of the race, by its context or by its  *)
(* deadline, transmits at most once more (exchange's transmit loop).       *)
THEOREM ToldLegsAreQuiet == Spec => []QuietOnceTold
<1>1. IndQuiet => QuietOnceTold
  BY DEF IndQuiet, QuietOnceTold
<1> QED BY Invariants, <1>1, PTL

-----------------------------------------------------------------------------
(* Refinement of DccCall.                                                  *)

LEMMA InitRefines == Init => Abs!Init
BY DEF Init, Abs!Init, Status

LEMMA StepRefines ==
  ASSUME IndType, IndGenuine, Trusted, [Next]_vars
  PROVE  [Abs!Next]_(Abs!absVars)
<1> USE DEF IndType, TypeOK, Abs!absVars
<1>0. \A o \in Calls : Status[o] = IF call[o] \in {"seq", "par"} THEN "open" ELSE call[o]
  BY DEF Status
<1>1. ASSUME NEW o \in Calls, CallerStep(o)
      PROVE  [Abs!Next]_(Abs!absVars)
  <2>1. served' = served
    BY <1>1 DEF CallerStep, NoChecksums, Start, SeqPick, SeqReturn, ParTake, netVars
  <2>2. ASSUME NEW c, call' = [call EXCEPT ![o] = c]
        PROVE  Status' = [Status EXCEPT ![o] = IF c \in {"seq", "par"} THEN "open" ELSE c]
    BY <2>2 DEF Status, CallerTypes
  <2>3. CASE NoChecksums(o)
    <3>1. Status[o] = "idle" /\ Status' = [Status EXCEPT ![o] = "err"] /\ by' = by
      BY <1>0, <2>2, <2>3 DEF NoChecksums
    <3> QED BY <2>1, <3>1 DEF Abs!Next, Abs!Refuse
  <2>4. CASE Start(o)
    <3>1. Status[o] = "idle" /\ Status' = [Status EXCEPT ![o] = "open"] /\ by' = by
      BY <1>0, <2>2, <2>4 DEF Start
    <3> QED BY <2>1, <3>1 DEF Abs!Next, Abs!Begin
  <2>5. CASE SeqPick(o)
    <3>1. by' = by /\ Status[o] = "open"
      BY <1>0, <2>5 DEF SeqPick
    <3>2. CASE call' = call
      BY <2>1, <3>1, <3>2 DEF Status
    <3>3. CASE call' = [call EXCEPT ![o] = "err"]
      <4>1. Status' = [Status EXCEPT ![o] = "err"]
        BY <2>2, <3>3
      <4> QED BY <2>1, <3>1, <4>1 DEF Abs!Next, Abs!Fail
    <3> QED BY <2>5, <3>2, <3>3 DEF SeqPick
  <2>6. CASE SeqReturn(o)
    <3>0. at[o] \in Srv /\ Current(o) \in Legs /\ Current(o) = <<o, at[o]>>
      BY <2>6, CurrentLeg DEF SeqReturn, Current
    <3>1. Status[o] = "open"
      BY <1>0, <2>6 DEF SeqReturn
    <3>2. CASE call' = call /\ by' = by
      BY <2>1, <3>2 DEF Status
    <3>3. CASE call' = [call EXCEPT ![o] = "err"] /\ by' = by
      <4>1. Status' = [Status EXCEPT ![o] = "err"]
        BY <2>2, <3>3
      <4> QED BY <2>1, <3>1, <3>3, <4>1 DEF Abs!Next, Abs!Fail
    <3>4. CASE /\ res[Current(o)] = "ok" /\ call' = [call EXCEPT ![o] = "ok"]
               /\ by' = [by EXCEPT ![o] = at[o]]
      <4>1. Status' = [Status EXCEPT ![o] = "ok"]
        BY <2>2, <3>4
      <4>2. <<o, at[o]>> \in served
        BY <3>0, <3>4 DEF IndGenuine, LegsGenuine
      <4>3. Abs!Succeed(o, at[o])
        BY <2>1, <3>1, <3>4, <4>1, <4>2 DEF Abs!Succeed
      <4> QED BY <3>0, <4>3 DEF Abs!Next
    <3> QED BY <2>6, <3>2, <3>3, <3>4 DEF SeqReturn
  <2>7. CASE ParTake(o)
    <3>0. Head(out[o]) \in Srv /\ <<o, Head(out[o])>> \in Legs
      BY <2>7 DEF ParTake, CallerTypes, Legs
    <3>1. Status[o] = "open"
      BY <1>0, <2>7 DEF ParTake
    <3>2. CASE call' = [call EXCEPT ![o] = "par"] /\ by' = by
      <4>1. call' = call
        BY <2>7, <3>2 DEF ParTake, CallerTypes
      <4> QED BY <2>1, <3>2, <4>1 DEF Status
    <3>3. CASE call' = [call EXCEPT ![o] = "err"] /\ by' = by
      <4>1. Status' = [Status EXCEPT ![o] = "err"]
        BY <2>2, <3>3
      <4> QED BY <2>1, <3>1, <3>3, <4>1 DEF Abs!Next, Abs!Fail
    <3>4. CASE /\ res[<<o, Head(out[o])>>] = "ok" /\ call' = [call EXCEPT ![o] = "ok"]
               /\ by' = [by EXCEPT ![o] = Head(out[o])]
      <4>1. Status' = [Status EXCEPT ![o] = "ok"]
        BY <2>2, <3>4
      <4>2. <<o, Head(out[o])>> \in served
        BY <3>0, <3>4 DEF IndGenuine, LegsGenuine
      <4>3. Abs!Succeed(o, Head(out[o]))
        BY <2>1, <3>1, <3>4, <4>1, <4>2 DEF Abs!Succeed
      <4> QED BY <3>0, <4>3 DEF Abs!Next
    <3> QED BY <2>7, <3>2, <3>3, <3>4 DEF ParTake
  <2> QED BY <1>1, <2>3, <2>4, <2>5, <2>6, <2>7 DEF CallerStep
<1>2. CASE \E o \in Calls : TimeStep(o)
  <2>1. UNCHANGED <<call, by, served>>
    BY <1>2 DEF TimeStep, Cancel, TotalDeadline, AttemptDeadline, callVars, netVars
  <2> QED BY <2>1 DEF Status
<1>3. CASE \E l \in Legs : LegStep(l)
  <2>1. UNCHANGED <<call, by, served>>
    BY <1>3 DEF LegStep, Dial, Top, Write, Wait, Timeout, RecvError, Read, Post, callVars, netVars
  <2> QED BY <2>1 DEF Status
<1>4. CASE NetStep
  <2>1. UNCHANGED <<call, by>>
    BY <1>4 DEF NetStep, ServerAnswer, ServerError, Garble, callVars
  <2>2. Status' = Status
    BY <2>1 DEF Status
  <2>3. CASE ServerAnswer
    <3>1. PICK r \in asked : served' = served \cup {<<r.ask, r.srv>>}
      BY <2>3 DEF ServerAnswer
    <3>2. r.ask \in Calls /\ r.srv \in Srv /\ call[r.ask] # "idle"
      BY DEF NetTypes, Request, IndGenuine, RequestsBearIds
    <3>3. Status[r.ask] # "idle"
      BY <1>0, <3>2
    <3>4. Abs!Handle(r.ask, r.srv)
      BY <2>1, <2>2, <3>1, <3>3 DEF Abs!Handle
    <3> QED BY <3>2, <3>4 DEF Abs!Next
  <2>4. CASE ServerError \/ Garble
    BY <2>1, <2>2, <2>4 DEF ServerError, Garble
  <2> QED BY <1>4, <2>3, <2>4 DEF NetStep
<1>5. CASE UNCHANGED vars
  BY <1>5 DEF Status, vars, callVars, netVars
<1> QED BY <1>1, <1>2, <1>3, <1>4, <1>5 DEF Next, Quiet

(* Every behaviour of the engine is one the abstract call allows: one      *)
(* outcome per call, and success only with the counts of a server that     *)
(* processed it (send).                                                    *)
THEOREM EngineImplementsCall ==
  ASSUME Trusted
  PROVE  Spec => ImplementsCall
<1>1. IndType /\ IndGenuine /\ [Next]_vars => [Abs!Next]_(Abs!absVars)
  BY StepRefines
<1> QED BY Invariants, InitRefines, <1>1, PTL DEF Spec, ImplementsCall, Abs!Spec

-----------------------------------------------------------------------------
(* That a call never fails while one of its exchanges got an answer.       *)

(* The legs of a call that have not posted their result.                   *)
Unposted(o) == {s \in Srv : pc[<<o, s>>] # "gone"}

(* Every result of a race has been taken, or is in the channel, or is      *)
(* still to be posted; and an answer has not been taken, or the race would *)
(* be over.                                                                *)
Racing(o) ==
  /\ at[o] + Len(out[o]) + Cardinality(Unposted(o)) = NumServers
  /\ \A s \in Srv : pc[<<o, s>>] = "gone" /\ res[<<o, s>>] = "ok" =>
       \E k \in 1 .. Len(out[o]) : out[o][k] = s

(* A call that has not begun has no legs; one that failed has none under   *)
(* way, and got no answer.                                                 *)
Idle(o)   == at[o] = 0 /\ out[o] = <<>> /\ \A s \in Srv : pc[<<o, s>>] = "none"
Failed(o) == \A s \in Srv : pc[<<o, s>>] \in {"none", "gone"} /\ res[<<o, s>>] # "ok"

RaceOf(o) ==
  /\ call[o] = "idle" => Idle(o)
  /\ call[o] = "seq" => ~Parallel(o)
  /\ call[o] = "par" => Racing(o)
  /\ call[o] = "err" => Failed(o)

IndRace == \A o \in Calls : RaceOf(o)

(* What the other invariants of the engine say of every reachable state.   *)
Known == IndType /\ IndGenuine /\ IndOrder

-----------------------------------------------------------------------------
LEMMA InitRace == Init => IndRace
BY DEF Init, IndRace, RaceOf, Idle, Legs

LEMMA UnpostedFinite ==
  ASSUME NEW o PROVE IsFiniteSet(Unposted(o)) /\ Cardinality(Unposted(o)) \in Nat
<1>1. IsFiniteSet(Srv)
  BY FS_Interval, ServersAssumption DEF Srv
<1>2. Unposted(o) \in SUBSET Srv
  BY DEF Unposted
<1> QED BY <1>1, <1>2, FS_Subset, FS_CardinalityType

(* A number moved from one summand to another, and the last of a sum.      *)
LEMMA Moved ==
  ASSUME NEW a \in Nat, NEW k \in Nat, NEW n \in Nat PROVE a + (k + 1) + (n - 1) = a + k + n
OBVIOUS

LEMMA LastOne ==
  ASSUME NEW a \in Nat, NEW k \in Nat \ {0}, NEW n \in Nat, a + k + n = a + 1
  PROVE  k = 1 /\ n = 0
OBVIOUS

LEMMA Appended ==
  ASSUME NEW S, NEW q \in Seq(S), NEW x \in S
  PROVE  /\ Len(q) \in Nat /\ Len(Append(q, x)) = Len(q) + 1 /\ Append(q, x)[Len(q) + 1] = x
         /\ \A k \in 1 .. Len(q) : Append(q, x)[k] = q[k]
OBVIOUS

(* A step that leaves a call's part of the state alone.                    *)
LEMMA RaceFrame ==
  ASSUME NEW o, RaceOf(o), UNCHANGED <<call[o], at[o], out[o]>>,
         \A s \in Srv : UNCHANGED <<pc[<<o, s>>], res[<<o, s>>]>>
  PROVE  RaceOf(o)'
<1>1. Unposted(o)' = Unposted(o)
  BY DEF Unposted
<1>2. Idle(o) => Idle(o)'
  BY DEF Idle
<1>3. Racing(o) => Racing(o)'
  BY <1>1 DEF Racing
<1>4. Failed(o) => Failed(o)'
  BY DEF Failed
<1> QED BY <1>2, <1>3, <1>4 DEF RaceOf

LEMMA LegsOf ==
  ASSUME Known, NEW o \in Calls, NEW s \in Srv
  PROVE  /\ <<o, s>> \in Legs
         /\ pc[<<o, s>>] \in LegStates /\ res[<<o, s>>] \in Results
         /\ res[<<o, s>>] = "ok" => pc[<<o, s>>] \in {"ret", "gone"}
<1>1. <<o, s>> \in Legs
  BY DEF Legs
<1> QED BY <1>1 DEF Known, IndType, TypeOK, LegTypes, IndGenuine, LegsGenuine

-----------------------------------------------------------------------------
(* The caller.                                                             *)

LEMMA StartRaces ==
  ASSUME Known, IndRace, NEW o \in Calls, Start(o) PROVE RaceOf(o)'
<1> USE DEF Known, IndType, TypeOK
<1>1. Idle(o)
  BY DEF Start, IndRace, RaceOf
<1>2. CASE Parallel(o)
  <2>1. call'[o] = "par" /\ at'[o] = 0 /\ out'[o] = <<>>
    BY <1>1, <1>2 DEF Start, CallerTypes, Idle
  <2>2. \A s \in Srv : pc'[<<o, s>>] = "dial"
    BY <1>2 DEF Start, Legs
  <2>3. Unposted(o)' = Srv
    BY <2>2 DEF Unposted
  <2>4. Cardinality(Srv) = NumServers
    BY FS_Interval, ServersAssumption DEF Srv
  <2>5. Racing(o)'
    BY <2>1, <2>2, <2>3, <2>4, ServersAssumption DEF Racing
  <2> QED BY <2>1, <2>5 DEF RaceOf
<1>3. CASE ~Parallel(o)
  BY <1>3 DEF Start, CallerTypes, RaceOf
<1> QED BY <1>2, <1>3

(* The sequential loop gives up at a server that did not answer, and so    *)
(* did none before it.                                                     *)
LEMMA SequenceFails ==
  ASSUME Known, IndRace, NEW o \in Calls, NoChecksums(o) \/ SeqPick(o) \/ SeqReturn(o)
  PROVE  RaceOf(o)'
<1> USE DEF Known, IndType, TypeOK
<1>1. CASE NoChecksums(o)
  <2>1. Idle(o)
    BY <1>1 DEF NoChecksums, IndRace, RaceOf
  <2>2. Failed(o)'
    BY <1>1, <2>1, LegsOf DEF NoChecksums, Idle, Failed, legVars
  <2>3. call'[o] = "err"
    BY <1>1 DEF NoChecksums, CallerTypes
  <2> QED BY <2>2, <2>3 DEF RaceOf
<1>2. ASSUME call[o] = "seq" PROVE /\ ~Parallel(o) /\ at[o] \in Srv /\ Current(o) = <<o, at[o]>>
                                  /\ \A s \in Srv \ {at[o]} : pc[<<o, s>>] \in {"none", "gone"}
                                                             /\ res[<<o, s>>] # "ok"
  <2>1. ~Parallel(o) /\ at[o] \in Srv /\ Current(o) = <<o, at[o]>>
    BY <1>2, CurrentLeg DEF IndRace, RaceOf, Current
  <2>2. \A s \in Srv \ {at[o]} : s < at[o] \/ s > at[o]
    BY <2>1 DEF Srv
  <2> QED BY <2>1, <2>2, LegsOf DEF IndOrder, SeqShape
<1>3. CASE SeqPick(o)
  <2>1. call[o] = "seq" /\ UNCHANGED res
    BY <1>3 DEF SeqPick
  <2>2. CASE call' = call
    BY <1>2, <2>1, <2>2 DEF RaceOf, Parallel
  <2>3. CASE call' # call
    <3>1. call'[o] = "err" /\ pc' = pc /\ pc[Current(o)] = "none"
      BY <1>3, <2>3 DEF SeqPick, CallerTypes
    <3>2. Failed(o)'
      BY <1>2, <2>1, <3>1, LegsOf DEF Failed
    <3> QED BY <3>1, <3>2 DEF RaceOf
  <2> QED BY <2>2, <2>3
<1>4. CASE SeqReturn(o)
  <2>1. call[o] = "seq" /\ UNCHANGED res /\ call'[o] \in {"ok", "err", "seq"}
    BY <1>4 DEF SeqReturn, CallerTypes
  <2>2. CASE call'[o] = "err"
    <3>1. pc' = [pc EXCEPT ![Current(o)] = "gone"] /\ res[Current(o)] # "ok"
      BY <1>4, <2>2 DEF SeqReturn, CallerTypes
    <3>2. \A s \in Srv : pc'[<<o, s>>] = IF s = at[o] THEN "gone" ELSE pc[<<o, s>>]
      BY <1>2, <2>1, <3>1, LegsOf DEF LegTypes
    <3>3. Failed(o)'
      BY <1>2, <2>1, <3>1, <3>2 DEF Failed
    <3> QED BY <2>2, <3>3 DEF RaceOf
  <2>3. CASE call'[o] # "err"
    BY <1>2, <2>1, <2>3 DEF RaceOf, Parallel
  <2> QED BY <2>2, <2>3
<1> QED BY <1>1, <1>3, <1>4

(* A result is taken: the race is won, or goes on with one result less to  *)
(* come, or this was the last one and all of them are in.                  *)
LEMMA TakeRaces ==
  ASSUME Known, IndRace, NEW o \in Calls, ParTake(o) PROVE RaceOf(o)'
<1> USE DEF Known, IndType, TypeOK
<1> DEFINE first == Head(out[o])
<1>1. /\ Racing(o) /\ UNCHANGED <<pc, res>> /\ Unposted(o)' = Unposted(o)
      /\ out[o] \in Seq(Srv) /\ out[o] # <<>> /\ at[o] \in 0 .. NumServers
  BY DEF ParTake, IndRace, RaceOf, CallerTypes, legVars, Unposted
<1>2. at'[o] = at[o] + 1 /\ out'[o] = Tail(out[o])
  BY DEF ParTake, CallerTypes
<1>3. /\ first = out[o][1] /\ Len(out'[o]) = Len(out[o]) - 1 /\ Len(out[o]) \in Nat \ {0}
      /\ \A k \in 1 .. Len(out[o]) - 1 : out'[o][k] = out[o][k + 1]
  BY <1>1, <1>2
<1>4. CASE res[<<o, first>>] = "ok"
  BY <1>4 DEF ParTake, RaceOf, CallerTypes
<1>5. CASE res[<<o, first>>] # "ok"
  <2>0. \A s \in Srv : pc[<<o, s>>] = "gone" /\ res[<<o, s>>] = "ok" =>
          \E k \in 2 .. Len(out[o]) : out[o][k] = s
    <3> SUFFICES ASSUME NEW s \in Srv, pc[<<o, s>>] = "gone", res[<<o, s>>] = "ok"
                 PROVE  \E k \in 2 .. Len(out[o]) : out[o][k] = s
      OBVIOUS
    <3>1. PICK k \in 1 .. Len(out[o]) : out[o][k] = s
      BY <1>1 DEF Racing
    <3>2. k # 1
      BY <1>3, <1>5, <3>1
    <3> QED BY <1>3, <3>1, <3>2
  <2>1. CASE at[o] + 1 = NumServers
    <3>1. Len(out[o]) = 1 /\ Unposted(o) = {}
      <4>1. PICK n \in Nat : n = Cardinality(Unposted(o))
        BY UnpostedFinite
      <4>2. at[o] + Len(out[o]) + n = at[o] + 1 /\ at[o] \in Nat
        BY <1>1, <2>1, <4>1 DEF Racing
      <4>3. Len(out[o]) = 1 /\ n = 0
        BY <1>3, <4>2, LastOne
      <4> QED BY <4>1, <4>3, UnpostedFinite, FS_EmptySet
    <3>2. \A s \in Srv : pc[<<o, s>>] = "gone" /\ res[<<o, s>>] # "ok"
      BY <2>0, <3>1 DEF Unposted
    <3>3. call'[o] = "err"
      BY <1>5, <2>1 DEF ParTake, CallerTypes
    <3>4. Failed(o)'
      BY <1>1, <3>2 DEF Failed
    <3> QED BY <3>3, <3>4 DEF RaceOf
  <2>2. CASE at[o] + 1 # NumServers
    <3>1. call'[o] = "par"
      BY <1>5, <2>2 DEF ParTake, CallerTypes
    <3>2. at'[o] + Len(out'[o]) + Cardinality(Unposted(o)') = NumServers
      BY <1>1, <1>2, <1>3, UnpostedFinite, ServersAssumption DEF Racing
    <3>3. ASSUME NEW s \in Srv, pc[<<o, s>>] = "gone", res[<<o, s>>] = "ok"
          PROVE  \E k \in 1 .. Len(out'[o]) : out'[o][k] = s
      <4>1. PICK k \in 2 .. Len(out[o]) : out[o][k] = s
        BY <2>0, <3>3
      <4>2. k - 1 \in 1 .. Len(out[o]) - 1 /\ out'[o][k - 1] = s
        <5>1. k - 1 \in 1 .. Len(out[o]) - 1 /\ (k - 1) + 1 = k
          BY <1>3, <4>1
        <5> QED BY <1>3, <4>1, <5>1
      <4> QED BY <1>3, <4>2
    <3>4. Racing(o)'
      BY <1>1, <3>2, <3>3 DEF Racing
    <3> QED BY <3>1, <3>4 DEF RaceOf
  <2> QED BY <2>1, <2>2
<1> QED BY <1>4, <1>5

LEMMA CallerRace ==
  ASSUME Known, IndRace, NEW o \in Calls, CallerStep(o) PROVE IndRace'
<1> USE DEF Known, IndType, TypeOK
<1>1. RaceOf(o)'
  BY StartRaces, SequenceFails, TakeRaces DEF CallerStep
<1>2. ASSUME NEW p \in Calls \ {o} PROVE RaceOf(p)'
  <2>1. UNCHANGED <<call[p], at[p], out[p]>>
    BY DEF CallerStep, NoChecksums, Start, SeqPick, SeqReturn, ParTake, CallerTypes
  <2>2. UNCHANGED res
    BY DEF CallerStep, NoChecksums, Start, SeqPick, SeqReturn, ParTake, legVars
  <2>3. \A s \in Srv : pc'[<<p, s>>] = pc[<<p, s>>]
    BY LegsOf DEF CallerStep, NoChecksums, Start, SeqPick, SeqReturn, ParTake, LegTypes, legVars,
                  Current, Legs
  <2> QED BY <2>1, <2>2, <2>3, RaceFrame DEF IndRace
<1> QED BY <1>1, <1>2 DEF IndRace

-----------------------------------------------------------------------------
(* The legs.                                                               *)

(* A result is posted: it moves from the legs to the channel.              *)
LEMMA PostRaces ==
  ASSUME Known, IndRace, NEW o \in Calls, NEW t \in Srv, Post(<<o, t>>) PROVE RaceOf(o)'
<1> USE DEF Known, IndType, TypeOK
<1>1. /\ call' = call /\ at' = at /\ res' = res /\ pc[<<o, t>>] = "ret" /\ Parallel(o)
      /\ out'[o] = Append(out[o], t) /\ out[o] \in Seq(Srv)
  BY DEF Post, Goto, CallerTypes
<1>2. \A s \in Srv : pc'[<<o, s>>] = IF s = t THEN "gone" ELSE pc[<<o, s>>]
  BY LegsOf DEF Post, Goto, LegTypes
<1>3. call[o] \notin {"idle", "err", "seq"}
  BY <1>1 DEF IndRace, RaceOf, Idle, Failed
<1>4. CASE call[o] = "par"
  <2>1. Racing(o)
    BY <1>4 DEF IndRace, RaceOf
  <2>2. Unposted(o)' = Unposted(o) \ {t} /\ t \in Unposted(o)
    BY <1>1, <1>2 DEF Unposted
  <2>3. Cardinality(Unposted(o)') = Cardinality(Unposted(o)) - 1
    BY <2>2, UnpostedFinite, FS_RemoveElement
  <2>4. /\ Len(out'[o]) = Len(out[o]) + 1 /\ Len(out[o]) \in Nat /\ out'[o][Len(out[o]) + 1] = t
        /\ \A k \in 1 .. Len(out[o]) : out'[o][k] = out[o][k]
    <3>1. /\ Len(out[o]) \in Nat /\ Len(Append(out[o], t)) = Len(out[o]) + 1
          /\ Append(out[o], t)[Len(out[o]) + 1] = t
          /\ \A k \in 1 .. Len(out[o]) : Append(out[o], t)[k] = out[o][k]
      BY <1>1, Appended
    <3> QED BY <1>1, <3>1
  <2>5. at'[o] + Len(out'[o]) + Cardinality(Unposted(o)') = NumServers
    <3>1. at[o] \in Nat
      BY ServersAssumption DEF CallerTypes
    <3>2. PICK n \in Nat : n = Cardinality(Unposted(o))
      BY UnpostedFinite
    <3>3. at[o] + Len(out[o]) + n = NumServers
      BY <2>1, <3>2 DEF Racing
    <3>4. at'[o] = at[o] /\ Len(out'[o]) = Len(out[o]) + 1 /\ Cardinality(Unposted(o)') = n - 1
      BY <1>1, <2>3, <2>4, <3>2
    <3>5. Len(out[o]) \in Nat
      BY <2>4
    <3>6. at[o] + (Len(out[o]) + 1) + (n - 1) = NumServers
      BY <3>1, <3>2, <3>3, <3>5, Moved
    <3> QED BY <3>4, <3>6
  <2>6. ASSUME NEW s \in Srv, pc'[<<o, s>>] = "gone", res[<<o, s>>] = "ok"
        PROVE  \E k \in 1 .. Len(out'[o]) : out'[o][k] = s
    <3>1. CASE s = t
      BY <2>4, <3>1
    <3>2. CASE s # t
      <4>1. PICK k \in 1 .. Len(out[o]) : out[o][k] = s
        BY <1>2, <2>1, <2>6, <3>2 DEF Racing
      <4> QED BY <2>4, <4>1
    <3> QED BY <3>1, <3>2
  <2>7. Racing(o)'
    BY <1>1, <2>5, <2>6 DEF Racing
  <2> QED BY <1>1, <1>4, <2>7 DEF RaceOf
<1>5. CASE call[o] \notin {"idle", "err", "seq", "par"}
  BY <1>1, <1>5 DEF RaceOf
<1> QED BY <1>3, <1>4, <1>5

(* The other steps of a leg, which end nothing.                            *)
LEMMA RunRaces ==
  ASSUME Known, IndRace, NEW l \in Legs, LegStep(l), ~Post(l) PROVE RaceOf(l[1])'
<1> USE DEF Known, IndType, TypeOK
<1> DEFINE o == l[1]
<1>0. o \in Calls /\ l[2] \in Srv /\ l = <<o, l[2]>>
  BY DEF Legs
<1>1. UNCHANGED <<call, at, out>> /\ pc[l] \notin {"none", "gone"}
  BY DEF LegStep, Dial, Top, Write, Wait, Timeout, RecvError, Read, callVars
<1>2. pc'[l] \notin {"none", "gone"} /\ \A k \in Legs \ {l} : pc'[k] = pc[k] /\ res'[k] = res[k]
  BY DEF LegStep, Dial, Top, Write, Wait, Timeout, RecvError, Read, Goto, Return, LegTypes
<1>3. \A s \in Srv \ {l[2]} : pc'[<<o, s>>] = pc[<<o, s>>] /\ res'[<<o, s>>] = res[<<o, s>>]
  BY <1>0, <1>2, LegsOf
<1>4. call[o] \notin {"idle", "err"}
  BY <1>0, <1>1 DEF IndRace, RaceOf, Idle, Failed
<1>5. CASE call[o] = "par"
  <2>1. Unposted(o)' = Unposted(o)
    BY <1>0, <1>1, <1>2, <1>3 DEF Unposted
  <2>2. Racing(o)
    BY <1>0, <1>5 DEF IndRace, RaceOf
  <2>3. Racing(o)'
    BY <1>0, <1>1, <1>2, <1>3, <2>1, <2>2 DEF Racing
  <2> QED BY <1>1, <1>5, <2>3 DEF RaceOf
<1>6. CASE call[o] # "par"
  BY <1>0, <1>1, <1>4, <1>6 DEF RaceOf, IndRace, Parallel
<1> QED BY <1>5, <1>6

LEMMA LegRace ==
  ASSUME Known, IndRace, NEW l \in Legs, LegStep(l) PROVE IndRace'
<1> USE DEF Known, IndType, TypeOK
<1>1. RaceOf(l[1])'
  <2>1. l[1] \in Calls /\ l[2] \in Srv /\ l = <<l[1], l[2]>>
    BY DEF Legs
  <2>2. CASE Post(l)
    <3>1. Post(<<l[1], l[2]>>)
      BY <2>1, <2>2
    <3> QED BY <2>1, <3>1, PostRaces
  <2> QED BY <2>2, RunRaces
<1>2. ASSUME NEW p \in Calls \ {l[1]} PROVE RaceOf(p)'
  <2>0. l[1] \in Calls
    BY DEF Legs
  <2>1. UNCHANGED <<call[p], at[p], out[p]>>
    BY <2>0 DEF LegStep, Dial, Top, Write, Wait, Timeout, RecvError, Read, Post, callVars, CallerTypes
  <2>2. \A k \in Legs \ {l} : pc'[k] = pc[k] /\ res'[k] = res[k]
    BY DEF LegStep, Dial, Top, Write, Wait, Timeout, RecvError, Read, Post, Goto, Return, LegTypes
  <2>3. \A s \in Srv : <<p, s>> \in Legs \ {l}
    BY LegsOf
  <2> QED BY <2>1, <2>2, <2>3, RaceFrame DEF IndRace
<1> QED BY <1>1, <1>2 DEF IndRace

LEMMA NextRace == Known /\ IndRace /\ [Next]_vars => IndRace'
<1> SUFFICES ASSUME Known, IndRace, [Next]_vars PROVE IndRace'
  OBVIOUS
<1>1. CASE \E o \in Calls : CallerStep(o)
  BY <1>1, CallerRace
<1>2. CASE \E l \in Legs : LegStep(l)
  BY <1>2, LegRace
<1>3. CASE (\E o \in Calls : TimeStep(o)) \/ NetStep \/ UNCHANGED vars
  <2>1. UNCHANGED <<callVars, legVars>>
    BY <1>3 DEF TimeStep, Cancel, TotalDeadline, AttemptDeadline, NetStep, ServerAnswer, ServerError,
                Garble, vars
  <2> QED BY <2>1, RaceFrame DEF IndRace, callVars, legVars
<1> QED BY <1>1, <1>2, <1>3 DEF Next, Quiet

-----------------------------------------------------------------------------
(* A call fails only when every exchange has ended without an answer: the  *)
(* race collects as many results as it started legs, each posted once, and *)
(* the loop over the servers stops at the first answer (parallelQuery,     *)
(* send).                                                                  *)
THEOREM FailureMeansNoAnswer == Spec => []NoAnswerDropped
<1>1. IndRace => NoAnswerDropped
  BY DEF IndRace, RaceOf, Failed, NoAnswerDropped
<1>2. Spec => []Known
  BY Invariants, PTL DEF Known
<1> QED BY InitRace, NextRace, <1>1, <1>2, PTL DEF Spec
=============================================================================
