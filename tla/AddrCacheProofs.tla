--------------------------- MODULE AddrCacheProofs ---------------------------
(***************************************************************************)
(* That the address cache never hands out an address older than addrTTL,   *)
(* for any number of exchanges, addresses and any TTL.                     *)
(***************************************************************************)
EXTENDS AddrCache, TLAPS

(* Resolving takes the address the server has now, and nothing was seen    *)
(* later than now.                                                         *)
SeenInThePast ==
  /\ seenAt[dns] = now
  /\ \A a \in Addrs : seenAt[a] <= now
  /\ \A e \in Exchanges : stamp[e] <= now

(* An entry was seen not earlier than its expiry less the TTL ...          *)
EntryIsHonest == cache # NoEntry => seenAt[cache.addr] >= cache.exp - TTL

(* ... because what is about to be stored was seen after resolve began.    *)
AnswerIsFresh ==
  \A e \in Exchanges : pc[e] = "store" => seenAt[got[e]] >= stamp[e]

IInv == TypeOK /\ SeenInThePast /\ EntryIsHonest /\ AnswerIsFresh /\ BoundedStaleness

LEMMA InitIInv == Init => IInv
  BY AddrsAssumption, RememberAssumption, TimesAssumption
  DEF Init, IInv, TypeOK, SeenInThePast, EntryIsHonest, AnswerIsFresh, BoundedStaleness

(* The steps that the clock and the name service take beside the program.  *)
LEMMA WorldIInv == ASSUME IInv, Tick \/ \E a \in Addrs : Move(a) PROVE IInv'
<1>1. CASE Tick
  <2>1. TypeOK'
    BY <1>1, TimesAssumption DEF IInv, TypeOK, Tick, proc, Entry
  <2>2. \A a \in Addrs : seenAt'[a] >= seenAt[a] /\ seenAt[a] \in Int /\ seenAt'[a] \in Int
    BY <1>1, TimesAssumption DEF IInv, TypeOK, SeenInThePast, Tick, proc
  <2>3. SeenInThePast'
    BY <1>1, <2>2, TimesAssumption DEF IInv, TypeOK, SeenInThePast, Tick, proc
  <2>4. EntryIsHonest' /\ AnswerIsFresh' /\ BoundedStaleness'
    BY <1>1, <2>2, TimesAssumption
    DEF IInv, TypeOK, EntryIsHonest, AnswerIsFresh, BoundedStaleness, Tick, proc, Entry
  <2> QED BY <2>1, <2>3, <2>4 DEF IInv
<1>2. ASSUME NEW a \in Addrs, Move(a) PROVE IInv'
  <2>1. TypeOK'
    BY <1>2, TimesAssumption DEF IInv, TypeOK, Move, proc
  <2>2. \A b \in Addrs : seenAt'[b] >= seenAt[b] /\ seenAt[b] \in Int /\ seenAt'[b] \in Int
    BY <1>2, TimesAssumption DEF IInv, TypeOK, SeenInThePast, Move
  <2>3. SeenInThePast'
    BY <1>2, <2>2, TimesAssumption DEF IInv, TypeOK, SeenInThePast, Move, proc
  <2>4. EntryIsHonest' /\ AnswerIsFresh' /\ BoundedStaleness'
    BY <1>2, <2>2, TimesAssumption
    DEF IInv, TypeOK, EntryIsHonest, AnswerIsFresh, BoundedStaleness, Move, proc, Entry
  <2> QED BY <2>1, <2>3, <2>4 DEF IInv
<1> QED BY <1>1, <1>2

LEMMA ExchangeIInv == ASSUME IInv, NEW e \in Exchanges, Step(e) PROVE IInv'
<1> USE TimesAssumption DEF IInv, TypeOK, SeenInThePast, EntryIsHonest, AnswerIsFresh, BoundedStaleness, Goto
<1>1. CASE Begin(e)
  BY <1>1 DEF Begin
<1>2. ASSUME Look(e), Hit(e), Goto(e, "dial"), got' = [got EXCEPT ![e] = cache.addr] PROVE IInv'
  <2>1. cache.addr \in Addrs /\ cache.exp \in Int /\ seenAt[cache.addr] >= cache.exp - TTL /\ stamp[e] < cache.exp
    BY <1>2 DEF Hit, Entry
  <2>2. seenAt[cache.addr] > stamp[e] - TTL
    BY <2>1
  <2>3. UNCHANGED <<now, dns, cache, stamp, seenAt, failed, condemned>>
    BY <1>2 DEF Look
  <2>4. TypeOK'
    BY <1>2, <2>1, <2>3
  <2>5. BoundedStaleness'
    BY <1>2, <2>1, <2>2, <2>3
  <2>6. AnswerIsFresh'
    BY <1>2, <2>3
  <2>7. SeenInThePast' /\ EntryIsHonest'
    BY <2>3
  <2> QED BY <2>4, <2>5, <2>6, <2>7
<1>3. ASSUME Look(e), ~Hit(e), Goto(e, "resolve"), UNCHANGED got PROVE IInv'
  <2>1. UNCHANGED <<now, dns, cache, stamp, got, seenAt, failed, condemned>>
    BY <1>3 DEF Look
  <2> QED BY <1>3, <2>1
<1>9. ASSUME Resolve(e), got' = [got EXCEPT ![e] = dns], Goto(e, "store") PROVE IInv'
  <2>1. UNCHANGED <<now, dns, cache, stamp, seenAt, condemned>>
    BY <1>9 DEF Resolve
  <2>2. failed' \subseteq Addrs
    BY <1>9 DEF Resolve
  <2>3. TypeOK'
    BY <1>9, <2>1, <2>2
  <2>4. AnswerIsFresh'
    BY <1>9, <2>1
  <2>5. BoundedStaleness'
    BY <1>9, <2>1
  <2>6. SeenInThePast' /\ EntryIsHonest'
    BY <2>1
  <2> QED BY <2>3, <2>4, <2>5, <2>6
<1>10. ASSUME Resolve(e), Goto(e, "idle"), UNCHANGED <<got, failed>> PROVE IInv'
  <2>1. UNCHANGED <<now, dns, cache, stamp, got, seenAt, failed, condemned>>
    BY <1>10 DEF Resolve
  <2> QED BY <1>10, <2>1
<1>4. CASE Store(e)
  BY <1>4 DEF Store, Entry
<1>5. CASE Drop(e)
  BY <1>5 DEF Drop, Record
<1>6. CASE Finish(e)
  BY <1>6 DEF Finish
<1>7. CASE SendFailure(e)
  BY <1>7 DEF SendFailure
<1>8. CASE RecvFailure(e)
  BY <1>8 DEF RecvFailure, Record
<1>11. Look(e) => IInv'
  BY <1>2, <1>3 DEF Look
<1>12. Resolve(e) => IInv'
  BY <1>9, <1>10 DEF Resolve
<1> QED BY <1>1, <1>4, <1>5, <1>6, <1>7, <1>8, <1>11, <1>12 DEF Step

LEMMA NextIInv == IInv /\ [Next]_vars => IInv'
<1> SUFFICES ASSUME IInv, [Next]_vars PROVE IInv'
  OBVIOUS
<1>1. CASE UNCHANGED vars
  BY <1>1 DEF vars, proc, IInv, TypeOK, SeenInThePast, EntryIsHonest, AnswerIsFresh, BoundedStaleness
<1>2. CASE \E e \in Exchanges : Step(e)
  BY <1>2, ExchangeIInv
<1>3. CASE Tick \/ \E a \in Addrs : Move(a)
  BY <1>3, WorldIInv
<1> QED BY <1>1, <1>2, <1>3 DEF Next

(* The types of the cache's variables (resolve, invalidateAddr).           *)
THEOREM CacheTypes == Spec => []TypeOK
<1>1. IInv => TypeOK
  BY DEF IInv
<1> QED BY InitIInv, NextIInv, <1>1, PTL DEF Spec

(* No exchange uses an address the name service gave up more than addrTTL  *)
(* before it began, whatever the order in which concurrent resolutions     *)
(* store their answers (resolve).                                          *)
THEOREM StalenessIsBounded == Spec => []BoundedStaleness
<1>1. IInv => BoundedStaleness
  BY DEF IInv
<1> QED BY InitIInv, NextIInv, <1>1, PTL DEF Spec
=============================================================================
