------------------------------ MODULE AddrCache ------------------------------
(***************************************************************************)
(* The cache of resolved addresses in dcc/client.go: resolve and           *)
(* invalidateAddr, used by several exchanges with one server at a time.    *)
(* (The map has one independent entry per server.)  Only the map accesses  *)
(* are under addrMu; the clock is read before the first of them, and the   *)
(* name is resolved between two of them.  The name service is external:    *)
(* the server may move to another address at any time.                     *)
(***************************************************************************)
EXTENDS Integers

CONSTANTS
  Exchanges,    \* goroutines in exchange, each used again and again
  Addrs,        \* the addresses the server may have
  Home,         \* its address at the start
  TTL,          \* addrTTL, in ticks
  MaxTime,      \* BOUND: the last tick
  NoEntry,      \* no entry in the map
  Remember      \* whether the history of failed addresses is kept

ASSUME AddrsAssumption == Home \in Addrs
ASSUME RememberAssumption == Remember \in BOOLEAN
ASSUME TimesAssumption == TTL \in Nat \ {0} /\ MaxTime \in Nat

VARIABLES
  now,          \* the clock
  dns,          \* the address the name service gives
  cache,        \* addrCache[srv]: [addr, exp], or NoEntry
  pc,           \* pc[e]: where the exchange is
  stamp,        \* stamp[e]: the now resolve took at its start
  got,          \* got[e]: the address resolve found
  seenAt,       \* seenAt[a]: the last time the name service gave a, -TTL if never
  failed,       \* addresses that DialUDP or Write failed on, not resolved to since
  condemned     \* condemned[e]: failed, as it was when e began

proc == <<pc, stamp, got>>
vars == <<now, dns, cache, proc, seenAt, failed, condemned>>

Entry == [addr : Addrs, exp : 0 .. MaxTime + TTL]

Init ==
  /\ now = 0 /\ dns = Home /\ cache = NoEntry
  /\ pc = [e \in Exchanges |-> "idle"]
  /\ stamp = [e \in Exchanges |-> 0]
  /\ got = [e \in Exchanges |-> Home]
  /\ seenAt = [a \in Addrs |-> IF a = Home THEN 0 ELSE -TTL]
  /\ failed = {}
  /\ condemned = [e \in Exchanges |-> {}]

Goto(e, where) == pc' = [pc EXCEPT ![e] = where]

(* The address e used has failed.                                          *)
Record(e) == failed' = IF Remember THEN failed \cup {got[e]} ELSE failed

(* resolve: now := time.Now(), before the lock.                            *)
Begin(e) ==
  /\ pc[e] = "idle"
  /\ Goto(e, "look")
  /\ stamp' = [stamp EXCEPT ![e] = now]
  /\ condemned' = [condemned EXCEPT ![e] = failed]
  /\ UNCHANGED <<now, dns, cache, got, seenAt, failed>>

Hit(e) == cache # NoEntry /\ stamp[e] < cache.exp

(* Slip: a hit renews the entry.                                           *)
LookRenewing(e) ==
  /\ pc[e] = "look"
  /\ \/ /\ Hit(e)
        /\ got' = [got EXCEPT ![e] = cache.addr]
        /\ cache' = [cache EXCEPT !.exp = @ + TTL]
        /\ Goto(e, "dial")
     \/ /\ ~Hit(e)
        /\ Goto(e, "resolve")
        /\ UNCHANGED <<cache, got>>
  /\ UNCHANGED <<now, dns, stamp, seenAt, failed, condemned>>

(* The first critical section: a hit is an entry that has not expired.     *)
Look(e) ==
  /\ pc[e] = "look"
  /\ \/ /\ Hit(e)
        /\ got' = [got EXCEPT ![e] = cache.addr]
        /\ Goto(e, "dial")
     \/ /\ ~Hit(e)
        /\ Goto(e, "resolve")
        /\ UNCHANGED got
  /\ UNCHANGED <<now, dns, cache, stamp, seenAt, failed, condemned>>

(* The name service answers, and the answer travels back; or it fails, and *)
(* nothing is cached.                                                      *)
Resolve(e) ==
  /\ pc[e] = "resolve"
  /\ \/ /\ got' = [got EXCEPT ![e] = dns]
        /\ failed' = failed \ {dns}
        /\ Goto(e, "store")
     \/ Goto(e, "idle") /\ UNCHANGED <<got, failed>>
  /\ UNCHANGED <<now, dns, cache, stamp, seenAt, condemned>>

(* Slip: the entry lives from when it is stored.                           *)
StoreFresh(e) ==
  /\ pc[e] = "store"
  /\ cache' = [addr |-> got[e], exp |-> now + TTL]
  /\ Goto(e, "dial")
  /\ UNCHANGED <<now, dns, stamp, got, seenAt, failed, condemned>>

(* The second critical section: the entry lives from when resolve began.   *)
Store(e) ==
  /\ pc[e] = "store"
  /\ cache' = [addr |-> got[e], exp |-> stamp[e] + TTL]
  /\ Goto(e, "dial")
  /\ UNCHANGED <<now, dns, stamp, got, seenAt, failed, condemned>>

(* The exchange uses the address and ends well.                            *)
Finish(e) ==
  /\ pc[e] = "dial"
  /\ Goto(e, "idle")
  /\ UNCHANGED <<now, dns, cache, stamp, got, seenAt, failed, condemned>>

(* DialUDP or Write fails: invalidateAddr is called.                       *)
SendFailure(e) ==
  /\ pc[e] = "dial"
  /\ Goto(e, "drop")
  /\ UNCHANGED <<now, dns, cache, stamp, got, seenAt, failed, condemned>>

(* invalidateAddr: whatever the map holds for the server is deleted.       *)
Drop(e) ==
  /\ pc[e] = "drop"
  /\ cache' = NoEntry
  /\ Record(e)
  /\ Goto(e, "idle")
  /\ UNCHANGED <<now, dns, stamp, got, seenAt, condemned>>

(* Read fails (a refused datagram is reported there): the exchange ends    *)
(* and the map is left alone.                                              *)
RecvFailure(e) ==
  /\ pc[e] = "dial"
  /\ Goto(e, "idle")
  /\ UNCHANGED <<now, dns, cache, stamp, got, seenAt, failed, condemned>>

(* The server moves.                                                       *)
Move(a) ==
  /\ a # dns
  /\ dns' = a
  /\ seenAt' = [seenAt EXCEPT ![a] = now]
  /\ UNCHANGED <<now, cache, proc, failed, condemned>>

Tick ==
  /\ now < MaxTime
  /\ now' = now + 1
  /\ seenAt' = [seenAt EXCEPT ![dns] = now + 1]
  /\ UNCHANGED <<dns, cache, proc, failed, condemned>>

Step(e) == \/ Begin(e) \/ Look(e) \/ Resolve(e) \/ Store(e) \/ Drop(e)
           \/ Finish(e) \/ SendFailure(e) \/ RecvFailure(e)

Next == (\E e \in Exchanges : Step(e)) \/ (\E a \in Addrs : Move(a)) \/ Tick

Spec == Init /\ [][Next]_vars

-----------------------------------------------------------------------------
TypeOK ==
  /\ now \in 0 .. MaxTime /\ dns \in Addrs
  /\ cache \in Entry \cup {NoEntry}
  /\ pc \in [Exchanges -> {"idle", "look", "resolve", "store", "dial", "drop"}]
  /\ stamp \in [Exchanges -> 0 .. MaxTime]
  /\ got \in [Exchanges -> Addrs]
  /\ seenAt \in [Addrs -> -TTL .. MaxTime]
  /\ failed \subseteq Addrs
  /\ condemned \in [Exchanges -> SUBSET Addrs]

(* An exchange never uses an address the name service gave up more than    *)
(* addrTTL before the exchange began, however slow the resolutions that    *)
(* filled the cache were and in whatever order they stored (resolve).      *)
BoundedStaleness ==
  \A e \in Exchanges : pc[e] = "dial" => seenAt[got[e]] > stamp[e] - TTL

(* The comment of invalidateAddr says that after a failure the next        *)
(* attempt re-resolves instead of reusing the stale entry: e does not use  *)
(* an address that had failed when e began, unless the name service has    *)
(* given it again since.                                                   *)
ReresolvesAfterSend ==
  \A e \in Exchanges : pc[e] = "dial" /\ got[e] \in condemned[e] => got[e] \notin failed
=============================================================================
