------------------------------- MODULE Verdict -------------------------------
(***************************************************************************)
(* From checksums to a verdict: the packet that is sent (buildQuery in     *)
(* dcc/proto.go), the counts of the answer, put back to their checksums    *)
(* (parseAnswer, buildResult in dcc/client.go), and what they mean         *)
(* (dcc/result.go).  The counts of before this message are left out: they  *)
(* are shown and decide nothing.                                           *)
(***************************************************************************)
EXTENDS Message, Select

CONSTANT Many        \* dccTgtsTooMany

ASSUME ManyAssumption == Many \in Nat \ {0}

OK  == Many + 1
OK2 == Many + 2

Reported(cks) == {i \in DOMAIN cks : cks[i].report}

(* buildQuery, and reportableCount is its length.                          *)
Packet(cks) == Select(cks, Reported(cks))

(* A server answers with a count for each checksum it is sent, in order.   *)
Reply(packet, held) == [i \in DOMAIN packet |-> held[packet[i].type]]

(* Slip: counts go to the checksums in order, sent or not.                 *)
BuildResultUnsent(cks, counts) ==
  [i \in DOMAIN cks \cap DOMAIN counts |-> [type |-> cks[i].type, cur |-> counts[i]]]

BuildResult(cks, counts) ==
  LET sent == Packet(cks)
  IN  [i \in DOMAIN sent \cap DOMAIN counts |-> [type |-> sent[i].type, cur |-> counts[i]]]

IsWhite(count) == count \in {OK, OK2}
BodyCounts(result) == {result[i].cur : i \in {j \in DOMAIN result : result[j].type \in BodyTypes}}

(* Slip: bulk is looked for first.                                         *)
VerdictBulkFirst(result, threshold) ==
  CASE \E n \in BodyCounts(result) : n >= threshold -> "reject"
    [] \E n \in BodyCounts(result) : IsWhite(n) -> "accept"
    [] OTHER -> "unknown"

(* VerdictThreshold, with Whitelisted and BodyCount.                       *)
VerdictThreshold(result, threshold) ==
  LET white == \E n \in BodyCounts(result) : IsWhite(n)
      count == Max(BodyCounts(result) \cup {0})
      have  == BodyCounts(result) # {}
  IN  CASE white -> "accept"
        [] ~white /\ have /\ count >= threshold -> "reject"
        [] OTHER -> "unknown"

(* The reference for a verdict: what a server holds of the message.        *)
TrueVerdict(sums, held) ==
  LET counts == {held[s[1]] : s \in {x \in sums : x[1] \in BodyTypes}}
  IN  CASE counts \cap {OK, OK2} # {} -> "accept"
        [] counts \cap {OK, OK2} = {} /\ \E n \in counts : n >= Many -> "reject"
        [] OTHER -> "unknown"
=============================================================================
