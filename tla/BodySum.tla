------------------------------- MODULE BodySum -------------------------------
(***************************************************************************)
(* The simple body checksum (dcc/body.go): all bytes are summed but white  *)
(* space and "=", and the ">" of a line that starts with ">From" is left   *)
(* out.  The state is how much of that has been matched, and what has been *)
(* given to the MD5 sum so far.                                            *)
(***************************************************************************)
EXTENDS Integers, Sequences

CONSTANT FromSeq     \* fromSeq, a line end and ">From"

Unsummed == {"nl", "sp", "tab", "cr", "="}

ASSUME FromAssumption ==
  /\ FromSeq \in Seq(STRING) /\ Len(FromSeq) >= 3 /\ FromSeq[1] = "nl" /\ FromSeq[2] = ">"
  /\ \A i \in 2 .. Len(FromSeq) : FromSeq[i] \notin Unsummed

(* What is summed of a byte.                                               *)
Summed(c) == IF c \in Unsummed THEN <<>> ELSE <<c>>

(* newBodyState: the start of the body counts as the start of a line.      *)
FreshBody == [flen |-> 1, sum |-> <<>>]

(* What was matched and has not been summed.                               *)
Pending(b) == SubSeq(FromSeq, 2, b.flen)

(* Slip: a match that fails is forgotten.                                  *)
BodyByteForgetful(b, c) ==
  LET last == Len(FromSeq)
  IN  CASE b.flen # 0 /\ c = FromSeq[b.flen + 1] /\ b.flen + 1 < last -> [b EXCEPT !.flen = @ + 1]
        [] b.flen # 0 /\ c = FromSeq[b.flen + 1] /\ b.flen + 1 = last ->
             [flen |-> 0, sum |-> b.sum \o SubSeq(FromSeq, 3, last)]
        [] OTHER -> [flen |-> IF c = "nl" THEN 1 ELSE 0,
                     sum |-> b.sum \o Summed(c)]

(* The loop of body0 on byte c.                                            *)
BodyByte(b, c) ==
  LET last == Len(FromSeq)
  IN  CASE b.flen # 0 /\ c = FromSeq[b.flen + 1] /\ b.flen + 1 < last -> [b EXCEPT !.flen = @ + 1]
        [] b.flen # 0 /\ c = FromSeq[b.flen + 1] /\ b.flen + 1 = last ->
             [flen |-> 0, sum |-> b.sum \o SubSeq(FromSeq, 3, last)]
        [] OTHER -> [flen |-> IF c = "nl" THEN 1 ELSE 0,
                     sum |-> b.sum \o Pending(b) \o Summed(c)]

(* body0 *)
Body0(b, bytes) ==
  LET after[n \in 0 .. Len(bytes)] == IF n = 0 THEN b ELSE BodyByte(after[n - 1], bytes[n])
  IN  after[Len(bytes)]
=============================================================================
