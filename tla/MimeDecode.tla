------------------------------ MODULE MimeDecode ------------------------------
(***************************************************************************)
(* The transfer encodings (qpDecode, b64Decode and decodeSum in            *)
(* dcc/mime.go).  The decoders work in chunks of at most OutMax bytes and  *)
(* keep their state from chunk to chunk.                                   *)
(*                                                                         *)
(* A decoded byte is a tuple: <<t>> is token t as it is, <<"qp", x, y>>    *)
(* the byte "=xy" stands for, <<"b1", s, t>> the first byte of a quantum   *)
(* of base64, which sextets s and t determine, and so on.                  *)
(***************************************************************************)
EXTENDS MimeHeader

CONSTANT OutMax      \* the size of tbuf in decodeSum

ASSUME OutAssumption == OutMax \in Nat /\ OutMax >= 3

HexTokens    == {"1", "2", "4"}
Base64Tokens == HexTokens \cup {"x"}

(* One turn of the loop of qpDecode: the state, the input left, the output. *)
(* A failed escape is given out as it is, a byte a turn, though only while *)
(* there is more input.                                                    *)
QpTurn(q, in) ==
  LET t == Head(in)
      Eat(st, out)  == [q |-> [q EXCEPT !.st = st], in |-> Tail(in), out |-> out]
      Give(st, out) == [q |-> [q EXCEPT !.st = st], in |-> in, out |-> out]
      EatX(st, out) == [q |-> [q EXCEPT !.st = st, !.x = t], in |-> Tail(in), out |-> out]
      EatY(st, out) == [q |-> [q EXCEPT !.st = st, !.y = t], in |-> Tail(in), out |-> out]
  IN  CASE q.st = "idle"  -> IF t = "=" THEN Eat("eq", <<>>) ELSE Eat("idle", <<<<t>>>>)
        [] q.st = "eq"    -> CASE t = "nl" -> EatX("idle", <<>>)
                               [] t \in HexTokens \cup {"cr"} -> EatX("one", <<>>)
                               [] OTHER -> EatX("fail1", <<<<"=">>>>)
        [] q.st = "one"   -> CASE q.x = "cr" /\ t = "nl" -> EatY("idle", <<>>)
                               [] q.x # "cr" /\ t \in HexTokens -> EatY("idle", <<<<"qp", q.x, t>>>>)
                               [] OTHER -> EatY("fail2", <<<<"=">>>>)
        [] q.st = "fail1" -> Give("idle", <<<<q.x>>>>)
        [] q.st = "fail2" -> Give("fail3", <<<<q.x>>>>)
        [] q.st = "fail3" -> Give("idle", <<<<q.y>>>>)

(* qpDecode: until the input is used up or the output is full.             *)
RECURSIVE QpDecode(_, _, _)
QpDecode(q, in, out) ==
  IF in = <<>> \/ Len(out) >= OutMax THEN [q |-> q, in |-> in, out |-> out]
  ELSE LET turn == QpTurn(q, in) IN QpDecode(turn.q, turn.in, out \o turn.out)

(* The bytes of a quantum, which is the sextets so far.                    *)
Bytes64(s, n) == SubSeq(<<<<"b1", s[1], s[2]>>, <<"b2", s[2], s[IF n > 1 THEN 3 ELSE 2]>>,
                          <<"b3", s[IF n > 1 THEN 3 ELSE 2], s[IF n > 2 THEN 4 ELSE 2]>>>>, 1, n)

(* b64Decode.  Padding ends a quantum, and is then itself taken for the    *)
(* first sextet of the next one, unless the output is full.                *)
RECURSIVE B64Decode(_, _, _)
B64Decode(s, in, out) ==
  LET t    == Head(in)
      full(o) == Len(o) >= OutMax - 3
      pad  == IF Len(s) \in 2 .. 3 THEN out \o Bytes64(s, Len(s) - 1) ELSE out
      next == Append(IF t = "=" THEN <<>> ELSE s, t)
      four == (IF t = "=" THEN pad ELSE out) \o Bytes64(next, 3)
  IN  CASE in = <<>> -> [q |-> s, in |-> in, out |-> out]
        [] in # <<>> /\ t \notin Base64Tokens \cup {"="} -> B64Decode(s, Tail(in), out)
        [] in # <<>> /\ t = "=" /\ full(pad) -> [q |-> <<>>, in |-> Tail(in), out |-> pad]
        [] OTHER -> CASE Len(next) < 4 -> B64Decode(next, Tail(in), IF t = "=" THEN pad ELSE out)
                      [] Len(next) = 4 /\ full(four) -> [q |-> <<>>, in |-> Tail(in), out |-> four]
                      [] OTHER -> B64Decode(<<>>, Tail(in), four)

(* The loop of decodeSum: chunk after chunk, here put together again.      *)
RECURSIVE Decode(_, _, _)
Decode(c, in, out) ==
  LET qp  == QpDecode(c.qp, in, <<>>)
      b64 == B64Decode(c.b64, in, <<>>)
  IN  CASE in = <<>> -> [c |-> c, out |-> out]
        [] in # <<>> /\ c.entity.ce = "ascii" -> [c |-> c, out |-> out \o [i \in DOMAIN in |-> <<in[i]>>]]
        [] in # <<>> /\ c.entity.ce = "qp"  -> Decode([c EXCEPT !.qp = qp.q], qp.in, out \o qp.out)
        [] in # <<>> /\ c.entity.ce = "b64" -> Decode([c EXCEPT !.b64 = b64.q], b64.in, out \o b64.out)
=============================================================================
