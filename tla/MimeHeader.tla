------------------------------ MODULE MimeHeader ------------------------------
(***************************************************************************)
(* The MIME headers as the body checksums see them (parseMimeHdr and       *)
(* ckMimeHdr in dcc/mime.go): an automaton that finds the transfer         *)
(* encoding, the content type, the charset and the boundary in the fields  *)
(* of the message, which it gets whole, and in those of an entity of a     *)
(* multipart body, which it gets line by line, folds included.             *)
(*                                                                         *)
(* A line is a sequence of tokens, "nl" at its end.  The words that the    *)
(* automaton looks for are one token each: "ct" is "Content-Type:", "cte"  *)
(* "Content-Transfer-Encoding:".  The state c is the part of struct cks    *)
(* that belongs to the containers and decoders.                            *)
(***************************************************************************)
EXTENDS Integers, Sequences, SequencesExt

CONSTANTS
  BndNum,      \* mimeBndNum, how deep containers may nest
  BndMax       \* ckBndMax, without the two dashes

ASSUME BoundariesAssumption == BndNum \in Nat \ {0} /\ BndMax \in Nat \ {0}

Blank == {"ws", "nl"}

PlainEntity == [ct |-> "text", cset |-> "8859-1", ce |-> "ascii"]

(* newCks.  fresh is mimeBndMatches = 0 at the start of a line: the line   *)
(* is not to be compared with the boundaries.                              *)
NewCks ==
  [nest |-> 0, bnds |-> [k \in 1 .. BndNum |-> <<>>], fresh |-> TRUE, mp |-> "text",
   hst |-> "idle", num |-> 0, name |-> <<>>, quoted |-> FALSE, entity |-> PlainEntity,
   qp |-> [st |-> "idle", x |-> "nl", y |-> "nl"], b64 |-> <<>>]

(* Slip: a quantum that was not complete is kept.                          *)
DecodersInitKept(c) ==
  [c EXCEPT !.fresh = TRUE, !.entity = PlainEntity, !.qp.st = "idle"]

(* decodersInit *)
DecodersInit(c) ==
  [c EXCEPT !.fresh = TRUE, !.entity = PlainEntity, !.qp.st = "idle", !.b64 = <<>>]

-----------------------------------------------------------------------------
Used(c)  == [c |-> c, used |-> TRUE]
Again(c) == [c |-> c, used |-> FALSE]
Goto(c, st) == [c EXCEPT !.hst = st]

(* Slip: one container more than there is room for.                        *)
MayNestOneMore(c, inHdrs) == inHdrs \/ c.nest <= BndNum

(* The header of the message declares the first container anew.            *)
MayNest(c, inHdrs) == inHdrs \/ c.nest < BndNum

(* Slip: the value of a boundary ends at a semicolon even in quotes.       *)
BndEndsUnquoted(c, t) == t \in {"nl", "ws", ";"}

(* The end of the value of a boundary (case mhdrBndValue).                 *)
BndEnds(c, t) == t = "nl" \/ (t \in {"ws", ";"} /\ ~c.quoted)

BndValue(c, t) ==
  CASE BndEnds(c, t) -> [Goto(c, "idle") EXCEPT !.bnds[c.nest + 1] = c.name, !.nest = @ + 1]
    [] ~BndEnds(c, t) /\ t = "dq" -> [c EXCEPT !.quoted = ~@]
    [] OTHER -> IF Len(c.name) + 1 >= BndMax THEN Goto(c, "idle") ELSE [c EXCEPT !.name = Append(@, t)]

(* Case mhdrCsetISOX: a number of at most two digits.                      *)
CsetNumber(c, t) ==
  LET num == c.num * 10 + (IF t = "2" THEN 2 ELSE 1)
  IN  IF t \in {"1", "2"}
      THEN IF num > 99 THEN Goto([c EXCEPT !.num = num], "idle") ELSE [c EXCEPT !.num = num]
      ELSE [Goto(c, "idle") EXCEPT
              !.entity.cset = IF t \in Blank \cup {"dq", ";"} /\ c.num = 2 THEN "8859-2" ELSE "8859-1"]

(* The parameters of a field: what precedes a parameter is skipped.        *)
SkipParam(c, t, span) ==
  IF t \in Blank THEN Again(Goto(c, span)) ELSE Used(IF t = ";" THEN Goto(c, span) ELSE c)

(* One turn of the loop of parseMimeHdr on token t, by state.              *)
HdrTurn(c, t, inHdrs) ==
  CASE c.hst = "idle" -> Used(c)
    [] c.hst = "field" -> CASE t = "ct" -> Used(Goto(c, "ctws")) [] t = "cte" -> Used(Goto(c, "cews"))
                            [] OTHER -> Again(Goto(c, "idle"))
    [] c.hst = "cews" -> CASE t \in Blank -> Used(c)
                           [] t \in {"qp", "b64"} -> Used([Goto(c, "idle") EXCEPT !.entity.ce = t])
                           [] OTHER -> Again(Goto(c, "idle"))
    [] c.hst = "ctws" -> CASE t \in Blank -> Used(c)
                           [] t = "text" -> Used([Goto(c, "html") EXCEPT !.entity.ct = "text"])
                           [] t = "multipart" /\ MayNest(c, inHdrs) -> Used(Goto(c, "bskip"))
                           [] t = "message" \/ (t = "multipart" /\ ~MayNest(c, inHdrs)) ->
                                Again(Goto(c, "idle"))
                           [] OTHER -> Again([Goto(c, "idle") EXCEPT !.entity.ct = "binary"])
    [] c.hst = "html" -> IF t = "/html" THEN Used([Goto(c, "cskip") EXCEPT !.entity.ct = "html"])
                         ELSE Again(Goto(c, "cskip"))
    [] c.hst = "cskip" -> SkipParam(c, t, "cspan")
    [] c.hst = "cspan" -> IF t \in Blank THEN Used(c) ELSE Again(Goto(c, "cset"))
    [] c.hst = "cset" -> IF t = "charset=" THEN Used(Goto(c, "iso")) ELSE Again(Goto(c, "cskip"))
    [] c.hst \in {"iso", "isoq"} ->
         CASE t = "dq" /\ c.hst = "iso" -> Used(Goto(c, "isoq"))
           [] t = "iso-8859-" -> Used([Goto(c, "isox") EXCEPT !.num = 0])
           [] OTHER -> Again(Goto(c, "idle"))
    [] c.hst = "isox" -> Used(CsetNumber(c, t))
    [] c.hst = "bskip" -> SkipParam(c, t, "bspan")
    [] c.hst = "bspan" -> IF t \in Blank THEN Used(c) ELSE Again(Goto(c, "bnd"))
    [] c.hst = "bnd" ->
         IF t # "boundary=" THEN Again(Goto(c, "bskip"))
         ELSE LET value == [Goto(c, "value") EXCEPT !.quoted = FALSE, !.name = <<>>]
              IN  Used(IF inHdrs THEN [value EXCEPT !.nest = 0, !.fresh = FALSE] ELSE value)
    [] c.hst = "value" -> Used(BndValue(c, t))

RECURSIVE ParseTokens(_, _, _)
ParseTokens(c, line, inHdrs) ==
  IF line = <<>> \/ c.hst = "idle" THEN c
  ELSE LET turn == HdrTurn(c, Head(line), inHdrs)
       IN  ParseTokens(turn.c, IF turn.used THEN Tail(line) ELSE line, inHdrs)

(* parseMimeHdr on a line of an entity's header that is not empty: a line  *)
(* that does not start with a blank starts a field.  cksMimeBOL is always  *)
(* set here, as lines come whole.                                          *)
HeaderLine(c, line) ==
  ParseTokens(IF line[1] = "ws" THEN c ELSE Goto(c, "field"), line, FALSE)

(* ckMimeHdr on a field of the message.                                    *)
CkMimeHdr(c, field) ==
  LET whole == ParseTokens(Goto(c, "field"), field, TRUE)
      ended == ParseTokens(whole, <<"nl">>, TRUE)
  IN  [ended EXCEPT !.mp = IF ended.nest # 0 THEN "preamble" ELSE @]
=============================================================================
