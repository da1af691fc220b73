--------------------------------- MODULE Mime ---------------------------------
(***************************************************************************)
(* A message body on its way to the checksums (ckBody in dcc/mime.go,      *)
(* ckBodyMultipart in dcc/mime_multipart.go).  A multipart body is walked  *)
(* line by line: a line that is a boundary of an open container ends what  *)
(* came before and opens an entity, or ends the container; an entity has a *)
(* header and, after an empty line, its text, which is decoded as the      *)
(* header says.  All else is a line end to the fuzzy checksums.  A body    *)
(* that is not multipart is all text.                                      *)
(*                                                                         *)
(* A step is a line.  Lines are sequences of tokens (MimeHeader), only the *)
(* last one of which may lack its end.                                     *)
(***************************************************************************)
EXTENDS MimeDecode

CONSTANTS
  Fields,      \* BOUND: the MIME fields that a message's header may have
  HeaderLines, \* BOUND: the lines of the header of an entity
  TextLines,   \* BOUND: the other lines
  LastPieces,  \* BOUND: what may follow the last line end
  MaxHeld,     \* BOUND: the lines between two boundaries
  Adjacent     \* BOUND: may a boundary follow a boundary, and a header start with a fold?

VARIABLES
  c,           \* the containers and decoders (struct cks)
  held,        \* the lines bp[sum:cmp], which nothing was done with yet
  line,        \* the last line read
  fed,         \* what decodeSum has just made of the lines held, and for which entity
  over         \* the body is used up

vars == <<c, held, line, fed, over>>

Tokens(lines) == FlattenSeq(lines)
LineEnd(d) == [c |-> d, fed |-> [out |-> <<<<"nl">>>>, entity |-> PlainEntity]]

Nothing == [out |-> <<>>, entity |-> PlainEntity]

(* decodeSum, and what it gives to the checksums.                          *)
DecodeSum(d, lines) ==
  LET decoded == Decode(d, Tokens(lines), <<>>)
  IN  CASE Tokens(lines) = <<>> -> [c |-> d, fed |-> Nothing]
        [] Tokens(lines) # <<>> /\ d.mp # "text" -> LineEnd(d)
        [] OTHER -> [c |-> decoded.c, fed |-> [out |-> decoded.out, entity |-> d.entity]]

Init ==
  /\ \E h \in Fields : c = FoldLeft(CkMimeHdr, NewCks, h)
  /\ held = <<>> /\ line = <<>> /\ fed = Nothing /\ over = FALSE

-----------------------------------------------------------------------------
(* Blanks and the end of the line, or nothing of a piece that was cut off. *)
BlankRest(l) == \A i \in DOMAIN l : l[i] = "ws" \/ (l[i] = "nl" /\ i = Len(l))
HasEnd(l) == l # <<>> /\ l[Len(l)] = "nl"

(* Slip: what is left of the line after the boundary is not looked at.     *)
MatchLax(l, name) ==
  LET b    == <<"-", "-">> \o name
      rest == SubSeq(l, Len(b) + 1, Len(l))
  IN  CASE ~IsPrefix(b, l) -> IF IsPrefix(l, b) THEN "cut" ELSE "miss"
        [] IsPrefix(b, l) /\ IsPrefix(<<"-", "-">>, rest) -> IF HasEnd(l) THEN "close" ELSE "cut"
        [] OTHER -> IF HasEnd(l) THEN "open" ELSE "cut"

(* What a line is to the boundary of a container: "open" or "close" when   *)
(* it is that boundary, "cut" when the body ends within it.                *)
Match(l, name) ==
  LET b    == <<"-", "-">> \o name
      rest == SubSeq(l, Len(b) + 1, Len(l))
      end  == IF HasEnd(l) THEN "whole" ELSE "cut"
  IN  CASE ~IsPrefix(b, l) -> IF IsPrefix(l, b) THEN "cut" ELSE "miss"
        [] IsPrefix(b, l) /\ BlankRest(rest) -> IF end = "cut" THEN "cut" ELSE "open"
        [] IsPrefix(b, l) /\ rest = <<"-">> -> "cut"
        [] IsPrefix(b, l) /\ IsPrefix(<<"-", "-">>, rest) /\ BlankRest(SubSeq(rest, 3, Len(rest))) ->
             IF end = "cut" THEN "cut" ELSE "close"
        [] OTHER -> "miss"

(* The open containers of which the line is a boundary.                    *)
Levels(l, kinds) ==
  IF c.fresh THEN {} ELSE {k \in 1 .. c.nest : Match(l, c.bnds[k]) \in kinds}

(* A boundary: the text before it is fed, then the boundary itself, which  *)
(* is a line end.  The containers inside the one that it belongs to are    *)
(* closed, and that one too by its last boundary.                          *)
BoundaryLine(l) ==
  LET k    == CHOOSE j \in Levels(l, {"open", "close"}) :
                \A i \in Levels(l, {"open", "close"}) : j <= i
      last == Match(l, c.bnds[k]) = "close"
      text == DecodeSum(c, held)
  IN  /\ Levels(l, {"open", "close"}) # {}
      /\ c' = DecodersInit([text.c EXCEPT !.mp = IF last THEN "epilogue" ELSE "hdrs",
                                           !.nest = IF last THEN k - 1 ELSE k])
      /\ fed' = text.fed
      /\ held' = <<>>

(* Any other line: part of a header, or its end, or simply kept.           *)
OtherLine(l) ==
  LET inHeader == c.nest # 0 /\ c.mp = "hdrs"
      blank    == inHeader /\ l \in {<<"nl">>, <<"cr", "nl">>}
      header   == DecodeSum(c, Append(held, l))
      parsed   == IF inHeader /\ ~blank THEN HeaderLine(c, l) ELSE c
  IN  /\ Levels(l, {"open", "close", "cut"}) = {}
      /\ IF blank THEN held' = <<>> /\ fed' = header.fed ELSE held' = Append(held, l) /\ fed' = Nothing
      /\ c' = [parsed EXCEPT !.mp = IF blank THEN "text" ELSE @,
                             !.fresh = ~(HasEnd(l) /\ parsed.nest # 0)]

(* What may follow a boundary.                                             *)
Expected(l) ==
  Adjacent \/ ~c.fresh \/ c.nest = 0 \/ l = <<>> \/ l[1] \notin {"-", "ws"}

(* A whole line of the body.                                               *)
Line ==
  /\ ~over
  /\ \E l \in IF c.mp = "hdrs" THEN HeaderLines ELSE TextLines :
       /\ Expected(l) /\ line' = l
       /\ BoundaryLine(l) \/ (OtherLine(l) /\ Len(held) < MaxHeld)
  /\ UNCHANGED over

(* The end of the body, perhaps within a line; the end of a boundary that  *)
(* was cut off is lost.                                                    *)
End ==
  /\ ~over /\ over' = TRUE
  /\ \E l \in {p \in LastPieces : Expected(p)} :
       LET kept == IF l = <<>> \/ Levels(l, {"cut"}) # {} THEN held ELSE Append(held, l)
           text == DecodeSum(c, kept)
       IN  line' = l /\ c' = text.c /\ fed' = text.fed /\ held' = <<>>

Next == Line \/ End

Spec == Init /\ [][Next]_vars

-----------------------------------------------------------------------------
HeaderStates == {"idle", "field", "cews", "ctws", "html", "cskip", "cspan", "cset", "iso", "isoq", "isox",
                 "bskip", "bspan", "bnd", "value"}

(* Types, and the bounds of what is kept: open containers and the length   *)
(* of their names, which are arrays in the code (mimeBnd, ckBnd.bnd), the  *)
(* number of a charset, and a quantum of base64.                           *)
TypeOK ==
  /\ c.nest \in 0 .. BndNum
  /\ \A k \in 1 .. BndNum : Len(c.bnds[k]) < BndMax
  /\ c.mp \in {"preamble", "hdrs", "text", "epilogue"} /\ c.fresh \in BOOLEAN
  /\ c.hst \in HeaderStates /\ Len(c.name) < BndMax /\ c.quoted \in BOOLEAN /\ c.num \in 0 .. 1000
  /\ c.entity.ct \in {"text", "html", "binary"} /\ c.entity.cset \in {"8859-1", "8859-2"}
  /\ c.entity.ce \in {"ascii", "qp", "b64"}
  /\ c.qp.st \in {"idle", "eq", "one", "fail1", "fail2", "fail3"} /\ Len(c.b64) \in 0 .. 3
  /\ over \in BOOLEAN

(* The refinement mapping: an entity's header counts once it is complete.  *)
Promise == INSTANCE Entities WITH
  open   <- SubSeq(c.bnds, 1, c.nest),
  part   <- c.mp,
  entity <- IF c.mp = "hdrs" THEN PlainEntity ELSE c.entity
ImplementsEntities == Promise!Spec
=============================================================================
