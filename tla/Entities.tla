------------------------------- MODULE Entities -------------------------------
(***************************************************************************)
(* What the MIME decoder of a body promises: the body is a sequence of     *)
(* sections between the boundaries of the open containers, and a section   *)
(* that is the text of an entity reaches the fuzzy checksums decoded as    *)
(* that entity's header says, any other as a line end.                     *)
(*                                                                         *)
(* Headers and encodings are given here by what they mean, as functions of *)
(* all their lines; Mime implements them by automata.                      *)
(***************************************************************************)
EXTENDS Integers, Sequences, SequencesExt, FiniteSetsExt

CONSTANTS BndNum, BndMax, Fields, HeaderLines, TextLines, LastPieces

VARIABLES
  open,        \* the boundaries of the open containers, the outermost first
  part,        \* "preamble", "hdrs", "text" or "epilogue"
  entity,      \* what the entity is
  held,        \* the lines of the section so far
  line,        \* the last line read
  fed,         \* what becomes of the section that this line ends
  over         \* the body is used up

vars == <<open, part, entity, held, line, fed, over>>

Blank == {"ws", "nl"}
Hex   == {"1", "2", "4"}
Plain == [ct |-> "text", cset |-> "8859-1", ce |-> "ascii"]

-----------------------------------------------------------------------------
(* Headers: fields unfolded, their values and parameters.                  *)
FieldsOf(lines) ==
  FoldLeft(LAMBDA fs, l : IF l[1] = "ws" /\ fs # <<>> THEN [fs EXCEPT ![Len(fs)] = @ \o l] ELSE Append(fs, l),
           <<>>, lines)

Value(f) ==
  LET at == {i \in 2 .. Len(f) : f[i] \notin Blank}
  IN  IF at = {} THEN <<"nl">> ELSE SubSeq(f, Min(at), Len(f))

(* What follows the first parameter of that name.                          *)
Param(f, name) ==
  LET at == {i \in 2 .. Len(f) : f[i] = name /\ f[i - 1] \in Blank \cup {";"}}
  IN  IF at = {} THEN <<>> ELSE SubSeq(f, Min(at) + 1, Len(f))

Unquoted(p) == SelectSeq(p, LAMBDA t : t # "dq")

Charset(f, default) ==
  LET p == Unquoted(Param(f, "charset="))
  IN  IF Len(p) < 3 \/ p[1] # "iso-8859-" THEN default
      ELSE IF p[2] = "2" /\ p[3] \in Blank \cup {";"} THEN "8859-2" ELSE "8859-1"

(* The boundary that a field declares, or none.                            *)
Boundaries(f) ==
  LET p    == Param(f, "boundary=")
      InQuotes(i) == Cardinality({j \in 1 .. i - 1 : p[j] = "dq"}) % 2 = 1
      ends == {i \in DOMAIN p : p[i] = "nl" \/ (p[i] \in {"ws", ";"} /\ ~InQuotes(i))}
      name == Unquoted(SubSeq(p, 1, Min(ends) - 1))
  IN  IF f[1] = "ct" /\ Value(f)[1] = "multipart" /\ ends # {} THEN SelectSeq(<<name>>, LAMBDA n : Len(n) < BndMax)
      ELSE <<>>

AllBoundaries(lines) ==
  FoldLeft(LAMBDA bs, f : bs \o Boundaries(f), <<>>, FieldsOf(lines))

(* What a field says of the entity e.                                      *)
Says(e, f) ==
  LET v == Value(f)
  IN  CASE f[1] = "cte" /\ v[1] \in {"qp", "b64"} -> [e EXCEPT !.ce = v[1]]
        [] f[1] = "ct" /\ v[1] = "text" ->
             [e EXCEPT !.ct = IF v[2] = "/html" THEN "html" ELSE "text", !.cset = Charset(f, @)]
        [] f[1] = "ct" /\ v[1] \notin {"text", "multipart", "message", "nl"} -> [e EXCEPT !.ct = "binary"]
        [] OTHER -> e

Meaning(lines) == FoldLeft(Says, Plain, FieldsOf(lines))

-----------------------------------------------------------------------------
(* Quoted-printable: an escape that is none stands for itself.             *)
RECURSIVE Quoted(_)
Quoted(t) ==
  LET Lit(n) == [i \in 1 .. Min({n, Len(t)}) |-> <<t[i]>>]
      From(n) == Quoted(SubSeq(t, n, Len(t)))
      Is(i, set) == Len(t) >= i /\ t[i] \in set
  IN  CASE t = <<>> -> <<>>
        [] t # <<>> /\ t[1] # "=" -> Lit(1) \o From(2)
        [] Is(1, {"="}) /\ Is(2, {"nl"}) -> From(3)
        [] Is(1, {"="}) /\ Is(2, {"cr"}) /\ Is(3, {"nl"}) -> From(4)
        [] Is(1, {"="}) /\ Is(2, Hex) /\ Is(3, Hex) -> <<<<"qp", t[2], t[3]>>>> \o From(4)
        [] Is(1, {"="}) /\ Is(2, Hex \cup {"cr"}) -> Lit(3) \o From(4)
        [] OTHER -> Lit(2) \o From(3)

(* Base64, up to the first padding; a quantum that is neither complete nor *)
(* padded stands for nothing.                                              *)
RECURSIVE Quanta(_, _)
Quanta(s, padded) ==
  LET bytes == <<<<"b1", s[1], s[2]>>, <<"b2", s[2], s[3]>>, <<"b3", s[3], s[4]>>>>
  IN  CASE Len(s) >= 4 -> bytes \o Quanta(SubSeq(s, 5, Len(s)), padded)
        [] Len(s) = 3 /\ padded -> <<<<"b1", s[1], s[2]>>, <<"b2", s[2], s[3]>>>>
        [] Len(s) = 2 /\ padded -> <<<<"b1", s[1], s[2]>>>>
        [] OTHER -> <<>>

Base64(t) ==
  LET pads   == {i \in DOMAIN t : t[i] = "="}
      before == IF pads = {} THEN t ELSE SubSeq(t, 1, Min(pads) - 1)
  IN  Quanta(SelectSeq(before, LAMBDA x : x \in Hex \cup {"x"}), pads # {})

(* Is out the text t decoded?  Of quoted-printable text the last two bytes *)
(* may be missing when it ends in a false escape; what follows padding is  *)
(* not said.                                                               *)
Decoded(ce, t, out) ==
  CASE ce = "ascii" -> out = [i \in DOMAIN t |-> <<t[i]>>]
    [] ce = "qp"    -> IsPrefix(out, Quoted(t)) /\ Len(Quoted(t)) - Len(out) <= 2
    [] ce = "b64"   -> IF "=" \in ToSet(t) THEN IsPrefix(Base64(t), out) ELSE out = Base64(t)

-----------------------------------------------------------------------------
IsBoundary(l, name, last) ==
  \E n \in 0 .. Len(l) :
    l = <<"-", "-">> \o name \o (IF last THEN <<"-", "-">> ELSE <<>>) \o [i \in 1 .. n |-> "ws"] \o <<"nl">>

Levels(l) == {k \in DOMAIN open : \E last \in BOOLEAN : IsBoundary(l, open[k], last)}

(* A piece that has no line end and is a boundary's beginning.             *)
IsCut(l) ==
  \E k \in DOMAIN open, n \in 0 .. Len(l), last \in BOOLEAN :
    IsPrefix(l, <<"-", "-">> \o open[k] \o (IF last THEN <<"-", "-">> ELSE <<>>) \o [i \in 1 .. n |-> "ws"])

(* What becomes of the section that consists of these lines.               *)
Feed(lines) ==
  LET t == FlattenSeq(lines)
  IN  CASE t = <<>> -> fed'.out = <<>>
        [] t # <<>> /\ part = "text" -> Decoded(entity.ce, t, fed'.out) /\ fed'.entity = entity
        [] OTHER -> fed'.out = <<<<"nl">>>>

Delimiter(l) ==
  /\ Levels(l) # {}
  /\ LET k    == Min(Levels(l))
         last == IsBoundary(l, open[k], TRUE)
     IN  /\ open' = SubSeq(open, 1, IF last THEN k - 1 ELSE k)
         /\ part' = IF last THEN "epilogue" ELSE "hdrs"
  /\ Feed(held) /\ held' = <<>> /\ entity' = Plain

(* A field may open a container, unless there are too many.                *)
Header(l) ==
  /\ Levels(l) = {} /\ part = "hdrs" /\ open # <<>> /\ l # <<"nl">>
  /\ held' = Append(held, l)
  /\ LET new == SubSeq(AllBoundaries(held'), Len(AllBoundaries(held)) + 1, Len(AllBoundaries(held')))
     IN  open' = IF Len(open) < BndNum THEN open \o new ELSE open
  /\ Feed(<<>>) /\ UNCHANGED <<part, entity>>

HeaderEnd(l) ==
  /\ part = "hdrs" /\ open # <<>> /\ l = <<"nl">>
  /\ entity' = Meaning(held) /\ part' = "text"
  /\ Feed(Append(held, l)) /\ held' = <<>>
  /\ UNCHANGED open

Other(l) ==
  /\ Levels(l) = {} /\ (part # "hdrs" \/ open = <<>>)
  /\ held' = Append(held, l)
  /\ Feed(<<>>) /\ UNCHANGED <<open, part, entity>>

End ==
  /\ ~over /\ over' = TRUE
  /\ \E l \in LastPieces :
       line' = l /\ Feed(IF l = <<>> \/ IsCut(l) THEN held ELSE Append(held, l))
  /\ held' = <<>>
  /\ UNCHANGED <<open, part, entity>>

Init ==
  /\ \E h \in Fields :
       /\ open = IF AllBoundaries(h) = <<>> THEN <<>> ELSE <<Last(AllBoundaries(h))>>
       /\ entity = Meaning(h)
       /\ part = IF open = <<>> THEN "text" ELSE "preamble"
  /\ held = <<>> /\ line = <<>> /\ over = FALSE /\ fed.out = <<>>

Next ==
  \/ \E l \in HeaderLines \cup TextLines :
       /\ ~over /\ UNCHANGED over /\ line' = l
       /\ Delimiter(l) \/ Header(l) \/ HeaderEnd(l) \/ Other(l)
  \/ End

Spec == Init /\ [][Next]_vars
=============================================================================
