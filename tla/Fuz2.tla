--------------------------------- MODULE Fuz2 ---------------------------------
(***************************************************************************)
(* The second fuzzy checksum (dcc/fuz2.go): the text is folded, split into *)
(* words, and the words of each language's dictionary are summed; tags and *)
(* comments of HTML are skipped and counted as filler.  The state is a     *)
(* record g that holds fuz2State, and the content type and charset, which  *)
(* it shares with the MIME decoder.                                        *)
(***************************************************************************)
EXTENDS CharRef, Integers, Sequences, SequencesExt

CONSTANTS
  WordMax,     \* ckWordLen, and the length of tag
  MinLen,      \* minCkWlen
  MinWords,    \* fuz2MinWords
  FewWords,    \* fuz2FewWords
  TagMax,      \* urlFailsafe, which bounds a tag
  Langs,       \* the languages, 1 being English
  Dict,        \* Dict[l]: the words of language l
  CsetOf       \* CsetOf[l]: the charset it needs, or "any"

ASSUME WordsAssumption ==
  /\ {WordMax, MinLen, MinWords, FewWords, TagMax} \subseteq Nat \ {0}
  /\ MinLen <= WordMax /\ 1 \in Langs /\ Langs \subseteq Nat

(* The English words are made of letters and need no charset (fuz2Tbls).   *)
ASSUME EnglishAssumption == CsetOf[1] = "any" /\ Dict[1] \subseteq Seq(Letters)

Csets    == {"8859-1", "8859-2"}
SkipWlen == WordMax + 1

Fresh2 ==
  [w |-> <<>>, wlen |-> 0, st |-> "word", cref |-> "idle", btotal |-> 0, xsummed |-> 0,
   tagLen |-> 0, tag |-> <<>>, wtotal |-> [l \in Langs |-> 0], wsummed |-> [l \in Langs |-> 0],
   ct |-> "text", cset |-> "8859-1"]

(* What the folding table makes of a byte.                                 *)
Folded(c) ==
  CASE c \in Letters \cup {"hi"} -> "letter"
    [] c \in {"nl", "sp", "dq", "sq", ".", ":", ";", "=", ">", "!", "nb"} -> "space"
    [] c = "<" -> "lt"
    [] OTHER -> "junk"

Junk(g) == [g EXCEPT !.wlen = SkipWlen, !.st = "word"]

(* addWord: the word counts in each language that has it, if the charset   *)
(* is the one the language needs.                                          *)
AddWord(g) ==
  LET In(l) == CsetOf[l] \in {"any", g.cset} /\ g.w \in Dict[l]
  IN  [g EXCEPT !.wtotal  = [l \in Langs |-> IF In(l) THEN @[l] + 1 ELSE @[l]],
                !.wsummed = [l \in Langs |-> IF In(l) THEN @[l] + g.wlen ELSE @[l]]]

(* Slip: a word that is too long is cut, not skipped.                      *)
WordCharCut(g, c) ==
  CASE Folded(c) = "letter" ->
         IF g.wlen < WordMax THEN [g EXCEPT !.btotal = @ + 1, !.w = Append(@, c), !.wlen = @ + 1]
         ELSE [g EXCEPT !.btotal = @ + 1]
    [] Folded(c) = "space" ->
         [(IF g.wlen \in MinLen .. WordMax THEN AddWord(g) ELSE g) EXCEPT !.w = <<>>, !.wlen = 0]
    [] Folded(c) = "lt" -> [g EXCEPT !.btotal = @ + 1, !.tagLen = 0, !.tag = <<>>, !.st = "start"]
    [] Folded(c) = "junk" -> Junk([g EXCEPT !.btotal = @ + 1])

(* Case fuz2StWord on a character.                                         *)
WordChar(g, c) ==
  CASE Folded(c) = "letter" ->
         IF g.wlen < WordMax THEN [g EXCEPT !.btotal = @ + 1, !.w = Append(@, c), !.wlen = @ + 1]
         ELSE [g EXCEPT !.btotal = @ + 1, !.wlen = SkipWlen]
    [] Folded(c) = "space" ->
         [(IF g.wlen \in MinLen .. WordMax THEN AddWord(g) ELSE g) EXCEPT !.w = <<>>, !.wlen = 0]
    [] Folded(c) = "lt" -> [g EXCEPT !.btotal = @ + 1, !.tagLen = 0, !.tag = <<>>, !.st = "start"]
    [] Folded(c) = "junk" -> Junk([g EXCEPT !.btotal = @ + 1])

TagByte(g, c) ==
  \/ c \in Letters \cup Digits /\ g.tagLen < WordMax
  \/ c \in {"/", "!"} /\ g.tagLen = 0
  \/ c = "-" /\ g.tagLen \in 1 .. 2

(* What follows the name of a tag is skipped up to ">" or TagMax.          *)
Skipped(g, c) ==
  LET filler == [g EXCEPT !.xsummed = @ + 1, !.btotal = @ + 1]
  IN  CASE c = ">" -> [filler EXCEPT !.st = "word"]
        [] c # ">" /\ Folded(c) = "space" -> g
        [] OTHER -> IF g.tagLen + 1 > TagMax THEN Junk([filler EXCEPT !.tagLen = @ + 1])
                    ELSE [filler EXCEPT !.tagLen = @ + 1]

(* Slip: the brackets of a tag are counted as filler, but not in the total. *)
StartTagOver(g, c) ==
  LET ct   == IF g.tag = <<"h", "t", "m", "l">> THEN "html" ELSE g.ct
      name == [g EXCEPT !.ct = ct, !.xsummed = @ + g.tagLen + 2]
  IN  IF TagByte(g, c)
      THEN [g |-> [g EXCEPT !.tag = Append(@, c), !.tagLen = @ + 1, !.btotal = @ + 1], again |-> FALSE]
      ELSE CASE ct = "html" /\ g.tagLen > 0 /\ c = ">" ->
                  [g |-> [name EXCEPT !.xsummed = @ + 1, !.st = "word"], again |-> FALSE]
             [] ct = "html" /\ g.tagLen > 0 /\ c # ">" ->
                  [g |-> [name EXCEPT !.st = IF IsPrefix(<<"!", "-", "-">>, g.tag)
                                             THEN "comment" ELSE "skip"], again |-> TRUE]
             [] OTHER -> [g |-> Junk([g EXCEPT !.ct = ct]), again |-> TRUE]

(* Case fuz2StStartTag.  The tag "<html" makes the rest of the entity HTML. *)
(* A byte that ends the name is read again in the state it leads to.       *)
StartTag(g, c) ==
  LET ct   == IF g.tag = <<"h", "t", "m", "l">> THEN "html" ELSE g.ct
      name == [g EXCEPT !.ct = ct, !.xsummed = @ + g.tagLen + 1]
  IN  IF TagByte(g, c)
      THEN [g |-> [g EXCEPT !.tag = Append(@, c), !.tagLen = @ + 1, !.btotal = @ + 1], again |-> FALSE]
      ELSE CASE ct = "html" /\ g.tagLen > 0 /\ c = ">" ->
                  [g |-> [name EXCEPT !.xsummed = @ + 1, !.btotal = @ + 1, !.st = "word"], again |-> FALSE]
             [] ct = "html" /\ g.tagLen > 0 /\ c # ">" ->
                  [g |-> [name EXCEPT !.st = IF IsPrefix(<<"!", "-", "-">>, g.tag)
                                             THEN "comment" ELSE "skip"], again |-> TRUE]
             [] OTHER -> [g |-> Junk([g EXCEPT !.ct = ct]), again |-> TRUE]

(* One turn of the loop of fuz2 on byte c.  References are decoded in the  *)
(* words of HTML and in all tags.                                          *)
Turn2(g, c, d) ==
  LET tag  == g.st = "skip"
      ref  == RefStep(g.cref, c, d)
      refs == g.cref # "idle" \/ (c = "&" /\ (tag \/ g.ct = "html"))
      read == IF tag THEN [g EXCEPT !.btotal = @ + 1] ELSE g
      Char(h, u) == IF tag THEN Skipped(h, u) ELSE WordChar(h, u)
  IN  CASE g.st = "start"   -> StartTag(g, c)
        [] g.st = "comment" -> [g |-> Skipped(g, c), again |-> FALSE]
        [] g.st \in {"word", "skip"} /\ ~refs -> [g |-> Char(read, c), again |-> FALSE]
        [] g.st \in {"word", "skip"} /\ refs ->
             [g |-> IF ref.done THEN Char([read EXCEPT !.cref = "idle"], ref.c)
                    ELSE [read EXCEPT !.cref = ref.st],
              again |-> ref.again]

(* The loop on byte c.  It is read at most three times: as the end of a    *)
(* reference to "<", as the end of that tag's name, and as what follows.   *)
Read2(g, c, d) ==
  LET Again(turn) == IF turn.again THEN Turn2(turn.g, c, d) ELSE turn
  IN  Again(Again(Turn2(g, c, d))).g

(* A boundary of a multipart message: decodersInit, after a line end.      *)
NextEntity(g, ct, cset) == [g EXCEPT !.ct = ct, !.cset = cset]

-----------------------------------------------------------------------------
English(g) == g.wtotal[1]

(* final: the first language with the most words.                          *)
Best(g) ==
  CHOOSE l \in Langs : /\ \A k \in Langs : g.wtotal[k] <= g.wtotal[l]
                       /\ \A k \in Langs : k < l => g.wtotal[k] < g.wtotal[l]

EnoughText(g) ==
  g.wtotal[Best(g)] >= FewWords \/ (g.wsummed[Best(g)] + g.xsummed) * 10 >= g.btotal

EnoughWords(g) == g.wtotal[Best(g)] >= MinWords

(* Too few words, but host names to stand in for them.                     *)
NamesStandIn(g, doms) ==
  EnoughText(g) /\ ~EnoughWords(g) /\ g.wtotal[Best(g)] + doms * (MinWords \div 2) >= MinWords

Valid2(g, doms) == EnoughText(g) /\ (EnoughWords(g) \/ NamesStandIn(g, doms))
=============================================================================
