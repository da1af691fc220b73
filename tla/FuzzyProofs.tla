----------------------------- MODULE FuzzyProofs -----------------------------
(***************************************************************************)
(* Theorems about the two fuzzy checksums, for any sizes of the buffers,   *)
(* lengths of words and tags, languages, dictionaries, alphabets and       *)
(* bodies.                                                                 *)
(*                                                                         *)
(* Of the second: it never counts more bytes as words and filler than it   *)
(* has read (Counted).                                                     *)
(*                                                                         *)
(* Of the first: no index into its buffers leaves them, and only letters   *)
(* are summed (BufferInv).  The invariant has three parts: DomInv, the     *)
(* host names and the one that is being read, which needs nothing of the   *)
(* rest; Mid, the line buffer and the offsets of the host into it, which   *)
(* also holds in the middle of a byte; and Begun, which keeps the end of a *)
(* chunk from emptying the buffer under a host that is being read: the     *)
(* last line end lies before the host, because a letter of its "http" was  *)
(* collected in between.  That letter is missing if the whole of "http"    *)
(* may be written as character references, hence SchemeHasLetter; and a    *)
(* line end right after "&" does not end the host, hence ~NlInRef.         *)
(*                                                                         *)
(* Of both: where host names stand in for words, there is a host name      *)
(* (NamesInv).                                                             *)
(***************************************************************************)
EXTENDS Fuzzy, Least

Fields2 == {"w", "wlen", "st", "cref", "btotal", "xsummed", "tagLen", "tag", "wtotal", "wsummed", "ct", "cset"}

(* The part of the state that counts bytes.                                *)
CountTypes2(s) ==
  /\ DOMAIN s = Fields2
  /\ s.st \in {"word", "start", "skip", "comment"}
  /\ s.wlen \in Nat /\ s.btotal \in Nat /\ s.xsummed \in Nat /\ s.tagLen \in Nat
  /\ DOMAIN s.wsummed = Langs /\ \A l \in Langs : s.wsummed[l] \in Nat
  /\ DOMAIN s.wtotal = Langs /\ \A l \in Langs : s.wtotal[l] \in Nat

(* Bytes that were read and may yet be counted: those of a word that is    *)
(* not too long, and those of a tag's name with its "<".                   *)
OpenWord(s) == IF s.wlen <= WordMax THEN s.wlen ELSE 0
OpenTag(s)  == IF s.st = "start" THEN s.tagLen + 1 ELSE 0

Counted(s) ==
  /\ CountTypes2(s)
  /\ \A l \in Langs : s.wtotal[l] <= s.wsummed[l]
  /\ \A l \in Langs : s.wsummed[l] + s.xsummed + OpenWord(s) + OpenTag(s) <= s.btotal

(* The count of words never falls.                                         *)
Grown(s, r) == \A l \in Langs : s.wtotal[l] <= r.wtotal[l]
Counting(s, r) == Counted(r) /\ Grown(s, r)

-----------------------------------------------------------------------------
LEMMA WordCounted ==
  ASSUME NEW s, NEW c, Counted(s), s.st = "word" PROVE Counting(s, WordChar(s, c))
<1>0. Folded(c) \in {"letter", "space", "lt", "junk"}
  BY DEF Folded
<1> USE WordsAssumption DEF Counting, Grown, Counted, CountTypes2, Fields2, OpenWord, OpenTag
<1>1. CASE Folded(c) = "letter"
  BY <1>1 DEF WordChar, SkipWlen
<1>2. CASE Folded(c) = "space"
  <2> DEFINE In(l) == CsetOf[l] \in {"any", s.cset} /\ s.w \in Dict[l]
             added == IF s.wlen \in MinLen .. WordMax THEN AddWord(s) ELSE s
  <2>1. /\ DOMAIN added = Fields2 /\ added.st = s.st /\ added.btotal = s.btotal
        /\ added.xsummed = s.xsummed /\ added.tagLen = s.tagLen
    BY DEF AddWord
  <2>2. /\ DOMAIN added.wsummed = Langs /\ DOMAIN added.wtotal = Langs
        /\ \A l \in Langs :
             \/ added.wtotal[l] = s.wtotal[l] /\ added.wsummed[l] = s.wsummed[l]
             \/ /\ added.wtotal[l] = s.wtotal[l] + 1 /\ added.wsummed[l] = s.wsummed[l] + s.wlen
                /\ 1 <= s.wlen /\ s.wlen <= WordMax
    BY DEF AddWord
  <2>3. WordChar(s, c) = [added EXCEPT !.w = <<>>, !.wlen = 0]
    BY <1>2 DEF WordChar
  <2> HIDE DEF added
  <2>4. /\ DOMAIN WordChar(s, c) = Fields2 /\ WordChar(s, c).wlen = 0
        /\ WordChar(s, c).wsummed = added.wsummed /\ WordChar(s, c).wtotal = added.wtotal
        /\ WordChar(s, c).st = s.st /\ WordChar(s, c).btotal = s.btotal
        /\ WordChar(s, c).xsummed = s.xsummed /\ WordChar(s, c).tagLen = s.tagLen
    BY <2>1, <2>3
  <2> QED BY <2>2, <2>4
<1>3. CASE Folded(c) = "lt"
  <2> DEFINE r == [s EXCEPT !.btotal = @ + 1, !.tagLen = 0, !.tag = <<>>, !.st = "start"]
  <2>1. WordChar(s, c) = r
    BY <1>3 DEF WordChar
  <2>2. Counting(s, r)
    OBVIOUS
  <2> QED BY <2>1, <2>2
<1>4. CASE Folded(c) = "junk"
  <2> DEFINE r == [s EXCEPT !.btotal = @ + 1, !.wlen = WordMax + 1, !.st = "word"]
  <2>1. WordChar(s, c) = r
    BY <1>4 DEF WordChar, Junk, SkipWlen
  <2>2. Counting(s, r)
    OBVIOUS
  <2> QED BY <2>1, <2>2
<1> QED BY <1>0, <1>1, <1>2, <1>3, <1>4

(* Filler is counted on both sides.                                        *)
LEMMA SkippedCounted ==
  ASSUME NEW s, NEW c, Counted(s), s.st \in {"skip", "comment"} PROVE Counting(s, Skipped(s, c))
<1> USE WordsAssumption DEF Counting, Grown, Counted, CountTypes2, Fields2, OpenWord, OpenTag
<1>1. CASE c = ">"
  <2> DEFINE r == [s EXCEPT !.xsummed = @ + 1, !.btotal = @ + 1, !.st = "word"]
  <2>1. Skipped(s, c) = r
    BY <1>1 DEF Skipped
  <2>2. Counting(s, r)
    OBVIOUS
  <2> QED BY <2>1, <2>2
<1>2. CASE c # ">" /\ Folded(c) = "space"
  BY <1>2 DEF Skipped
<1>3. CASE c # ">" /\ Folded(c) # "space"
  BY <1>3 DEF Skipped, Junk, SkipWlen
<1> QED BY <1>1, <1>2, <1>3

(* The name of a tag becomes filler, or is forgotten.                      *)
LEMMA TagCounted ==
  ASSUME NEW s, NEW c, Counted(s), s.st = "start" PROVE Counting(s, StartTag(s, c).g)
<1> USE WordsAssumption DEF Counting, Grown, Counted, CountTypes2, Fields2, OpenWord, OpenTag
<1>1. CASE TagByte(s, c)
  <2> DEFINE r == [s EXCEPT !.tag = Append(@, c), !.tagLen = @ + 1, !.btotal = @ + 1]
  <2>1. StartTag(s, c).g = r
    BY <1>1 DEF StartTag
  <2>2. Counting(s, r)
    OBVIOUS
  <2> QED BY <2>1, <2>2
<1>2. CASE ~TagByte(s, c)
  BY <1>2 DEF StartTag, Junk, SkipWlen
<1> QED BY <1>1, <1>2

LEMMA TurnCounted ==
  ASSUME NEW s, NEW c, NEW d, Counted(s) PROVE Counting(s, Turn2(s, c, d).g)
<1>1. CASE s.st = "start"
  BY <1>1, TagCounted DEF Turn2
<1>2. CASE s.st = "comment"
  BY <1>2, SkippedCounted DEF Turn2
<1>3. ASSUME NEW x PROVE LET r == [s EXCEPT !.cref = x] IN Counting(s, r) /\ r.st = s.st /\ r.wtotal = s.wtotal
  BY DEF Counting, Grown, Counted, CountTypes2, Fields2, OpenWord, OpenTag
<1>4. CASE s.st = "word"
  BY <1>3, <1>4, WordCounted DEF Turn2, Counting, Grown
<1>5. CASE s.st = "skip"
  <2> DEFINE taken == [s EXCEPT !.btotal = @ + 1]
  <2>1. Counting(s, taken) /\ taken.st = "skip" /\ taken.wtotal = s.wtotal
    BY <1>5 DEF Counting, Grown, Counted, CountTypes2, Fields2, OpenWord, OpenTag
  <2>2. ASSUME NEW x PROVE LET r == [taken EXCEPT !.cref = x] IN Counting(s, r) /\ r.st = "skip" /\ r.wtotal = s.wtotal
    BY <2>1 DEF Counting, Grown, Counted, CountTypes2, Fields2, OpenWord, OpenTag
  <2> QED BY <1>5, <2>1, <2>2, SkippedCounted DEF Turn2, Counting, Grown
<1> QED BY <1>1, <1>2, <1>4, <1>5 DEF Counted, CountTypes2

LEMMA ReadCounted ==
  ASSUME NEW s, NEW c, NEW d, Counted(s) PROVE Counting(s, Read2(s, c, d))
BY TurnCounted DEF Read2, Counting, Grown, Counted, CountTypes2

LEMMA EntityCounted ==
  ASSUME NEW s, NEW x, NEW y, Counted(s) PROVE Counting(s, NextEntity(s, x, y))
BY DEF NextEntity, Counting, Grown, Counted, CountTypes2, Fields2, OpenWord, OpenTag

-----------------------------------------------------------------------------
LEMMA InitCounted == Init => Counted(g)
<1>1. Counted(Fresh2)
  BY WordsAssumption DEF Fresh2, Counted, CountTypes2, Fields2, OpenWord, OpenTag
<1> QED BY <1>1, EntityCounted DEF Init, Counting

LEMMA NextCounted == Counted(g) /\ [Next]_vars => Counted(g)'
<1> SUFFICES ASSUME Counted(g), [Next]_vars PROVE Counted(g')
  BY DEF Counted, CountTypes2, OpenWord, OpenTag
<1>1. CASE Byte
  BY <1>1, ReadCounted DEF Byte, Counting
<1>2. CASE Chunk \/ UNCHANGED vars
  BY <1>2 DEF Chunk, vars
<1>3. CASE Boundary
  BY <1>3, ReadCounted, EntityCounted DEF Boundary, Counting
<1>4. CASE Finish
  BY <1>4, ReadCounted DEF Finish, Counting
<1> QED BY <1>1, <1>2, <1>3, <1>4 DEF Next

(* Words and filler never exceed the text they were found in, so that      *)
(* final's share of them is a share (fuz2).                                *)
THEOREM WordsAndFillerAreText == Spec => []CountsAddUp
<1>1. Counted(g) => CountsAddUp
  BY WordsAssumption DEF Counted, CountTypes2, OpenWord, OpenTag, CountsAddUp
<1> QED BY InitCounted, NextCounted, <1>1, PTL DEF Spec

-----------------------------------------------------------------------------
(* The host names in domsBuf: where each of them ends.                     *)

LEMMA Sizes == HostMaxSave \in Nat /\ HostMaxSave = 1 + HostMax /\ DomsSize = HostMaxSave + HostMaxSave /\ HostMax \in Nat \ {0}
BY SizesAssumption DEF HostMaxSave, DomsSize

(* A host name takes a byte and a NUL at least, HostMaxSave bytes at most. *)
Apart(ends) ==
  /\ ends \in Seq(Nat)
  /\ \A k \in 1 .. Len(ends) : NameEnd(ends, k) <= NameEnd(ends, k - 1) + HostMaxSave
  /\ \A j, k \in 0 .. Len(ends) : j < k => NameEnd(ends, j) + 2 <= NameEnd(ends, k)

LEMMA NameEndType ==
  ASSUME NEW ends \in Seq(Nat), NEW k \in 0 .. Len(ends) PROVE NameEnd(ends, k) \in Nat
BY DEF NameEnd

LEMMA IsSequence == ASSUME NEW m \in Nat, NEW S, NEW q \in [1 .. m -> S] PROVE q \in Seq(S) /\ Len(q) = m
OBVIOUS

(* The names that stay when the oldest leave domsBuf.                      *)
LEMMA NamesKept ==
  ASSUME NEW ends, Apart(ends), NEW drop \in 0 .. Len(ends),
         NEW kept, kept = [k \in 1 .. Len(ends) - drop |-> ends[drop + k] - NameEnd(ends, drop)]
  PROVE  /\ Apart(kept) /\ Len(kept) = Len(ends) - drop
         /\ NameEnd(kept, Len(kept)) = NameEnd(ends, Len(ends)) - NameEnd(ends, drop)
<1>1. PICK n \in Nat : n = Len(ends)
  BY DEF Apart
<1>2. drop \in 0 .. n
  BY <1>1
<1>3. \A k \in 0 .. n : NameEnd(ends, k) \in Nat
  BY <1>1, NameEndType DEF Apart
<1>4. \A k \in 1 .. n - drop : kept[k] = NameEnd(ends, drop + k) - NameEnd(ends, drop) /\ kept[k] \in Nat
  <2> TAKE k \in 1 .. n - drop
  <2>1. drop + k \in 1 .. n /\ drop < drop + k
    BY <1>2
  <2>2. kept[k] = NameEnd(ends, drop + k) - NameEnd(ends, drop)
    BY <1>1, <2>1, <1>2 DEF NameEnd
  <2>3. NameEnd(ends, drop) + 2 <= NameEnd(ends, drop + k)
    BY <1>1, <1>2, <2>1 DEF Apart
  <2> QED BY <1>2, <1>3, <2>1, <2>2, <2>3
<1>5. PICK m \in Nat : m = n - drop
  BY <1>2
<1>6. kept \in Seq(Nat) /\ Len(kept) = m
  <2>1. kept \in [1 .. m -> Nat]
    BY <1>1, <1>4, <1>5
  <2> QED BY <1>5, <2>1, IsSequence
<1>7. \A k \in 0 .. m : NameEnd(kept, k) = NameEnd(ends, drop + k) - NameEnd(ends, drop)
  <2> TAKE k \in 0 .. m
  <2>1. CASE k = 0
    <3>1. NameEnd(kept, 0) = 0 /\ drop + 0 = drop /\ NameEnd(ends, drop) \in Nat
      BY <1>2, <1>3 DEF NameEnd
    <3> QED BY <2>1, <3>1
  <2>2. CASE k \in 1 .. m
    BY <1>4, <1>5, <2>2 DEF NameEnd
  <2> QED BY <2>1, <2>2
<1>8. ASSUME NEW k \in 1 .. m PROVE NameEnd(kept, k) <= NameEnd(kept, k - 1) + HostMaxSave
  <2>1. drop + k \in 1 .. n /\ k \in 0 .. m /\ k - 1 \in 0 .. m /\ drop + (k - 1) = (drop + k) - 1
        /\ drop + k - 1 \in 0 .. n /\ drop + k \in 0 .. n
    BY <1>2, <1>5
  <2>2. NameEnd(ends, drop + k) <= NameEnd(ends, drop + k - 1) + HostMaxSave
    BY <1>1, <2>1 DEF Apart
  <2>3. /\ NameEnd(kept, k) = NameEnd(ends, drop + k) - NameEnd(ends, drop)
        /\ NameEnd(kept, k - 1) = NameEnd(ends, drop + k - 1) - NameEnd(ends, drop)
    BY <1>7, <2>1
  <2>4. NameEnd(ends, drop + k) \in Nat /\ NameEnd(ends, drop + k - 1) \in Nat /\ NameEnd(ends, drop) \in Nat
    BY <1>2, <1>3, <2>1
  <2> QED BY <2>2, <2>3, <2>4, Sizes
<1>9. ASSUME NEW j \in 0 .. m, NEW k \in 0 .. m, j < k PROVE NameEnd(kept, j) + 2 <= NameEnd(kept, k)
  <2>1. drop + k \in 0 .. n /\ drop + j \in 0 .. n /\ drop + j < drop + k
    BY <1>2, <1>5, <1>9
  <2>2. NameEnd(ends, drop + j) + 2 <= NameEnd(ends, drop + k)
    BY <1>1, <2>1 DEF Apart
  <2>3. /\ NameEnd(kept, k) = NameEnd(ends, drop + k) - NameEnd(ends, drop)
        /\ NameEnd(kept, j) = NameEnd(ends, drop + j) - NameEnd(ends, drop)
    BY <1>7
  <2>4. NameEnd(ends, drop + k) \in Nat /\ NameEnd(ends, drop + j) \in Nat /\ NameEnd(ends, drop) \in Nat
    BY <1>2, <1>3, <2>1
  <2> QED BY <2>2, <2>3, <2>4
<1>10. NameEnd(kept, m) = NameEnd(ends, n) - NameEnd(ends, drop)
  <2>1. m \in 0 .. m /\ drop + m = n
    BY <1>2, <1>5
  <2> QED BY <1>7, <2>1
<1> QED BY <1>1, <1>5, <1>6, <1>8, <1>9, <1>10 DEF Apart

(* A name is added behind the last.                                        *)
LEMMA NameAdded ==
  ASSUME NEW ends, Apart(ends), NEW last, last = NameEnd(ends, Len(ends)),
         NEW e \in Nat, last + 2 <= e, e <= last + HostMaxSave
  PROVE  LET more == Append(ends, e) IN Apart(more) /\ NameEnd(more, Len(more)) = e /\ more # <<>>
<1> DEFINE more == Append(ends, e)
<1>1. PICK n \in Nat : n = Len(ends)
  BY DEF Apart
<1>2. more \in Seq(Nat) /\ Len(more) = n + 1 /\ more[n + 1] = e /\ \A k \in 1 .. n : more[k] = ends[k]
  BY <1>1 DEF Apart
<1> HIDE DEF more
<1>3. \A k \in 0 .. n : NameEnd(more, k) = NameEnd(ends, k) /\ NameEnd(ends, k) \in Nat
  BY <1>1, <1>2, NameEndType DEF NameEnd, Apart
<1>4. NameEnd(more, n + 1) = e /\ NameEnd(ends, n) = last
  BY <1>1, <1>2 DEF NameEnd
<1>5. ASSUME NEW k \in 0 .. n PROVE NameEnd(ends, k) <= last
  <2>1. k < n => NameEnd(ends, k) + 2 <= last
    BY <1>1, <1>4 DEF Apart
  <2> QED BY <1>3, <1>4, <2>1
<1>6. ASSUME NEW k \in 1 .. n + 1 PROVE NameEnd(more, k) <= NameEnd(more, k - 1) + HostMaxSave
  <2>1. CASE k = n + 1
    BY <1>3, <1>4, <2>1
  <2>2. CASE k \in 1 .. n
    <3>1. NameEnd(ends, k) <= NameEnd(ends, k - 1) + HostMaxSave
      BY <1>1, <2>2 DEF Apart
    <3> QED BY <1>3, <2>2, <3>1
  <2> QED BY <2>1, <2>2
<1>7. ASSUME NEW j \in 0 .. n + 1, NEW k \in 0 .. n + 1, j < k PROVE NameEnd(more, j) + 2 <= NameEnd(more, k)
  <2>1. CASE k = n + 1
    BY <1>3, <1>4, <1>5, <1>7, <2>1
  <2>2. CASE k \in 0 .. n
    <3>1. NameEnd(ends, j) + 2 <= NameEnd(ends, k)
      BY <1>1, <1>7, <2>2 DEF Apart
    <3> QED BY <1>3, <1>7, <2>2, <3>1
  <2> QED BY <2>1, <2>2
<1> QED BY <1>2, <1>4, <1>6, <1>7 DEF Apart, more

-----------------------------------------------------------------------------
(* The fields of Fuz1, and what leaves the host names alone.               *)

Fields1 == {"buf", "cp", "eol", "total", "dirty", "panic", "cref", "st", "start", "tld", "sld", "urlTotal",
            "ends", "domEnd", "labelStart", "punct", "dot1", "dot2", "doms", "flags"}

(* The labels of the host that is being read.                              *)
Host(s) ==
  /\ s.domEnd <= DomStart(s) + HostMax
  /\ s.dot1 # 0 => DomStart(s) < s.dot1 /\ s.dot1 <= s.domEnd
  /\ s.dot2 # 0 => DomStart(s) < s.dot2 /\ s.dot2 < s.dot1
  /\ s.punct # 0 => s.dot1 <= s.punct /\ DomStart(s) <= s.punct /\ s.punct <= s.domEnd
  /\ s.labelStart \in DomStart(s) .. s.domEnd

UrlStates == SchemeStates \cup {"slash3start", "slash3", "skip"}

DomTypes(s) ==
  /\ DOMAIN s = Fields1 /\ s.st \in UrlStates /\ s.cref \in RefStates
  /\ Apart(s.ends) /\ s.domEnd \in Nat /\ s.labelStart \in Nat
  /\ s.punct \in Nat /\ s.dot1 \in Nat /\ s.dot2 \in Nat /\ s.doms \in Nat

(* The host names, and the one that is being read: it fits behind them.    *)
DomInv(s) ==
  /\ DomTypes(s)
  /\ DomStart(s) <= s.domEnd /\ s.domEnd <= DomsSize
  /\ "long" \in s.flags => s.st = "idle"
  /\ InHost(s.st) => DomStart(s) <= HostMaxSave
  /\ s.st = "slash3" => Host(s)

LEMMA States == SchemeStates = {"idle", "quote", "qh", "t1", "t2", "p", "s", "colon", "slash1", "slash2"}
BY DEF SchemeStates, Scheme

LEMMA DomStartType == ASSUME NEW s, Apart(s.ends) PROVE DomStart(s) \in Nat
BY NameEndType DEF DomStart, Apart

(* Making room in domsBuf leaves space for a name, and a name if there was *)
(* one, unless there are words enough.                                     *)
LEMMA RoomForName ==
  ASSUME NEW s, NEW words \in BOOLEAN, DomTypes(s)
  PROVE  LET r == MakeRoomForName(s, words) IN
         /\ DOMAIN r = Fields1 /\ \A x \in Fields1 \ {"ends"} : r[x] = s[x]
         /\ Apart(r.ends) /\ DomStart(r) <= HostMaxSave /\ DomStart(r) <= DomStart(s)
         /\ s.ends # <<>> => r.ends # <<>> \/ words
<1> DEFINE n    == Len(s.ends)
           fits == {k \in 0 .. n : DomStart(s) - NameEnd(s.ends, k) <= DomsSize - HostMaxSave}
           drop == CHOOSE k \in fits : \A j \in fits : k <= j
           kept == [k \in 1 .. n - drop |-> s.ends[drop + k] - NameEnd(s.ends, drop)]
           r    == MakeRoomForName(s, words)
<1>1. n \in Nat /\ DomStart(s) = NameEnd(s.ends, n) /\ Apart(s.ends) /\ DomStart(s) \in Nat
  BY DomStartType DEF DomTypes, Apart, DomStart
<1>2. n \in fits /\ (n # 0 => n - 1 \in fits)
  <2>1. n \in 0 .. n /\ NameEnd(s.ends, n) - NameEnd(s.ends, n) <= DomsSize - HostMaxSave
    BY <1>1, Sizes
  <2>2. ASSUME n # 0 PROVE n - 1 \in 0 .. n /\ NameEnd(s.ends, n) - NameEnd(s.ends, n - 1) <= DomsSize - HostMaxSave
    <3>1. n - 1 \in 0 .. n /\ n \in 1 .. n
      BY <1>1, <2>2
    <3>2. NameEnd(s.ends, n - 1) \in Nat
      BY <1>1, <3>1, NameEndType DEF Apart
    <3>3. NameEnd(s.ends, n) <= NameEnd(s.ends, n - 1) + HostMaxSave
      BY <1>1, <3>1 DEF Apart
    <3> QED BY <1>1, <3>1, <3>2, <3>3, Sizes
  <2> QED BY <1>1, <2>1, <2>2
<1>3. drop \in fits /\ \A j \in fits : drop <= j
  <2>1. fits \in SUBSET Nat /\ fits # {}
    BY <1>2
  <2> HIDE DEF fits
  <2>2. \E k \in fits : \A j \in fits : k <= j
    BY <2>1, LeastNat
  <2> QED BY <2>2
<1>4. drop \in 0 .. n /\ (n # 0 => drop < n) /\ NameEnd(s.ends, n) - NameEnd(s.ends, drop) <= DomsSize - HostMaxSave
  <2>1. drop \in 0 .. n /\ NameEnd(s.ends, n) - NameEnd(s.ends, drop) <= DomsSize - HostMaxSave
    BY <1>1, <1>3
  <2>2. n # 0 => drop <= n - 1
    BY <1>2, <1>3
  <2> QED BY <1>1, <2>1, <2>2
<1>5. r = [s EXCEPT !.ends = IF words THEN <<>> ELSE kept]
  BY DEF MakeRoomForName
<1> HIDE DEF r, fits, drop
<1>6. Apart(kept) /\ Len(kept) = n - drop /\ NameEnd(kept, Len(kept)) = NameEnd(s.ends, n) - NameEnd(s.ends, drop)
  BY <1>1, <1>4, NamesKept
<1>7. NameEnd(s.ends, drop) \in Nat
  BY <1>1, <1>4, NameEndType DEF Apart
<1>8. NameEnd(<<>>, Len(<<>>)) = 0 /\ Apart(<<>>)
  BY DEF NameEnd, Apart
<1> HIDE DEF kept
<1>9. DOMAIN r = Fields1 /\ (\A x \in Fields1 \ {"ends"} : r[x] = s[x]) /\ r.ends = IF words THEN <<>> ELSE kept
  BY <1>5 DEF DomTypes, Fields1
<1>10. CASE words
  <2>1. DomStart(r) = 0
    BY <1>8, <1>9, <1>10 DEF DomStart
  <2>2. Apart(r.ends) /\ DomStart(r) <= HostMaxSave /\ DomStart(r) <= DomStart(s)
    BY <1>1, <1>8, <1>9, <1>10, <2>1, Sizes
  <2> QED BY <1>9, <1>10, <2>2 DEF r
<1>11. CASE ~words
  <2>1. DomStart(r) = DomStart(s) - NameEnd(s.ends, drop)
    BY <1>1, <1>6, <1>9, <1>11 DEF DomStart
  <2>2. DomStart(r) <= HostMaxSave /\ DomStart(r) <= DomStart(s)
    BY <1>1, <1>4, <1>7, <2>1, Sizes
  <2>3. s.ends # <<>> => r.ends # <<>>
    <3>1. s.ends # <<>> => n # 0
      BY <1>1 DEF Apart
    <3>2. n # 0 => Len(kept) # 0
      BY <1>1, <1>4, <1>6
    <3> QED BY <1>9, <1>11, <3>1, <3>2
  <2> QED BY <1>6, <1>9, <1>11, <2>2, <2>3 DEF r
<1> QED BY <1>10, <1>11

(* What leaves the host names alone.                                       *)
SameDoms(s, t) ==
  /\ t.ends = s.ends /\ t.domEnd = s.domEnd /\ t.labelStart = s.labelStart /\ t.punct = s.punct
  /\ t.dot1 = s.dot1 /\ t.dot2 = s.dot2 /\ t.doms = s.doms /\ t.flags = s.flags

LEMMA DomFrame ==
  ASSUME NEW s, NEW t, DomInv(s), DOMAIN t = Fields1, SameDoms(s, t), t.st \in {s.st, "idle"}, t.cref \in RefStates
  PROVE  DomInv(t)
BY States DEF DomInv, DomTypes, SameDoms, Host, DomStart, InHost, UrlStates

LEMMA FrameSum ==
  ASSUME NEW s, NEW n, DOMAIN s = Fields1
  PROVE  /\ DOMAIN AddSum(s, n) = Fields1
         /\ \A x \in Fields1 \ {"total", "dirty"} : AddSum(s, n)[x] = s[x]
BY DEF AddSum, Fields1

LEMMA FrameFlush ==
  ASSUME NEW s, DOMAIN s = Fields1
  PROVE  /\ DOMAIN Flush(s) = Fields1
         /\ \A x \in Fields1 \ {"total", "dirty", "cp", "eol", "buf"} : Flush(s)[x] = s[x]
         /\ Flush(s).cp = 0 /\ Flush(s).eol = -1 /\ Flush(s).buf = Empty
         /\ Flush(s).total = AddSum(s, s.cp).total /\ Flush(s).dirty = AddSum(s, s.cp).dirty
<1> DEFINE sum == AddSum(s, s.cp)
<1>1. DOMAIN sum = Fields1 /\ \A x \in Fields1 \ {"total", "dirty"} : sum[x] = s[x]
  BY FrameSum
<1>2. Flush(s) = [sum EXCEPT !.cp = 0, !.eol = -1, !.buf = Empty]
  BY DEF Flush
<1> HIDE DEF sum
<1>3. /\ DOMAIN Flush(s) = Fields1
      /\ \A x \in Fields1 \ {"total", "dirty", "cp", "eol", "buf"} : Flush(s)[x] = s[x]
      /\ Flush(s).cp = 0 /\ Flush(s).eol = -1 /\ Flush(s).buf = Empty
      /\ Flush(s).total = sum.total /\ Flush(s).dirty = sum.dirty
  BY <1>1, <1>2 DEF Fields1
<1> QED BY <1>3 DEF sum

LEMMA FrameCollect ==
  ASSUME NEW s, NEW c, DOMAIN s = Fields1
  PROVE  /\ DOMAIN Collect(s, c) = Fields1
         /\ \A x \in Fields1 \ {"total", "dirty", "cp", "eol", "buf", "st"} : Collect(s, c)[x] = s[x]
         /\ Collect(s, c).st \in {s.st, "idle"}
<1> DEFINE put == [s EXCEPT !.buf[s.cp] = c, !.cp = @ + 1]
<1>1. DOMAIN put = Fields1 /\ \A x \in Fields1 \ {"cp", "buf"} : put[x] = s[x]
  BY DEF Fields1
<1>2. ASSUME NEW t, DOMAIN t = Fields1
      PROVE  LET r == [Flush(t) EXCEPT !.st = "idle"] IN
             /\ DOMAIN r = Fields1 /\ r.st = "idle"
             /\ \A x \in Fields1 \ {"total", "dirty", "cp", "eol", "buf", "st"} : r[x] = t[x]
  <2> DEFINE r == Flush(t)
  <2>1. DOMAIN r = Fields1 /\ \A x \in Fields1 \ {"total", "dirty", "cp", "eol", "buf"} : r[x] = t[x]
    BY <1>2, FrameFlush
  <2> HIDE DEF r
  <2>2. LET q == [r EXCEPT !.st = "idle"] IN
        /\ DOMAIN q = Fields1 /\ q.st = "idle"
        /\ \A x \in Fields1 \ {"total", "dirty", "cp", "eol", "buf", "st"} : q[x] = t[x]
    BY <2>1 DEF Fields1
  <2> QED BY <2>2 DEF r
<1>3. CASE c \in Letters
  <2>1. Collect(s, c) \in {put, [Flush(put) EXCEPT !.st = "idle"]}
    BY <1>3 DEF Collect, Letters
  <2> HIDE DEF put
  <2> QED BY <1>1, <1>2, <2>1 DEF Fields1
<1>4. CASE c \notin Letters
  <2>1. Collect(s, c) \in {s, [Flush(s) EXCEPT !.st = "idle"], [s EXCEPT !.cp = s.eol, !.st = "idle"], [s EXCEPT !.eol = s.cp]}
    BY <1>4 DEF Collect
  <2> QED BY <1>2, <2>1 DEF Fields1
<1> QED BY <1>3, <1>4

LEMMA FrameRoom ==
  ASSUME NEW s, DOMAIN s = Fields1
  PROVE  /\ DOMAIN MakeRoom(s) = Fields1
         /\ \A x \in Fields1 \ {"total", "dirty", "cp", "eol", "buf"} : MakeRoom(s)[x] = s[x]
<1> DEFINE left  == s.cp - s.eol
           moved == [AddSum(s, s.eol) EXCEPT !.cp = left, !.eol = -1,
                       !.buf = [i \in DOMAIN s.buf |-> IF i < left THEN s.buf[s.eol + i] ELSE "nul"]]
<1>1. DOMAIN moved = Fields1 /\ \A x \in Fields1 \ {"total", "dirty", "cp", "eol", "buf"} : moved[x] = s[x]
  <2> DEFINE sum  == AddSum(s, s.eol)
             rest == [i \in DOMAIN s.buf |-> IF i < left THEN s.buf[s.eol + i] ELSE "nul"]
  <2>1. DOMAIN sum = Fields1 /\ \A x \in Fields1 \ {"total", "dirty"} : sum[x] = s[x]
    BY FrameSum
  <2> HIDE DEF sum, rest, left
  <2>2. LET r == [sum EXCEPT !.cp = left, !.eol = -1, !.buf = rest] IN
        DOMAIN r = Fields1 /\ \A x \in Fields1 \ {"total", "dirty", "cp", "eol", "buf"} : r[x] = s[x]
    BY <2>1 DEF Fields1
  <2> QED BY <2>2 DEF sum, rest
<1>2. MakeRoom(s) \in {s, Flush(s), moved, Flush(moved)}
  BY DEF MakeRoom
<1> HIDE DEF moved
<1> QED BY <1>1, <1>2, FrameFlush DEF Fields1

LEMMA FrameEnd ==
  ASSUME NEW s, DOMAIN s = Fields1
  PROVE  /\ DOMAIN EndChunk(s) = Fields1
         /\ \A x \in Fields1 \ {"total", "dirty", "cp", "eol", "buf"} : EndChunk(s)[x] = s[x]
BY FrameFlush DEF EndChunk

-----------------------------------------------------------------------------
(* A byte of a host name is saved.                                         *)

(* What a byte of a host may change.                                       *)
UrlFields == {"start", "tld", "sld", "domEnd", "labelStart", "punct", "dot1", "dot2", "urlTotal", "flags", "st"}

LEMMA FrameReset ==
  ASSUME NEW s, DOMAIN s = Fields1, NEW from
  PROVE  LET r == ResetDoms(s, from) IN
         /\ DOMAIN r = Fields1 /\ \A x \in (Fields1 \ UrlFields) \cup {"st"} : r[x] = s[x]
         /\ r.start = from /\ r.tld = -1 /\ r.sld = -1 /\ r.domEnd = DomStart(s) /\ r.labelStart = DomStart(s)
         /\ r.punct = 0 /\ r.dot1 = 0 /\ r.dot2 = 0 /\ r.flags = s.flags \ {"idn", "dot"}
<1> DEFINE start == DomStart(s)
<1> HIDE DEF start
<1>1. LET r == [s EXCEPT !.start = from, !.tld = -1, !.sld = -1, !.domEnd = start, !.labelStart = start,
                         !.punct = 0, !.dot1 = 0, !.dot2 = 0, !.urlTotal = 0, !.flags = @ \ {"idn", "dot"}] IN
      /\ DOMAIN r = Fields1 /\ \A x \in (Fields1 \ UrlFields) \cup {"st"} : r[x] = s[x]
      /\ r.start = from /\ r.tld = -1 /\ r.sld = -1 /\ r.domEnd = start /\ r.labelStart = start
      /\ r.punct = 0 /\ r.dot1 = 0 /\ r.dot2 = 0 /\ r.flags = s.flags \ {"idn", "dot"}
  BY DEF Fields1, UrlFields
<1> QED BY <1>1 DEF ResetDoms, start

LEMMA ResetInv ==
  ASSUME NEW s, DomInv(s), NEW from
  PROVE  /\ DomInv([ResetDoms(s, from) EXCEPT !.flags = @ \cup {"long"}, !.st = "idle"])
         /\ s.st = "slash3start" => DomInv([ResetDoms(s, from) EXCEPT !.st = "slash3"])
<1> DEFINE r == ResetDoms(s, from)
<1>1. /\ DOMAIN r = Fields1 /\ \A x \in (Fields1 \ UrlFields) \cup {"st"} : r[x] = s[x]
      /\ r.start = from /\ r.tld = -1 /\ r.sld = -1 /\ r.domEnd = DomStart(s) /\ r.labelStart = DomStart(s)
      /\ r.punct = 0 /\ r.dot1 = 0 /\ r.dot2 = 0 /\ r.flags = s.flags \ {"idn", "dot"}
  BY FrameReset DEF DomInv, DomTypes
<1>2. DomStart(s) \in Nat /\ DomStart(s) <= DomsSize /\ s.domEnd \in Nat /\ DomsSize \in Nat
  BY DomStartType, Sizes DEF DomInv, DomTypes
<1> HIDE DEF r
<1>3. DomInv([r EXCEPT !.flags = @ \cup {"long"}, !.st = "idle"])
  <2> DEFINE t == [r EXCEPT !.flags = @ \cup {"long"}, !.st = "idle"]
  <2>1. /\ DOMAIN t = Fields1 /\ t.st = "idle" /\ t.cref = s.cref /\ t.ends = s.ends /\ t.doms = s.doms
        /\ t.domEnd = DomStart(s) /\ t.labelStart = DomStart(s) /\ t.punct = 0 /\ t.dot1 = 0 /\ t.dot2 = 0
    BY <1>1 DEF Fields1, UrlFields
  <2> HIDE DEF t
  <2>2. DomStart(t) = DomStart(s)
    BY <2>1 DEF DomStart
  <2>3. DomInv(t)
    BY <1>2, <2>1, <2>2, States DEF DomInv, DomTypes, InHost, UrlStates
  <2> QED BY <2>3 DEF t
<1>4. ASSUME s.st = "slash3start" PROVE DomInv([r EXCEPT !.st = "slash3"])
  <2> DEFINE t == [r EXCEPT !.st = "slash3"]
  <2>1. /\ DOMAIN t = Fields1 /\ t.st = "slash3" /\ t.cref = s.cref /\ t.ends = s.ends /\ t.doms = s.doms
        /\ t.domEnd = DomStart(s) /\ t.labelStart = DomStart(s) /\ t.punct = 0 /\ t.dot1 = 0 /\ t.dot2 = 0
        /\ t.flags = s.flags \ {"idn", "dot"}
    BY <1>1 DEF Fields1, UrlFields
  <2> HIDE DEF t
  <2>2. DomStart(t) = DomStart(s) /\ DomStart(s) <= HostMaxSave /\ "long" \notin t.flags
    BY <1>4, <2>1, States DEF DomStart, DomInv, InHost
  <2>3. DomInv(t)
    BY <1>2, <1>4, <2>1, <2>2, States, Sizes DEF DomInv, DomTypes, InHost, UrlStates, Host
  <2> QED BY <2>3 DEF t
<1> QED BY <1>3, <1>4 DEF r

(* Either the host goes on by a byte, or it was too long.                  *)
Saved(s, r) ==
  /\ DOMAIN r = Fields1 /\ \A x \in Fields1 \ UrlFields : r[x] = s[x]
  /\ DomInv(r)
  /\ \/ r.st = "idle" /\ "long" \in r.flags
     \/ /\ s.st = "slash3" /\ s.domEnd < DomStart(s) + HostMax
        /\ \A x \in Fields1 \ {"domEnd"} : r[x] = s[x]
        /\ r.domEnd = s.domEnd + 1

LEMMA SaveHost ==
  ASSUME NEW s, DomInv(s), s.st = "slash3" \/ "long" \in s.flags
  PROVE  Saved(s, HostSave(s))
<1>1. DomStart(s) \in Nat /\ s.domEnd \in Nat /\ DOMAIN s = Fields1
  BY DomStartType DEF DomInv, DomTypes
<1>2. CASE s.domEnd - DomStart(s) >= HostMax
  <2> DEFINE d == ResetDoms(s, -1)
             r == [d EXCEPT !.flags = @ \cup {"long"}, !.st = "idle"]
  <2>1. HostSave(s) = r
    BY <1>2 DEF HostSave
  <2>2. DOMAIN d = Fields1 /\ \A x \in (Fields1 \ UrlFields) \cup {"st"} : d[x] = s[x]
    BY <1>1, FrameReset
  <2>3. DomInv(r)
    BY ResetInv
  <2> HIDE DEF d
  <2>4. DOMAIN r = Fields1 /\ r.st = "idle" /\ "long" \in r.flags /\ \A x \in Fields1 \ UrlFields : r[x] = s[x]
    BY <2>2 DEF Fields1, UrlFields
  <2> HIDE DEF r
  <2> QED BY <2>1, <2>3, <2>4 DEF Saved
<1>3. CASE ~(s.domEnd - DomStart(s) >= HostMax) /\ "long" \in s.flags
  <2>1. HostSave(s) = s
    BY <1>3 DEF HostSave
  <2> QED BY <1>1, <1>3, <2>1 DEF Saved, DomInv
<1>4. CASE ~(s.domEnd - DomStart(s) >= HostMax) /\ "long" \notin s.flags
  <2> DEFINE r == [s EXCEPT !.domEnd = @ + 1]
  <2>1. HostSave(s) = r
    BY <1>4 DEF HostSave
  <2>2. DOMAIN r = Fields1 /\ r.domEnd = s.domEnd + 1 /\ \A x \in Fields1 \ {"domEnd"} : r[x] = s[x]
    BY <1>1 DEF Fields1
  <2> HIDE DEF r
  <2>3. r.st = "slash3" /\ s.st = "slash3" /\ s.domEnd < DomStart(s) + HostMax
    BY <1>1, <1>4, <2>2, Sizes DEF Fields1
  <2>4. DomStart(r) = DomStart(s)
    BY <2>2 DEF DomStart, Fields1
  <2>5. /\ r.st = s.st /\ r.cref = s.cref /\ r.ends = s.ends /\ r.labelStart = s.labelStart /\ r.punct = s.punct
        /\ r.dot1 = s.dot1 /\ r.dot2 = s.dot2 /\ r.doms = s.doms /\ r.flags = s.flags
    BY <2>2 DEF Fields1
  <2>6. Host(r)
    BY <1>1, <2>2, <2>3, <2>4, <2>5, Sizes DEF DomInv, DomTypes, Host
  <2>7. DomInv(r)
    <3>1. DomTypes(r)
      BY <1>1, <2>2, <2>5 DEF DomInv, DomTypes
    <3>2. DomStart(r) <= r.domEnd /\ r.domEnd <= DomsSize
      BY <1>1, <2>2, <2>3, <2>4, Sizes DEF DomInv, InHost
    <3> QED BY <2>3, <2>4, <2>5, <2>6, <3>1, <3>2 DEF DomInv
  <2> QED BY <1>1, <2>1, <2>2, <2>3, <2>7 DEF Saved, Fields1, UrlFields
<1> QED BY <1>2, <1>3, <1>4

-----------------------------------------------------------------------------
(* A label of a host name begins, and the whole name ends.                 *)

(* The host goes on, with a new label or without, or it was too long.      *)
Goes(s, r) ==
  /\ DOMAIN r = Fields1 /\ \A x \in Fields1 \ UrlFields : r[x] = s[x]
  /\ DomInv(r)
  /\ \/ r.st = "idle"
     \/ /\ r.st = "slash3" /\ r.start = s.start
        /\ \/ r.tld = s.tld /\ r.sld = s.sld /\ r.dot1 = s.dot1 /\ r.dot2 = s.dot2
           \/ r.tld = s.cp /\ r.sld = s.tld /\ r.dot2 = s.dot1

(* A label begins at the end of the line buffer.                           *)
Begins(s, r) ==
  /\ r.st = "slash3" /\ r.start = s.start /\ r.tld = s.cp /\ r.sld = s.tld /\ r.dot2 = s.dot1 /\ r.dot1 # 0
  /\ r.punct = 0 /\ "dot" \notin r.flags

LEMMA DomLabel ==
  ASSUME NEW s, DomInv(s), s.st = "slash3", s.punct = 0, "dot" \in s.flags
  PROVE  Goes(s, Save(s)) /\ (Save(s).st = "idle" \/ Begins(s, Save(s)))
<1> DEFINE bare   == [s EXCEPT !.flags = @ \ {"dot", "idn"}]
           dotted == HostSave(bare)
           label  == [dotted EXCEPT !.dot2 = dotted.dot1, !.dot1 = dotted.domEnd,
                                    !.labelStart = dotted.domEnd, !.sld = dotted.tld, !.tld = s.cp]
<1>1. Save(s) = HostSave(label)
  BY DEF Save
<1>2. /\ DOMAIN bare = Fields1 /\ bare.flags = s.flags \ {"dot", "idn"}
      /\ \A x \in Fields1 \ {"flags"} : bare[x] = s[x]
  BY DEF DomInv, DomTypes, Fields1
<1> HIDE DEF bare
<1>3. bare.st = s.st /\ bare.cref = s.cref /\ bare.ends = s.ends /\ bare.domEnd = s.domEnd /\ bare.labelStart = s.labelStart
      /\ bare.punct = s.punct /\ bare.dot1 = s.dot1 /\ bare.dot2 = s.dot2 /\ bare.doms = s.doms
      /\ bare.start = s.start /\ bare.tld = s.tld /\ bare.cp = s.cp
  BY <1>2 DEF Fields1
<1>4. DomStart(bare) = DomStart(s)
  BY <1>3 DEF DomStart
<1>5. DomInv(bare)
  BY <1>2, <1>3, <1>4 DEF DomInv, DomTypes, Host
<1>6. Saved(bare, dotted)
  BY <1>3, <1>5, SaveHost
<1> HIDE DEF dotted
<1>7. /\ DOMAIN label = Fields1 /\ label.dot2 = dotted.dot1 /\ label.dot1 = dotted.domEnd
      /\ label.labelStart = dotted.domEnd /\ label.sld = dotted.tld /\ label.tld = s.cp
      /\ \A x \in Fields1 \ {"dot2", "dot1", "labelStart", "sld", "tld"} : label[x] = dotted[x]
  BY <1>6 DEF Saved, Fields1
<1> HIDE DEF label
<1>8. label.st = dotted.st /\ label.cref = dotted.cref /\ label.ends = dotted.ends /\ label.domEnd = dotted.domEnd
      /\ label.punct = dotted.punct /\ label.doms = dotted.doms /\ label.flags = dotted.flags /\ label.start = dotted.start
  BY <1>7 DEF Fields1
<1>9. DomStart(label) = DomStart(dotted)
  BY <1>8 DEF DomStart
<1>10. DomTypes(label)
  BY <1>6, <1>7, <1>8 DEF Saved, DomInv, DomTypes
<1>11. \A x \in Fields1 \ UrlFields : label[x] = s[x]
  BY <1>2, <1>6, <1>7 DEF Saved, Fields1, UrlFields
<1>12. CASE dotted.st = "idle" /\ "long" \in dotted.flags
  <2>1. DomInv(label)
    BY <1>6, <1>8, <1>9, <1>10, <1>12 DEF Saved, DomInv, InHost
  <2>2. Saved(label, HostSave(label)) /\ label.st = "idle"
    BY <1>8, <1>12, <2>1, SaveHost
  <2>3. HostSave(label).st = "idle"
    BY <2>2 DEF Saved
  <2> QED BY <1>1, <1>11, <2>2, <2>3 DEF Saved, Goes
<1>13. CASE /\ bare.st = "slash3" /\ bare.domEnd < DomStart(bare) + HostMax
            /\ \A x \in Fields1 \ {"domEnd"} : dotted[x] = bare[x]
            /\ dotted.domEnd = bare.domEnd + 1
  <2>1. /\ dotted.st = "slash3" /\ dotted.punct = 0 /\ dotted.dot1 = s.dot1 /\ dotted.ends = s.ends /\ dotted.tld = s.tld
        /\ dotted.flags = bare.flags /\ dotted.start = s.start /\ dotted.domEnd = s.domEnd + 1
    BY <1>3, <1>13 DEF Fields1
  <2>2. DomStart(dotted) = DomStart(s) /\ DomStart(s) \in Nat /\ s.domEnd \in Nat /\ s.dot1 \in Nat
    BY <2>1, DomStartType DEF DomStart, DomInv, DomTypes
  <2>3. s.domEnd + 1 <= DomStart(s) + HostMax /\ DomStart(s) <= s.domEnd
        /\ (s.dot1 # 0 => DomStart(s) < s.dot1 /\ s.dot1 <= s.domEnd)
    BY <1>3, <1>4, <1>13, <2>2, Sizes DEF DomInv, Host
  <2>4. Host(label)
    BY <1>7, <1>8, <1>9, <2>1, <2>2, <2>3, Sizes DEF Host
  <2>5. DomInv(label)
    BY <1>6, <1>8, <1>9, <1>10, <2>1, <2>4 DEF Saved, DomInv
  <2>6. Saved(label, HostSave(label)) /\ label.st = "slash3"
    BY <1>8, <2>1, <2>5, SaveHost
  <2>7. HostSave(label).st = "idle" \/ Begins(s, HostSave(label))
    <3>1. label.dot1 # 0 /\ "dot" \notin label.flags
      BY <1>2, <1>7, <1>8, <2>1, <2>2
    <3> QED BY <1>7, <1>8, <2>1, <2>6, <3>1 DEF Saved, Begins, Fields1
  <2> QED BY <1>1, <1>11, <2>6, <2>7 DEF Saved, Goes, Begins
<1> QED BY <1>6, <1>12, <1>13 DEF Saved

LEMMA SaveGoes ==
  ASSUME NEW s, DomInv(s), s.st = "slash3" PROVE Goes(s, Save(s))
<1>1. CASE s.punct # 0
  BY <1>1 DEF Save, Goes, DomInv, DomTypes
<1>2. CASE s.punct = 0 /\ "dot" \in s.flags
  BY <1>2, DomLabel
<1>3. CASE s.punct = 0 /\ "dot" \notin s.flags
  <2>1. Save(s) = HostSave(s)
    BY <1>3 DEF Save
  <2>2. Saved(s, HostSave(s))
    BY SaveHost
  <2> QED BY <2>1, <2>2 DEF Saved, Goes, Fields1
<1> QED BY <1>1, <1>2, <1>3

LEMMA FrameDrop ==
  ASSUME NEW s, DOMAIN s = Fields1
  PROVE  /\ DOMAIN DropLabels(s) = Fields1
         /\ \A x \in Fields1 \ {"cp", "eol", "buf", "panic"} : DropLabels(s)[x] = s[x]
<1> DEFINE length == s.cp - s.sld
           moved  == [i \in DOMAIN s.buf |-> IF i \in s.start .. s.start + length - 1
                                             THEN s.buf[s.sld + i - s.start] ELSE s.buf[i]]
           end    == IF s.eol >= s.cp THEN s.start + length ELSE s.eol
           cut    == [s EXCEPT !.buf = moved, !.eol = end, !.cp = s.start + length]
<1>1. DropLabels(s) \in {[s EXCEPT !.cp = s.start], cut, [s EXCEPT !.panic = TRUE]}
  BY DEF DropLabels
<1>2. DOMAIN cut = Fields1 /\ \A x \in Fields1 \ {"cp", "eol", "buf", "panic"} : cut[x] = s[x]
  <2> HIDE DEF moved, end, length
  <2> QED BY DEF Fields1
<1> HIDE DEF cut
<1> QED BY <1>1, <1>2 DEF Fields1

(* The name that urlHostEnd adds, if it does.                              *)
LEMMA EndHost ==
  ASSUME NEW s, DomInv(s), s.st = "slash3", NEW words \in BOOLEAN
  PROVE  LET r == HostEnd(s, words) IN
         /\ DOMAIN r = Fields1
         /\ \A x \in Fields1 \ {"cp", "eol", "buf", "panic", "domEnd", "ends", "doms", "flags"} : r[x] = s[x]
         /\ \/ \A x \in {"cp", "eol", "buf", "panic", "ends", "doms"} : r[x] = s[x]
            \/ /\ r.doms = s.doms + 1 /\ r.ends # <<>>
               /\ LET cut == IF s.dot2 # 0 THEN DropLabels(s) ELSE s
                  IN  \A x \in {"cp", "eol", "buf", "panic"} : r[x] = cut[x]
         /\ \A next \in {"idle", "skip"} : DomInv([r EXCEPT !.st = next])
<1> DEFINE from == IF s.punct # 0 THEN s.punct ELSE s.domEnd
           end  == 1 + from
           trim == IF s.dot2 # 0 /\ ~words THEN s.dot2 ELSE DomStart(s)
           cut  == IF s.dot2 # 0 THEN DropLabels(s) ELSE s
           new  == DomStart(s) + end - trim
           r    == HostEnd(s, words)
<1>1. /\ DOMAIN s = Fields1 /\ DomStart(s) \in Nat /\ s.domEnd \in Nat /\ s.dot2 \in Nat /\ s.dot1 \in Nat /\ s.punct \in Nat
      /\ Host(s) /\ "long" \notin s.flags /\ Apart(s.ends) /\ DomStart(s) <= HostMaxSave /\ DomStart(s) <= s.domEnd
      /\ s.domEnd <= DomsSize /\ s.doms \in Nat
  BY DomStartType, States DEF DomInv, DomTypes, InHost
<1>2. from \in Nat /\ DomStart(s) <= from /\ from <= DomStart(s) + HostMax /\ (s.dot2 # 0 => s.dot2 < from /\ DomStart(s) < s.dot2)
  BY <1>1, Sizes DEF Host
<1>3. DOMAIN cut = Fields1 /\ \A x \in Fields1 \ {"cp", "eol", "buf", "panic"} : cut[x] = s[x]
  BY <1>1, FrameDrop
<1>4. ASSUME NEW t, DOMAIN t = Fields1, t.domEnd \in Nat, t.doms \in Nat, Apart(t.ends), DomStart(t) <= t.domEnd, t.domEnd <= DomsSize,
             t.cref = s.cref, t.labelStart = s.labelStart, t.punct = s.punct, t.dot1 = s.dot1, t.dot2 = s.dot2,
             "long" \notin t.flags, NEW next \in {"idle", "skip"}
      PROVE  DomInv([t EXCEPT !.st = next])
  <2> DEFINE q == [t EXCEPT !.st = next]
  <2>1. DOMAIN q = Fields1 /\ q.st = next /\ \A x \in Fields1 \ {"st"} : q[x] = t[x]
    BY <1>4 DEF Fields1
  <2> HIDE DEF q
  <2>2. q.cref = t.cref /\ q.ends = t.ends /\ q.domEnd = t.domEnd /\ q.labelStart = t.labelStart /\ q.punct = t.punct
        /\ q.dot1 = t.dot1 /\ q.dot2 = t.dot2 /\ q.doms = t.doms /\ q.flags = t.flags
    BY <2>1 DEF Fields1
  <2>3. DomStart(q) = DomStart(t)
    BY <2>2 DEF DomStart
  <2>4. DomInv(q)
    BY <1>4, <2>1, <2>2, <2>3, States DEF DomInv, DomTypes, UrlStates, InHost
  <2> QED BY <2>4 DEF q
<1>5. CASE end - 1 <= DomStart(s) \/ "long" \in s.flags
  <2> DEFINE t == [s EXCEPT !.domEnd = end - 1]
  <2>1. r = t
    BY <1>5 DEF HostEnd
  <2>2. DOMAIN t = Fields1 /\ t.domEnd = from /\ \A x \in Fields1 \ {"domEnd"} : t[x] = s[x]
    BY <1>1, <1>2 DEF Fields1
  <2> HIDE DEF t, r
  <2>3. t.cref = s.cref /\ t.ends = s.ends /\ t.labelStart = s.labelStart /\ t.punct = s.punct
        /\ t.dot1 = s.dot1 /\ t.dot2 = s.dot2 /\ t.doms = s.doms /\ t.flags = s.flags
    BY <2>2 DEF Fields1
  <2>4. DomStart(t) = DomStart(s)
    BY <2>3 DEF DomStart
  <2>5. from <= DomsSize
    BY <1>1, <1>2, Sizes
  <2>6. \A next \in {"idle", "skip"} : DomInv([t EXCEPT !.st = next])
    BY <1>1, <1>2, <1>4, <2>2, <2>3, <2>4, <2>5
  <2>7. \A x \in {"cp", "eol", "buf", "panic", "ends", "doms"} : t[x] = s[x]
    BY <2>2 DEF Fields1
  <2> QED BY <2>1, <2>2, <2>6, <2>7 DEF r
<1>6. CASE ~(end - 1 <= DomStart(s) \/ "long" \in s.flags)
  <2> DEFINE t == [cut EXCEPT !.flags = @ \ {"idn"}, !.doms = @ + 1, !.domEnd = new, !.ends = Append(@, new)]
  <2>1. r = t
    BY <1>6 DEF HostEnd
  <2>2. new \in Nat /\ DomStart(s) + 2 <= new /\ new <= DomStart(s) + HostMaxSave /\ new <= DomsSize
    BY <1>1, <1>2, <1>6, Sizes
  <2> HIDE DEF cut, new
  <2>3. /\ DOMAIN t = Fields1 /\ t.domEnd = new /\ t.ends = Append(cut.ends, new) /\ t.doms = cut.doms + 1 /\ t.flags = cut.flags \ {"idn"}
        /\ \A x \in Fields1 \ {"domEnd", "ends", "doms", "flags"} : t[x] = cut[x]
    BY <1>3 DEF Fields1
  <2> HIDE DEF t, r
  <2>4. t.cref = s.cref /\ t.labelStart = s.labelStart /\ t.punct = s.punct /\ t.ends = Append(s.ends, new)
        /\ t.dot1 = s.dot1 /\ t.dot2 = s.dot2 /\ t.doms = s.doms + 1 /\ t.flags = s.flags \ {"idn"}
    BY <1>3, <2>3 DEF Fields1
  <2>5. Apart(t.ends) /\ DomStart(t) = new /\ t.ends # <<>>
    BY <1>1, <2>2, <2>4, NameAdded DEF DomStart
  <2>6. \A next \in {"idle", "skip"} : DomInv([t EXCEPT !.st = next])
    <3>1. t.doms \in Nat /\ "long" \notin t.flags
      BY <1>1, <2>4
    <3>2. t.domEnd \in Nat /\ DomStart(t) <= t.domEnd /\ t.domEnd <= DomsSize
      BY <2>2, <2>3, <2>5
    <3> QED BY <1>4, <2>3, <2>4, <2>5, <3>1, <3>2
  <2>7. \A x \in Fields1 \ {"cp", "eol", "buf", "panic", "domEnd", "ends", "doms", "flags"} : t[x] = s[x]
    BY <1>3, <2>3
  <2>8. \A x \in {"cp", "eol", "buf", "panic"} : t[x] = cut[x]
    BY <2>3 DEF Fields1
  <2> QED BY <2>1, <2>3, <2>4, <2>5, <2>6, <2>7, <2>8 DEF r, cut
<1> QED BY <1>5, <1>6

-----------------------------------------------------------------------------
(* A byte of a URL, as the host names see it.                              *)

(* The byte ends the host, or a user name.                                 *)
Ends(s, r, words) == \E next \in {"idle", "skip"} : r = [HostEnd(s, words) EXCEPT !.st = next]
UserEnds(s, r) ==
  /\ DOMAIN r = Fields1 /\ \A x \in Fields1 \ {"flags", "cp", "st"} : r[x] = s[x]
  /\ r.cp = s.start /\ r.st = "slash3start"

LEMMA HostByteIs ==
  ASSUME NEW s, DomInv(s), s.st = "slash3", NEW u, NEW words \in BOOLEAN
  PROVE  LET r == HostByte(s, u, words) IN
         /\ DomInv(r)
         /\ Goes(s, r) \/ Ends(s, r, words) \/ UserEnds(s, r)
         /\ u = "nl" => (Goes(s, r) /\ r.st = "idle") \/ Ends(s, r, words)
<1> DEFINE r == HostByte(s, u, words)
<1>1. DOMAIN s = Fields1 /\ s.domEnd \in Nat /\ DomStart(s) \in Nat
  BY DomStartType DEF DomInv, DomTypes
<1>2. ASSUME NEW t, DOMAIN t = Fields1, \A x \in Fields1 \ {"flags", "punct", "st"} : t[x] = s[x],
             t.punct \in {s.punct, s.domEnd}, "long" \in t.flags => "long" \in s.flags, t.st \in {s.st, "idle"}
      PROVE  DomInv(t) /\ Goes(s, t)
  <2>1. t.cref = s.cref /\ t.ends = s.ends /\ t.domEnd = s.domEnd /\ t.labelStart = s.labelStart
        /\ t.dot1 = s.dot1 /\ t.dot2 = s.dot2 /\ t.doms = s.doms /\ t.start = s.start /\ t.tld = s.tld /\ t.sld = s.sld
    BY <1>2 DEF Fields1
  <2>2. DomStart(t) = DomStart(s)
    BY <2>1 DEF DomStart
  <2>3. Host(t)
    BY <1>1, <1>2, <2>1, <2>2 DEF DomInv, Host, DomTypes
  <2>4. DomTypes(t)
    BY <1>1, <1>2, <2>1, States DEF DomInv, DomTypes, UrlStates
  <2>5. DomInv(t)
    BY <1>2, <2>1, <2>2, <2>3, <2>4 DEF DomInv, InHost
  <2> QED BY <1>2, <2>1, <2>5 DEF Goes, UrlFields, Fields1
<1>3. ASSUME NEW t, DomInv(t), \A x \in Fields1 \ {"flags", "punct"} : t[x] = s[x] PROVE DomInv(Save(t)) /\ Goes(s, Save(t))
  <2>1. t.st = "slash3" /\ t.cp = s.cp /\ t.start = s.start /\ t.tld = s.tld /\ t.sld = s.sld /\ t.dot1 = s.dot1 /\ t.dot2 = s.dot2
    BY <1>3 DEF Fields1
  <2>2. Goes(t, Save(t))
    BY <1>3, <2>1, SaveGoes
  <2> QED BY <1>3, <2>1, <2>2 DEF Goes, UrlFields, Fields1
<1>4. CASE s.urlTotal > Failsafe
  <2> DEFINE t == [s EXCEPT !.st = "idle"]
  <2>1. r = t
    BY <1>4 DEF HostByte
  <2>2. DOMAIN t = Fields1 /\ t.st = "idle" /\ \A x \in Fields1 \ {"st"} : t[x] = s[x]
    BY <1>1 DEF Fields1
  <2>3. t.punct = s.punct /\ t.flags = s.flags
    BY <1>1 DEF Fields1
  <2> HIDE DEF t
  <2>4. DomInv(t) /\ Goes(s, t)
    BY <1>2, <2>2, <2>3
  <2> QED BY <2>1, <2>2, <2>4
<1>5. CASE ~(s.urlTotal > Failsafe) /\ u \in Letters \cup Digits \cup {"-"}
  <2>1. r = Save(s)
    BY <1>5 DEF HostByte, Letters, Digits, Params
  <2>2. u # "nl"
    BY <1>5 DEF Letters, Digits
  <2> QED BY <1>3, <2>1, <2>2
<1>6. CASE ~(s.urlTotal > Failsafe) /\ u = "." /\ s.punct = 0
  <2> DEFINE p == [s EXCEPT !.punct = s.domEnd]
             d == [s EXCEPT !.flags = @ \cup {"dot"}]
  <2>1. r \in {p, d}
    BY <1>6 DEF HostByte, Letters, Digits, Params
  <2>2. DOMAIN p = Fields1 /\ p.punct = s.domEnd /\ \A x \in Fields1 \ {"punct"} : p[x] = s[x]
    BY <1>1 DEF Fields1
  <2>3. DOMAIN d = Fields1 /\ d.flags = s.flags \cup {"dot"} /\ \A x \in Fields1 \ {"flags"} : d[x] = s[x]
    BY <1>1 DEF Fields1
  <2> HIDE DEF p, d
  <2>4. p.flags = s.flags /\ p.st = s.st /\ d.punct = s.punct /\ d.st = s.st
    BY <2>2, <2>3 DEF Fields1
  <2>5. DomInv(p) /\ Goes(s, p)
    BY <1>2, <2>2, <2>4
  <2>6. DomInv(d) /\ Goes(s, d)
    BY <1>2, <2>3, <2>4
  <2> QED BY <1>6, <2>1, <2>5, <2>6
<1>7. CASE ~(s.urlTotal > Failsafe) /\ u = "@" /\ "user" \notin s.flags
  <2> DEFINE t == [s EXCEPT !.flags = @ \cup {"user"}, !.cp = s.start, !.st = "slash3start"]
  <2>1. r = t
    BY <1>7 DEF HostByte, Letters, Digits, Params
  <2>2. /\ DOMAIN t = Fields1 /\ t.cp = s.start /\ t.st = "slash3start" /\ t.flags = s.flags \cup {"user"}
        /\ \A x \in Fields1 \ {"flags", "cp", "st"} : t[x] = s[x]
    BY <1>1 DEF Fields1
  <2> HIDE DEF t
  <2>3. t.cref = s.cref /\ t.ends = s.ends /\ t.domEnd = s.domEnd /\ t.labelStart = s.labelStart /\ t.punct = s.punct
        /\ t.dot1 = s.dot1 /\ t.dot2 = s.dot2 /\ t.doms = s.doms
    BY <2>2 DEF Fields1
  <2>4. DomStart(t) = DomStart(s)
    BY <2>3 DEF DomStart
  <2>5. DomInv(t)
    BY <2>2, <2>3, <2>4, States DEF DomInv, DomTypes, UrlStates, InHost
  <2> QED BY <1>7, <2>1, <2>2, <2>5 DEF UserEnds
<1>8. CASE /\ ~(s.urlTotal > Failsafe) /\ u \in Params(s)
           /\ ~(u \in Letters \cup Digits \cup {"-"}) /\ ~(u = "." /\ s.punct = 0) /\ ~(u = "@" /\ "user" \notin s.flags)
  <2> DEFINE p == [s EXCEPT !.punct = IF @ = 0 THEN s.domEnd ELSE @]
  <2>1. r = Save(p)
    BY <1>8 DEF HostByte, Letters, Digits, Params
  <2>2. DOMAIN p = Fields1 /\ p.punct \in {s.punct, s.domEnd} /\ \A x \in Fields1 \ {"punct"} : p[x] = s[x]
    BY <1>1 DEF Fields1
  <2> HIDE DEF p
  <2>3. p.flags = s.flags /\ p.st = s.st
    BY <2>2 DEF Fields1
  <2>4. DomInv(p)
    BY <1>2, <2>2, <2>3
  <2>5. u # "nl"
    BY <1>8 DEF Params
  <2> QED BY <1>3, <2>1, <2>2, <2>4, <2>5
<1>9. CASE /\ ~(s.urlTotal > Failsafe) /\ u = "hi" /\ s.punct = 0
           /\ ~(u \in Params(s))
  <2> DEFINE d == [s EXCEPT !.flags = @ \cup {"idn"}]
  <2>1. r = Save(d)
    BY <1>9 DEF HostByte, Letters, Digits
  <2>2. DOMAIN d = Fields1 /\ d.flags = s.flags \cup {"idn"} /\ \A x \in Fields1 \ {"flags"} : d[x] = s[x]
    BY <1>1 DEF Fields1
  <2> HIDE DEF d
  <2>3. d.punct = s.punct /\ d.st = s.st
    BY <2>2 DEF Fields1
  <2>4. DomInv(d)
    BY <1>2, <2>2, <2>3
  <2> QED BY <1>3, <1>9, <2>1, <2>2, <2>4
<1>10. CASE /\ ~(s.urlTotal > Failsafe) /\ ~(u \in Letters \cup Digits \cup {"-"}) /\ ~(u = "." /\ s.punct = 0)
            /\ ~(u = "@" /\ "user" \notin s.flags) /\ ~(u \in Params(s)) /\ ~(u = "hi" /\ s.punct = 0)
  <2>1. r = [HostEnd(s, words) EXCEPT !.st = AfterHost(s, u)]
    BY <1>10 DEF HostByte
  <2>2. AfterHost(s, u) \in {"idle", "skip"}
    BY DEF AfterHost
  <2>3. \A next \in {"idle", "skip"} : DomInv([HostEnd(s, words) EXCEPT !.st = next])
    BY EndHost
  <2>4. DomInv(r)
    BY <2>1, <2>2, <2>3
  <2> QED BY <2>1, <2>2, <2>4 DEF Ends
<1> QED BY <1>4, <1>5, <1>6, <1>7, <1>8, <1>9, <1>10

(* A byte of "http://" leads to the state after it, or back to the text.   *)
Steps(s, r, u) ==
  /\ DOMAIN r = Fields1 /\ \A x \in Fields1 \ {"st", "flags"} : r[x] = s[x]
  /\ r.st = "idle" \/ <<s.st, u, r.st>> \in Scheme

LEMMA SchemeByteIs ==
  ASSUME NEW s, DOMAIN s = Fields1, s.st \in SchemeStates, "long" \in s.flags => s.st = "idle", NEW u
  PROVE  LET r == SchemeByte(s, u) IN
         /\ Steps(s, r, u) /\ ("long" \in r.flags => r.st = "idle")
         /\ s.st = "slash2" /\ u = "/" => r.st = "slash3start"
<1> DEFINE next  == {step[3] : step \in {x \in Scheme : x[1] = s.st /\ x[2] = u}}
           st    == IF next = {} THEN "idle" ELSE CHOOSE x \in next : TRUE
           flags == CASE s.st = "idle" /\ next # {} -> {}
                      [] s.st = "quote" /\ u = "dq" -> s.flags \cup {"dq"}
                      [] s.st = "quote" /\ u = "sq" -> {"sq"}
                      [] OTHER -> s.flags
           r     == SchemeByte(s, u)
<1>1. r = [s EXCEPT !.st = st, !.flags = flags]
  BY DEF SchemeByte
<1>2. \A x \in next : <<s.st, u, x>> \in Scheme
  BY DEF Scheme
<1>3. (next = {} /\ st = "idle") \/ (next # {} /\ st \in next)
  <2> HIDE DEF next
  <2>1. ASSUME next # {} PROVE (CHOOSE x \in next : TRUE) \in next
    <3>1. \E x \in next : TRUE
      BY <2>1
    <3> QED BY <3>1
  <2>2. CASE next = {}
    BY <2>2
  <2>3. CASE next # {}
    BY <2>1, <2>3
  <2> QED BY <2>2, <2>3
<1>4. ASSUME s.st = "slash2", u = "/" PROVE next # {} /\ \A x \in next : x = "slash3start"
  <2>1. <<"slash2", "/", "slash3start">> \in {x \in Scheme : x[1] = s.st /\ x[2] = u}
    BY <1>4 DEF Scheme
  <2>2. <<"slash2", "/", "slash3start">>[3] \in next
    BY <2>1
  <2>3. \A x \in next : <<"slash2", "/", x>> \in Scheme
    BY <1>2, <1>4
  <2> QED BY <2>2, <2>3 DEF Scheme
<1>5. "long" \in flags => st = "idle"
  <2>1. CASE s.st = "idle" /\ next # {}
    BY <2>1
  <2>2. CASE s.st = "idle" /\ next = {}
    BY <2>2
  <2>3. CASE s.st # "idle"
    <3>1. flags \in {s.flags, s.flags \cup {"dq"}, {"sq"}}
      BY <2>3
    <3> QED BY <2>3, <3>1
  <2> QED BY <2>1, <2>2, <2>3
<1>6. s.st = "slash2" /\ u = "/" => st = "slash3start"
  BY <1>3, <1>4
<1>7. st = "idle" \/ <<s.st, u, st>> \in Scheme
  BY <1>2, <1>3
<1> HIDE DEF next, st, flags, r
<1>8. DOMAIN r = Fields1 /\ r.st = st /\ r.flags = flags /\ \A x \in Fields1 \ {"st", "flags"} : r[x] = s[x]
  BY <1>1 DEF Fields1
<1> QED BY <1>5, <1>6, <1>7, <1>8 DEF Steps, r

(* The state in which the first byte of a host, or a later one, is taken.  *)
Enters(s, h) ==
  /\ DomInv(h) /\ h.st = "slash3" /\ \A x \in Fields1 \ UrlFields : h[x] = s[x]
  /\ \/ s.st = "slash3" /\ \A x \in Fields1 \ {"urlTotal"} : h[x] = s[x]
     \/ /\ s.st = "slash3start" /\ h.start = s.cp /\ h.tld = -1 /\ h.sld = -1 /\ h.dot1 = 0 /\ h.dot2 = 0
        /\ h.punct = 0 /\ "dot" \notin h.flags

(* A host name is there after a step, or there was none and none came.     *)
Kept(s, r, words) == r.ends # <<>> \/ words \/ (s.ends = <<>> /\ r.doms = s.doms)

(* What a byte makes of a URL, as far as the line buffer is concerned.     *)
UrlOutcome(s, r, u, words) ==
  \/ s.st \in SchemeStates /\ Steps(s, r, u) /\ r.st # "slash3start"
  \/ /\ s.st = "slash2" /\ u = "/"
     /\ \E t : /\ DOMAIN t = Fields1 /\ t.st = "slash3start" /\ r = MakeRoom(t)
               /\ \A x \in Fields1 \ {"st", "flags", "ends"} : t[x] = s[x]
  \/ InHost(s.st) /\ \E h : Enters(s, h) /\ r = HostByte(h, u, words)
  \/ /\ s.st = "skip" /\ r.st \in {"idle", "skip"}
     /\ DOMAIN r = Fields1 /\ \A x \in Fields1 \ {"urlTotal", "st"} : r[x] = s[x]

LEMMA SchemeDoms ==
  ASSUME NEW s, DomInv(s), NEW u, NEW words \in BOOLEAN, s.st \in SchemeStates, ~(s.st = "slash2" /\ u = "/")
  PROVE  LET r == UrlByte(s, u, words) IN DomInv(r) /\ Kept(s, r, words) /\ UrlOutcome(s, r, u, words)
<1> DEFINE r == SchemeByte(s, u)
<1>1. UrlByte(s, u, words) = r
  BY States DEF UrlByte
<1>2. Steps(s, r, u) /\ ("long" \in r.flags => r.st = "idle")
  BY SchemeByteIs DEF DomInv, DomTypes
<1> HIDE DEF r
<1>3. r.st \in SchemeStates
  BY <1>2, States DEF Steps, Scheme
<1>4. r.cref = s.cref /\ r.ends = s.ends /\ r.domEnd = s.domEnd /\ r.labelStart = s.labelStart /\ r.punct = s.punct
      /\ r.dot1 = s.dot1 /\ r.dot2 = s.dot2 /\ r.doms = s.doms
  BY <1>2 DEF Steps, Fields1
<1>5. DomStart(r) = DomStart(s)
  BY <1>4 DEF DomStart
<1>6. DomInv(r)
  BY <1>2, <1>3, <1>4, <1>5, States DEF DomInv, DomTypes, InHost, UrlStates, Steps
<1> QED BY <1>1, <1>2, <1>3, <1>4, <1>6, States DEF Kept, UrlOutcome

LEMMA RoomDoms ==
  ASSUME NEW s, DomInv(s), NEW words \in BOOLEAN, s.st = "slash2"
  PROVE  LET r == UrlByte(s, "/", words) IN DomInv(r) /\ Kept(s, r, words) /\ UrlOutcome(s, r, "/", words)
<1> DEFINE q == SchemeByte(s, "/")
           t == MakeRoomForName(q, words)
           r == MakeRoom(t)
<1>1. UrlByte(s, "/", words) = r
  BY DEF UrlByte
<1>2. Steps(s, q, "/") /\ q.st = "slash3start" /\ "long" \notin q.flags
  BY SchemeByteIs, States DEF DomInv, DomTypes
<1> HIDE DEF q
<1>3. q.cref = s.cref /\ q.ends = s.ends /\ q.domEnd = s.domEnd /\ q.labelStart = s.labelStart /\ q.punct = s.punct
      /\ q.dot1 = s.dot1 /\ q.dot2 = s.dot2 /\ q.doms = s.doms
  BY <1>2 DEF Steps, Fields1
<1>4. DomTypes(q) /\ DomStart(q) = DomStart(s)
  BY <1>2, <1>3 DEF DomInv, DomTypes, Steps, UrlStates, DomStart
<1>5. /\ DOMAIN t = Fields1 /\ \A x \in Fields1 \ {"ends"} : t[x] = q[x]
      /\ Apart(t.ends) /\ DomStart(t) <= HostMaxSave /\ DomStart(t) <= DomStart(q)
      /\ q.ends # <<>> => t.ends # <<>> \/ words
  BY <1>4, RoomForName
<1> HIDE DEF t
<1>6. t.cref = s.cref /\ t.domEnd = s.domEnd /\ t.labelStart = s.labelStart /\ t.punct = s.punct
      /\ t.dot1 = s.dot1 /\ t.dot2 = s.dot2 /\ t.doms = s.doms /\ t.st = "slash3start" /\ t.flags = q.flags
  BY <1>2, <1>3, <1>5 DEF Fields1
<1>7. DOMAIN r = Fields1 /\ \A x \in Fields1 \ {"total", "dirty", "cp", "eol", "buf"} : r[x] = t[x]
  BY <1>5, FrameRoom
<1> HIDE DEF r
<1>8. SameDoms(t, r) /\ r.st = t.st /\ r.cref = t.cref
  BY <1>7 DEF SameDoms, Fields1
<1>9. DomStart(t) \in Nat /\ DomStart(q) \in Nat /\ s.domEnd \in Nat
  BY <1>4, <1>5, DomStartType DEF DomInv, DomTypes
<1>10. DomInv(t)
  <2>1. DomTypes(t)
    BY <1>4, <1>5, <1>6, <1>3 DEF DomInv, DomTypes, UrlStates
  <2>2. DomStart(t) <= t.domEnd /\ t.domEnd <= DomsSize
    BY <1>4, <1>5, <1>6, <1>9 DEF DomInv
  <2> QED BY <1>2, <1>5, <1>6, <2>1, <2>2 DEF DomInv, InHost
<1>11. DomInv(r)
  BY <1>7, <1>8, <1>10, DomFrame DEF DomInv, DomTypes
<1>12. Kept(s, r, words)
  BY <1>3, <1>5, <1>6, <1>8 DEF Kept, SameDoms
<1>13. \A x \in Fields1 \ {"st", "flags", "ends"} : t[x] = s[x]
  BY <1>2, <1>5 DEF Steps
<1> QED BY <1>1, <1>5, <1>6, <1>11, <1>12, <1>13 DEF UrlOutcome, r

LEMMA HostDoms ==
  ASSUME NEW s, DomInv(s), NEW u, NEW words \in BOOLEAN, InHost(s.st)
  PROVE  LET r == UrlByte(s, u, words) IN DomInv(r) /\ Kept(s, r, words) /\ UrlOutcome(s, r, u, words)
<1> DEFINE first == [ResetDoms(s, s.cp) EXCEPT !.st = "slash3"]
           host1 == IF s.st = "slash3start" THEN first ELSE s
           h     == [host1 EXCEPT !.urlTotal = @ + 1]
           r     == HostByte(h, u, words)
<1>1. UrlByte(s, u, words) = r
  BY States DEF UrlByte, InHost
<1>2. DomInv(host1) /\ host1.st = "slash3" /\ (\A x \in Fields1 \ UrlFields : host1[x] = s[x])
      /\ (s.st = "slash3" => host1 = s)
      /\ (s.st = "slash3start" => /\ host1.start = s.cp /\ host1.tld = -1 /\ host1.sld = -1 /\ host1.dot1 = 0 /\ host1.dot2 = 0
                                  /\ host1.punct = 0 /\ "dot" \notin host1.flags)
  <2>1. CASE s.st = "slash3"
    BY <2>1
  <2>2. CASE s.st = "slash3start"
    <3> DEFINE q == ResetDoms(s, s.cp)
    <3>1. DomInv(first)
      BY <2>2, ResetInv
    <3>2. /\ DOMAIN q = Fields1 /\ \A x \in (Fields1 \ UrlFields) \cup {"st"} : q[x] = s[x]
          /\ q.start = s.cp /\ q.tld = -1 /\ q.sld = -1 /\ q.dot1 = 0 /\ q.dot2 = 0
          /\ q.punct = 0 /\ "dot" \notin q.flags
      BY FrameReset DEF DomInv, DomTypes
    <3> HIDE DEF q
    <3>3. LET p == [q EXCEPT !.st = "slash3"] IN
          /\ p.st = "slash3" /\ (\A x \in Fields1 \ UrlFields : p[x] = s[x])
          /\ p.start = s.cp /\ p.tld = -1 /\ p.sld = -1 /\ p.dot1 = 0 /\ p.dot2 = 0
          /\ p.punct = 0 /\ "dot" \notin p.flags
      BY <3>2 DEF Fields1, UrlFields
    <3> QED BY <2>2, <3>1, <3>3 DEF q
  <2> QED BY <2>1, <2>2 DEF InHost
<1> HIDE DEF host1
<1>3. DOMAIN h = Fields1 /\ \A x \in Fields1 \ {"urlTotal"} : h[x] = host1[x]
  BY <1>2 DEF DomInv, DomTypes, Fields1
<1> HIDE DEF h
<1>4. SameDoms(host1, h) /\ h.st = "slash3" /\ h.cref = host1.cref /\ h.start = host1.start /\ h.tld = host1.tld /\ h.sld = host1.sld
      /\ h.dot1 = host1.dot1 /\ h.dot2 = host1.dot2
  BY <1>2, <1>3 DEF SameDoms, Fields1
<1>5. DomInv(h)
  BY <1>2, <1>3, <1>4, DomFrame DEF DomInv, DomTypes
<1>6. Enters(s, h)
  BY <1>2, <1>3, <1>4, <1>5 DEF Enters, InHost, Fields1, UrlFields
<1>7. DomInv(r) /\ (Goes(h, r) \/ Ends(h, r, words) \/ UserEnds(h, r))
  BY <1>4, <1>5, HostByteIs
<1>8. h.ends = s.ends /\ h.doms = s.doms
  BY <1>6 DEF Enters, Fields1, UrlFields
<1> HIDE DEF r
<1>9. Kept(s, r, words)
  <2>1. CASE Goes(h, r) \/ UserEnds(h, r)
    BY <1>8, <2>1 DEF Goes, UserEnds, Kept, Fields1, UrlFields
  <2>2. CASE Ends(h, r, words)
    <3> DEFINE e == HostEnd(h, words)
    <3>1. /\ DOMAIN e = Fields1
          /\ (e.ends = h.ends /\ e.doms = h.doms) \/ e.ends # <<>>
      BY <1>4, <1>5, EndHost
    <3> HIDE DEF e
    <3>2. PICK next \in {"idle", "skip"} : r = [e EXCEPT !.st = next]
      BY <2>2 DEF Ends, e
    <3>3. r.ends = e.ends /\ r.doms = e.doms
      BY <3>1, <3>2 DEF Fields1
    <3> QED BY <1>8, <3>1, <3>3 DEF Kept
  <2> QED BY <1>7, <2>1, <2>2
<1> QED BY <1>1, <1>6, <1>7, <1>9 DEF UrlOutcome, r

LEMMA UrlDoms ==
  ASSUME NEW s, DomInv(s), NEW u, NEW words \in BOOLEAN
  PROVE  LET r == UrlByte(s, u, words) IN DomInv(r) /\ Kept(s, r, words) /\ UrlOutcome(s, r, u, words)
<1>1. CASE s.st = "skip"
  <2> DEFINE st == IF EndsUrl(s, u) \/ s.urlTotal + 1 > Failsafe THEN "idle" ELSE "skip"
             r  == [s EXCEPT !.urlTotal = @ + 1, !.st = st]
  <2>1. UrlByte(s, u, words) = r
    BY <1>1, States DEF UrlByte
  <2> HIDE DEF st
  <2>2. DOMAIN r = Fields1 /\ r.st = st /\ \A x \in Fields1 \ {"urlTotal", "st"} : r[x] = s[x]
    BY DEF DomInv, DomTypes, Fields1
  <2> HIDE DEF r
  <2>3. st \in {"idle", "skip"}
    BY DEF st
  <2>4. SameDoms(s, r) /\ r.cref = s.cref
    BY <2>2 DEF SameDoms, Fields1
  <2>5. DomInv(r)
    BY <1>1, <2>2, <2>3, <2>4, DomFrame DEF DomInv, DomTypes
  <2> QED BY <1>1, <2>1, <2>2, <2>3, <2>4, <2>5 DEF Kept, UrlOutcome, SameDoms
<1>2. CASE s.st \in SchemeStates /\ ~(s.st = "slash2" /\ u = "/")
  BY <1>2, SchemeDoms
<1>3. CASE s.st = "slash2" /\ u = "/"
  BY <1>3, RoomDoms
<1>4. CASE InHost(s.st)
  BY <1>4, HostDoms
<1> QED BY <1>1, <1>2, <1>3, <1>4 DEF DomInv, DomTypes, UrlStates, InHost

-----------------------------------------------------------------------------
(* The line buffer.                                                        *)

(* What the line buffer holds, and what has been summed.                   *)
Lines(s) ==
  /\ DOMAIN s = Fields1 /\ s.panic = FALSE /\ s.dirty = FALSE
  /\ s.cp \in 0 .. BufSize - 1 /\ s.eol \in -1 .. s.cp /\ s.total \in 0 .. MaxSum
  /\ DOMAIN s.buf = 0 .. BufSize - 1 /\ \A i \in 0 .. s.cp - 1 : s.buf[i] \in Letters

(* Where the host of the URL is in it.                                     *)
Offsets(s) ==
  s.st = "slash3" =>
    /\ s.start \in 0 .. s.cp /\ (s.eol <= s.start \/ s.eol = s.cp)
    /\ s.tld = -1 \/ s.tld \in s.start .. s.cp
    /\ s.sld = -1 \/ (s.sld \in s.start .. s.tld /\ s.tld # -1)
    /\ s.dot1 # 0 => s.tld # -1
    /\ s.dot2 # 0 => s.sld # -1

(* The letters of "http" read so far.                                      *)
Past(st) ==
  CASE st = "t1" -> {"h"} [] st \in {"t2", "p"} -> {"h", "t"}
    [] st \in {"s", "colon", "slash1", "slash2"} -> {"h", "t", "p"} [] OTHER -> {}

(* What keeps the last line end before the host of a URL: a letter of its  *)
(* "http", unless those read so far are all among chars.                   *)
Begun(s, chars) ==
  /\ s.st = "slash3" => s.eol < s.start
  /\ s.st = "slash3start" => s.eol < s.cp
  /\ Past(s.st) \subseteq chars \/ s.eol < s.cp

LEMMA BufSizes == /\ BufSize \in Nat /\ HostMax \in Nat /\ MaxLine \in Nat /\ HttpsLen \in Nat /\ MaxSum \in Nat
                  /\ HostMax < BufSize /\ MaxLine + HttpsLen < BufSize /\ HostMax > 0
BY SizesAssumption

LEMMA SumLetters ==
  ASSUME NEW s, DOMAIN s = Fields1, s.total \in 0 .. MaxSum, s.dirty = FALSE,
         NEW n \in Nat, \A i \in 0 .. n - 1 : s.buf[i] \in Letters
  PROVE  AddSum(s, n).total \in 0 .. MaxSum /\ AddSum(s, n).dirty = FALSE
<1> DEFINE m == IF s.total + n > MaxSum THEN MaxSum - s.total ELSE n
<1>1. m \in 0 .. n /\ s.total + m \in 0 .. MaxSum
  BY BufSizes
<1>2. \A i \in 0 .. m - 1 : s.buf[i] \in Letters
  <2>1. \A i \in 0 .. m - 1 : i \in 0 .. n - 1
    BY <1>1
  <2> HIDE DEF m
  <2> QED BY <2>1
<1>3. AddSum(s, n) = [s EXCEPT !.total = @ + m, !.dirty = @ \/ \E i \in 0 .. m - 1 : s.buf[i] \notin Letters]
  BY DEF AddSum
<1>4. AddSum(s, n).total = s.total + m /\ AddSum(s, n).dirty = (s.dirty \/ \E i \in 0 .. m - 1 : s.buf[i] \notin Letters)
  BY <1>3 DEF Fields1
<1> QED BY <1>1, <1>2, <1>4

LEMMA FlushLines ==
  ASSUME NEW s, NEW n \in 0 .. BufSize, DOMAIN s = Fields1, s.panic = FALSE, s.cp = n,
         AddSum(s, n).total \in 0 .. MaxSum, AddSum(s, n).dirty = FALSE
  PROVE  Lines(Flush(s))
<1> DEFINE r == Flush(s)
<1>1. /\ DOMAIN r = Fields1 /\ \A x \in Fields1 \ {"total", "dirty", "cp", "eol", "buf"} : r[x] = s[x]
      /\ r.cp = 0 /\ r.eol = -1 /\ r.buf = Empty
      /\ r.total = AddSum(s, n).total /\ r.dirty = AddSum(s, n).dirty
  BY FrameFlush
<1> HIDE DEF r
<1>2. r.panic = FALSE
  BY <1>1 DEF Fields1
<1>3. DOMAIN Empty = 0 .. BufSize - 1
  BY DEF Empty
<1>4. Lines(r)
  BY <1>1, <1>2, <1>3, BufSizes DEF Lines
<1> QED BY <1>4 DEF r

LEMMA FlushLetters == ASSUME NEW s, Lines(s) PROVE Lines(Flush(s)) /\ Flush(s).eol = -1 /\ Flush(s).cp = 0
<1>1. s.cp \in Nat /\ s.cp \in 0 .. BufSize
  BY BufSizes DEF Lines
<1>2. AddSum(s, s.cp).total \in 0 .. MaxSum /\ AddSum(s, s.cp).dirty = FALSE
  BY <1>1, SumLetters DEF Lines
<1> QED BY <1>1, <1>2, FlushLines, FrameFlush DEF Lines

LEMMA LinesFrame ==
  ASSUME NEW s, NEW t, Lines(s), DOMAIN t = Fields1,
         t.panic = s.panic, t.dirty = s.dirty, t.cp = s.cp, t.eol = s.eol, t.total = s.total, t.buf = s.buf
  PROVE  Lines(t)
BY DEF Lines

LEMMA RoomLines ==
  ASSUME NEW s, Lines(s), s.eol < s.cp PROVE Lines(MakeRoom(s)) /\ MakeRoom(s).eol < MakeRoom(s).cp
<1> DEFINE left  == s.cp - s.eol
           rest  == [i \in DOMAIN s.buf |-> IF i < left THEN s.buf[s.eol + i] ELSE "nul"]
           sum   == AddSum(s, s.eol)
           moved == [sum EXCEPT !.cp = left, !.eol = -1, !.buf = rest]
<1>1. CASE s.cp < BufSize - HostMax
  BY <1>1 DEF MakeRoom
<1>2. CASE ~(s.cp < BufSize - HostMax) /\ s.eol = -1
  BY <1>2, FlushLetters DEF MakeRoom
<1>3. CASE ~(s.cp < BufSize - HostMax) /\ s.eol # -1
  <2>1. s.eol \in 0 .. s.cp /\ left \in 0 .. BufSize - 1
    BY <1>3, BufSizes DEF Lines
  <2>2. DOMAIN rest = 0 .. BufSize - 1 /\ \A i \in 0 .. left - 1 : rest[i] \in Letters
    <3>1. ASSUME NEW i \in 0 .. left - 1 PROVE i \in DOMAIN s.buf /\ s.eol + i \in 0 .. s.cp - 1 /\ i < left
      BY <2>1, BufSizes DEF Lines
    <3> QED BY <3>1 DEF Lines
  <2>3. DOMAIN sum = Fields1 /\ (\A x \in Fields1 \ {"total", "dirty"} : sum[x] = s[x])
        /\ sum.total \in 0 .. MaxSum /\ sum.dirty = FALSE
    <3>1. s.eol \in Nat /\ \A i \in 0 .. s.eol - 1 : i \in 0 .. s.cp - 1
      BY <2>1, BufSizes DEF Lines
    <3>2. \A i \in 0 .. s.eol - 1 : s.buf[i] \in Letters
      BY <3>1 DEF Lines
    <3> QED BY <3>1, <3>2, FrameSum, SumLetters DEF Lines
  <2>4. MakeRoom(s) \in {moved, Flush(moved)}
    BY <1>3 DEF MakeRoom
  <2> HIDE DEF rest, sum, left
  <2>5. /\ DOMAIN moved = Fields1 /\ moved.cp = left /\ moved.eol = -1 /\ moved.buf = rest
        /\ moved.total = sum.total /\ moved.dirty = sum.dirty /\ moved.panic = s.panic
    BY <2>3 DEF Fields1
  <2> HIDE DEF moved
  <2>6. Lines(moved) /\ moved.eol < moved.cp
    BY <2>1, <2>2, <2>3, <2>5 DEF Lines
  <2> QED BY <2>4, <2>6, FlushLetters
<1> QED BY <1>1, <1>2, <1>3

(* Dropping labels stays in buf: no slice is out of range.                 *)
LEMMA DropLines ==
  ASSUME NEW s, Lines(s), Offsets(s), s.st = "slash3", s.dot2 # 0 PROVE Lines(DropLabels(s))
<1> DEFINE length == s.cp - s.sld
           moved  == [i \in DOMAIN s.buf |-> IF i \in s.start .. s.start + length - 1
                                             THEN s.buf[s.sld + i - s.start] ELSE s.buf[i]]
           end    == IF s.eol >= s.cp THEN s.start + length ELSE s.eol
           cut    == [s EXCEPT !.buf = moved, !.eol = end, !.cp = s.start + length]
<1>1. /\ s.cp \in 0 .. BufSize - 1 /\ s.start \in 0 .. s.cp /\ s.sld \in s.start .. s.cp /\ s.eol \in -1 .. s.cp
      /\ s.eol <= s.start \/ s.eol = s.cp
  BY BufSizes DEF Lines, Offsets
<1>2. length \in 0 .. s.cp /\ s.start + length \in 0 .. s.cp
  BY <1>1, BufSizes
<1>3. CASE s.eol = -1
  <2> DEFINE r == [s EXCEPT !.cp = s.start]
  <2>1. DropLabels(s) = r
    BY <1>3 DEF DropLabels
  <2>2. DOMAIN r = Fields1 /\ r.cp = s.start /\ \A x \in Fields1 \ {"cp"} : r[x] = s[x]
    BY DEF Lines, Fields1
  <2> HIDE DEF r
  <2>3. r.panic = s.panic /\ r.dirty = s.dirty /\ r.eol = s.eol /\ r.total = s.total /\ r.buf = s.buf
    BY <2>2 DEF Fields1
  <2> QED BY <1>1, <1>3, <2>1, <2>2, <2>3, BufSizes DEF Lines
<1>4. CASE s.eol # -1
  <2>1. DropLabels(s) = cut
    BY <1>1, <1>2, <1>4, BufSizes DEF DropLabels
  <2>2. DOMAIN moved = 0 .. BufSize - 1 /\ \A i \in 0 .. s.start + length - 1 : moved[i] \in Letters
    <3>1. ASSUME NEW i \in 0 .. s.start + length - 1 PROVE moved[i] \in Letters
      <4>1. i \in 0 .. BufSize - 1 /\ i \in 0 .. s.cp - 1
        BY <1>1, <1>2, BufSizes
      <4>2. CASE i \in s.start .. s.start + length - 1
        <5>1. s.sld + i - s.start \in 0 .. s.cp - 1
          BY <1>1, <1>2, <4>2
        <5> QED BY <4>1, <4>2, <5>1 DEF Lines
      <4>3. CASE i \notin s.start .. s.start + length - 1
        BY <4>1, <4>3 DEF Lines
      <4> QED BY <4>2, <4>3
    <3> QED BY <3>1 DEF Lines
  <2>3. end \in -1 .. s.start + length
    BY <1>1, <1>2
  <2> HIDE DEF moved, end, length
  <2>4. /\ DOMAIN cut = Fields1 /\ cut.cp = s.start + length /\ cut.eol = end /\ cut.buf = moved
        /\ \A x \in Fields1 \ {"cp", "eol", "buf"} : cut[x] = s[x]
    BY DEF Lines, Fields1
  <2> HIDE DEF cut
  <2>5. cut.panic = s.panic /\ cut.dirty = s.dirty /\ cut.total = s.total
    BY <2>4 DEF Fields1
  <2>6. s.start + length \in 0 .. BufSize - 1
    BY <1>1, <1>2, BufSizes
  <2>7. \A i \in 0 .. cut.cp - 1 : cut.buf[i] \in Letters
    <3>1. 0 .. cut.cp - 1 = 0 .. s.start + length - 1
      BY <1>1, <1>2, <2>4
    <3> QED BY <2>2, <2>4, <3>1
  <2>8. cut.cp \in 0 .. BufSize - 1 /\ cut.eol \in -1 .. cut.cp /\ DOMAIN cut.buf = 0 .. BufSize - 1
    BY <2>2, <2>3, <2>4, <2>6
  <2>9. cut.panic = FALSE /\ cut.dirty = FALSE /\ cut.total \in 0 .. MaxSum /\ DOMAIN cut = Fields1
    BY <2>4, <2>5 DEF Lines
  <2>10. Lines(cut)
    BY <2>7, <2>8, <2>9, Zenon DEF Lines
  <2> QED BY <2>1, <2>10
<1> QED BY <1>3, <1>4

-----------------------------------------------------------------------------
(* A byte of a URL, as the line buffer sees it.                            *)

(* What holds of the line buffer in the middle of a byte, too.             *)
Mid(s) == Lines(s) /\ Offsets(s)

LEMMA EndsLines ==
  ASSUME NEW s, DomInv(s), s.st = "slash3", Mid(s), NEW words \in BOOLEAN, NEW r, Ends(s, r, words)
  PROVE  Lines(r) /\ r.st \in {"idle", "skip"}
<1> DEFINE e   == HostEnd(s, words)
           cut == IF s.dot2 # 0 THEN DropLabels(s) ELSE s
<1>1. /\ DOMAIN e = Fields1
      /\ \A x \in Fields1 \ {"cp", "eol", "buf", "panic", "domEnd", "ends", "doms", "flags"} : e[x] = s[x]
      /\ \/ \A x \in {"cp", "eol", "buf", "panic", "ends", "doms"} : e[x] = s[x]
         \/ \A x \in {"cp", "eol", "buf", "panic"} : e[x] = cut[x]
  BY EndHost
<1>2. Lines(cut)
  BY DropLines DEF Mid
<1>3. \A x \in Fields1 \ {"cp", "eol", "buf", "panic"} : cut[x] = s[x]
  BY FrameDrop DEF Mid, Lines
<1> HIDE DEF e, cut
<1>4. e.total = s.total /\ e.dirty = s.dirty /\ cut.total = s.total /\ cut.dirty = s.dirty
  BY <1>1, <1>3 DEF Fields1
<1>5. Lines(e)
  <2>1. CASE \A x \in {"cp", "eol", "buf", "panic", "ends", "doms"} : e[x] = s[x]
    BY <1>1, <1>4, <2>1, LinesFrame DEF Mid
  <2>2. CASE \A x \in {"cp", "eol", "buf", "panic"} : e[x] = cut[x]
    BY <1>1, <1>2, <1>4, <2>2, LinesFrame
  <2> QED BY <1>1, <2>1, <2>2
<1>6. PICK next \in {"idle", "skip"} : r = [e EXCEPT !.st = next]
  BY DEF Ends, e
<1>7. DOMAIN r = Fields1 /\ r.st = next /\ \A x \in Fields1 \ {"st"} : r[x] = e[x]
  BY <1>1, <1>6 DEF Fields1
<1>8. r.panic = e.panic /\ r.dirty = e.dirty /\ r.cp = e.cp /\ r.eol = e.eol /\ r.total = e.total /\ r.buf = e.buf
  BY <1>7 DEF Fields1
<1>9. Lines(r)
  BY <1>5, <1>7, <1>8, LinesFrame
<1> QED BY <1>6, <1>7, <1>9

LEMMA EnterLines ==
  ASSUME NEW s, Mid(s), NEW h, Enters(s, h)
  PROVE  Mid(h) /\ \A chars : Begun(s, chars) => h.eol < h.start
<1>1. h.panic = s.panic /\ h.dirty = s.dirty /\ h.cp = s.cp /\ h.eol = s.eol /\ h.total = s.total /\ h.buf = s.buf
  BY DEF Enters, UrlFields, Fields1
<1>2. Lines(h)
  BY <1>1, LinesFrame DEF Enters, Mid, DomInv, DomTypes
<1>3. CASE s.st = "slash3" /\ \A x \in Fields1 \ {"urlTotal"} : h[x] = s[x]
  <2>1. h.start = s.start /\ h.tld = s.tld /\ h.sld = s.sld /\ h.dot1 = s.dot1 /\ h.dot2 = s.dot2
    BY <1>3 DEF Fields1
  <2> QED BY <1>1, <1>2, <1>3, <2>1 DEF Mid, Offsets, Begun
<1>4. CASE s.st = "slash3start" /\ h.start = s.cp /\ h.tld = -1 /\ h.sld = -1 /\ h.dot1 = 0 /\ h.dot2 = 0
  <2>1. s.cp \in 0 .. s.cp /\ s.eol <= s.cp
    BY BufSizes DEF Mid, Lines
  <2> QED BY <1>1, <1>2, <1>4, <2>1 DEF Mid, Offsets, Begun
<1> QED BY <1>3, <1>4 DEF Enters

LEMMA GoesLines ==
  ASSUME NEW s, Mid(s), s.st = "slash3", NEW r, Goes(s, r)
  PROVE  /\ Mid(r) /\ (r.st = "idle" \/ (r.st = "slash3" /\ r.start = s.start /\ r.eol = s.eol))
<1>1. r.panic = s.panic /\ r.dirty = s.dirty /\ r.cp = s.cp /\ r.eol = s.eol /\ r.total = s.total /\ r.buf = s.buf
  BY DEF Goes, UrlFields, Fields1
<1>2. Lines(r)
  BY <1>1, LinesFrame DEF Goes, Mid
<1>3. CASE r.st = "idle"
  BY <1>2, <1>3 DEF Mid, Offsets
<1>4. CASE /\ r.st = "slash3" /\ r.start = s.start
           /\ r.tld = s.tld /\ r.sld = s.sld /\ r.dot1 = s.dot1 /\ r.dot2 = s.dot2
  BY <1>1, <1>2, <1>4 DEF Mid, Offsets
<1>5. CASE r.st = "slash3" /\ r.start = s.start /\ r.tld = s.cp /\ r.sld = s.tld /\ r.dot2 = s.dot1
  <2>1. s.start \in 0 .. s.cp /\ s.cp \in Nat /\ s.cp # -1
    BY BufSizes DEF Mid, Offsets, Lines
  <2>2. s.tld = -1 \/ s.tld \in s.start .. s.cp
    BY DEF Mid, Offsets
  <2>3. s.dot1 # 0 => s.tld # -1
    BY DEF Mid, Offsets
  <2>4. s.eol <= s.start \/ s.eol = s.cp
    BY DEF Mid, Offsets
  <2> QED BY <1>1, <1>2, <1>5, <2>1, <2>2, <2>3, <2>4 DEF Mid, Offsets
<1> QED BY <1>3, <1>4, <1>5 DEF Goes

LEMMA Frames ==
  ASSUME NEW s, Lines(s), NEW r, DOMAIN r = Fields1, \A x \in Fields1 \ {"st", "flags", "urlTotal", "cref", "ends"} : r[x] = s[x]
  PROVE  Lines(r) /\ r.cp = s.cp /\ r.eol = s.eol
<1>1. r.panic = s.panic /\ r.dirty = s.dirty /\ r.cp = s.cp /\ r.eol = s.eol /\ r.total = s.total /\ r.buf = s.buf
  BY DEF Fields1
<1> QED BY <1>1, LinesFrame

(* A byte of a URL, be it read or stand for a reference.                   *)
LEMMA UrlBegun ==
  ASSUME NEW s, DomInv(s), Mid(s), NEW chars, Begun(s, chars), NEW words \in BOOLEAN,
         NEW u, u \in chars \/ u \notin {"h", "t", "p"}, u = "/" => ~({"h", "t", "p"} \subseteq chars)
  PROVE  LET r == UrlByte(s, u, words) IN Mid(r) /\ Begun(r, chars)
<1> DEFINE r == UrlByte(s, u, words)
<1>1. DomInv(r) /\ UrlOutcome(s, r, u, words) /\ DOMAIN r = Fields1 /\ DOMAIN s = Fields1 /\ Lines(s) /\ Offsets(s)
  BY UrlDoms DEF DomInv, DomTypes, Mid
<1> HIDE DEF r
<1>2. CASE s.st \in SchemeStates /\ Steps(s, r, u) /\ r.st # "slash3start"
  <2>1. Lines(r) /\ r.cp = s.cp /\ r.eol = s.eol
    BY <1>1, <1>2, Frames DEF Steps
  <2>2. r.st = "idle" \/ <<s.st, u, r.st>> \in Scheme
    BY <1>2 DEF Steps
  <2>3. Past(r.st) \subseteq chars \/ r.eol < r.cp
    <3>1. CASE s.eol < s.cp
      BY <2>1, <3>1
    <3>2. CASE Past(s.st) \subseteq chars
      <4>1. r.st # "idle" => Past(r.st) \subseteq Past(s.st) \cup ({u} \cap {"h", "t", "p"})
        BY <2>2 DEF Past, Scheme
      <4>2. Past("idle") = {}
        BY DEF Past
      <4> QED BY <3>2, <4>1, <4>2
    <3> QED BY <3>1, <3>2 DEF Begun
  <2>4. r.st \notin {"slash3", "slash3start"}
    BY <1>2, <2>2 DEF Scheme
  <2> QED BY <2>1, <2>3, <2>4 DEF Begun, Mid, Offsets, r
<1>3. CASE /\ s.st = "slash2" /\ u = "/"
           /\ \E t : /\ DOMAIN t = Fields1 /\ t.st = "slash3start" /\ r = MakeRoom(t)
                     /\ \A x \in Fields1 \ {"st", "flags", "ends"} : t[x] = s[x]
  <2>1. PICK t : /\ DOMAIN t = Fields1 /\ t.st = "slash3start" /\ r = MakeRoom(t)
                 /\ \A x \in Fields1 \ {"st", "flags", "ends"} : t[x] = s[x]
    BY <1>3
  <2>2. Lines(t) /\ t.cp = s.cp /\ t.eol = s.eol
    BY <1>1, <2>1, Frames
  <2>3. s.eol < s.cp
    <3>1. Past("slash2") = {"h", "t", "p"}
      BY DEF Past
    <3> QED BY <1>3, <3>1 DEF Begun
  <2>4. Lines(r) /\ r.eol < r.cp
    BY <2>1, <2>2, <2>3, RoomLines
  <2>5. r.st = "slash3start"
    BY <2>1, FrameRoom DEF Fields1
  <2> QED BY <2>4, <2>5 DEF Begun, Mid, Offsets, r
<1>4. CASE InHost(s.st) /\ \E h : Enters(s, h) /\ r = HostByte(h, u, words)
  <2>1. PICK h : Enters(s, h) /\ r = HostByte(h, u, words)
    BY <1>4
  <2>2. Mid(h) /\ h.eol < h.start /\ h.st = "slash3" /\ DomInv(h)
    BY <2>1, EnterLines DEF Enters
  <2>3. Goes(h, r) \/ Ends(h, r, words) \/ UserEnds(h, r)
    BY <2>1, <2>2, HostByteIs
  <2>4. Past("idle") = {} /\ Past("skip") = {} /\ Past("slash3") = {} /\ Past("slash3start") = {}
    BY DEF Past
  <2>5. CASE Goes(h, r)
    <3>1. Mid(r) /\ (r.st = "idle" \/ (r.st = "slash3" /\ r.start = h.start /\ r.eol = h.eol))
      BY <2>2, <2>5, GoesLines
    <3> QED BY <2>2, <2>4, <3>1 DEF Begun, r
  <2>6. CASE Ends(h, r, words)
    <3>1. Lines(r) /\ r.st \in {"idle", "skip"}
      BY <2>2, <2>6, EndsLines
    <3> QED BY <2>4, <3>1 DEF Begun, Mid, Offsets, r
  <2>7. CASE UserEnds(h, r)
    <3>1. /\ r.panic = h.panic /\ r.dirty = h.dirty /\ r.eol = h.eol /\ r.total = h.total /\ r.buf = h.buf
          /\ r.cp = h.start /\ r.st = "slash3start" /\ DOMAIN r = Fields1
      BY <2>7 DEF UserEnds, Fields1
    <3>2. h.start \in 0 .. h.cp /\ h.eol < h.start /\ h.cp \in 0 .. BufSize - 1 /\ h.eol \in -1 .. h.cp
      BY <2>2 DEF Mid, Lines, Offsets
    <3>3. r.cp \in 0 .. BufSize - 1 /\ r.eol \in -1 .. r.cp /\ r.eol < r.cp
      BY <3>1, <3>2, BufSizes
    <3>4. \A i \in 0 .. r.cp - 1 : r.buf[i] \in Letters
      <4>1. \A i \in 0 .. r.cp - 1 : i \in 0 .. h.cp - 1
        BY <3>1, <3>2, BufSizes
      <4> QED BY <2>2, <3>1, <4>1 DEF Mid, Lines
    <3>5. Lines(r)
      BY <2>2, <3>1, <3>3, <3>4 DEF Mid, Lines
    <3> QED BY <2>4, <3>1, <3>3, <3>5 DEF Begun, Mid, Offsets, r
  <2> QED BY <2>3, <2>5, <2>6, <2>7
<1>5. CASE /\ s.st = "skip" /\ r.st \in {"idle", "skip"}
           /\ DOMAIN r = Fields1 /\ \A x \in Fields1 \ {"urlTotal", "st"} : r[x] = s[x]
  <2>1. Lines(r)
    BY <1>1, <1>5, Frames
  <2>2. Past("idle") = {} /\ Past("skip") = {}
    BY DEF Past
  <2> QED BY <1>5, <2>1, <2>2 DEF Begun, Mid, Offsets, r
<1> QED BY <1>1, <1>2, <1>3, <1>4, <1>5 DEF UrlOutcome

(* A line end takes the URL out of its host.                               *)
LEMMA NlEnds ==
  ASSUME NEW s, DomInv(s), Mid(s), NEW words \in BOOLEAN
  PROVE  LET r == UrlByte(s, "nl", words) IN Lines(r) /\ r.st \in {"idle", "skip"}
<1> DEFINE r == UrlByte(s, "nl", words)
<1>1. DomInv(r) /\ UrlOutcome(s, r, "nl", words) /\ Lines(s)
  BY UrlDoms DEF Mid
<1> HIDE DEF r
<1>2. CASE s.st \in SchemeStates /\ Steps(s, r, "nl") /\ r.st # "slash3start"
  <2>1. Lines(r)
    BY <1>1, <1>2, Frames DEF Steps
  <2>2. r.st = "idle"
    BY <1>2 DEF Steps, Scheme
  <2> QED BY <2>1, <2>2 DEF r
<1>3. CASE InHost(s.st) /\ \E h : Enters(s, h) /\ r = HostByte(h, "nl", words)
  <2>1. PICK h : Enters(s, h) /\ r = HostByte(h, "nl", words)
    BY <1>3
  <2>2. Mid(h) /\ h.st = "slash3" /\ DomInv(h)
    BY <2>1, EnterLines DEF Enters
  <2>3. (Goes(h, r) /\ r.st = "idle") \/ Ends(h, r, words)
    BY <2>1, <2>2, HostByteIs
  <2> QED BY <2>2, <2>3, GoesLines, EndsLines DEF r, Mid
<1>4. CASE /\ s.st = "skip" /\ r.st \in {"idle", "skip"}
           /\ DOMAIN r = Fields1 /\ \A x \in Fields1 \ {"urlTotal", "st"} : r[x] = s[x]
  BY <1>1, <1>4, Frames DEF r
<1> QED BY <1>1, <1>2, <1>3, <1>4 DEF UrlOutcome

-----------------------------------------------------------------------------
(* A byte that is collected, and the end of a chunk.                       *)

LEMMA MoreBegun ==
  ASSUME NEW s, NEW few, NEW more, few \subseteq more, Begun(s, few) PROVE Begun(s, more)
BY DEF Begun

LEMMA CollectLetter ==
  ASSUME NEW s, Mid(s), NEW c \in Letters, NEW few, NEW chars, Begun(s, few)
  PROVE  Mid(Collect(s, c)) /\ Begun(Collect(s, c), chars)
<1> DEFINE put == [s EXCEPT !.buf[s.cp] = c, !.cp = @ + 1]
           r   == Collect(s, c)
<1>1. r = IF s.cp + 1 = BufSize THEN [Flush(put) EXCEPT !.st = "idle"] ELSE put
  BY DEF Collect, Letters
<1>2. s.cp \in 0 .. BufSize - 1 /\ s.eol \in -1 .. s.cp /\ DOMAIN s.buf = 0 .. BufSize - 1 /\ DOMAIN s = Fields1
  BY DEF Mid, Lines
<1>3. /\ DOMAIN put = Fields1 /\ put.cp = s.cp + 1 /\ DOMAIN put.buf = 0 .. BufSize - 1
      /\ \A x \in Fields1 \ {"cp", "buf"} : put[x] = s[x]
  BY <1>2 DEF Fields1
<1>4. \A i \in 0 .. s.cp : put.buf[i] \in Letters
  <2>1. put.buf = [s.buf EXCEPT ![s.cp] = c]
    BY <1>2 DEF Fields1
  <2> HIDE DEF put
  <2>2. ASSUME NEW i \in 0 .. s.cp PROVE put.buf[i] \in Letters
    <3>1. CASE i = s.cp
      BY <1>2, <2>1, <3>1
    <3>2. CASE i # s.cp
      <4>1. i \in 0 .. s.cp - 1 /\ i \in 0 .. BufSize - 1
        BY <1>2, <3>2, BufSizes
      <4> QED BY <1>2, <2>1, <3>2, <4>1 DEF Mid, Lines
    <3> QED BY <3>1, <3>2
  <2> QED BY <2>2
<1> HIDE DEF put, r
<1>5. put.panic = s.panic /\ put.dirty = s.dirty /\ put.eol = s.eol /\ put.total = s.total /\ put.st = s.st
      /\ put.start = s.start /\ put.tld = s.tld /\ put.sld = s.sld /\ put.dot1 = s.dot1 /\ put.dot2 = s.dot2
  BY <1>3 DEF Fields1
<1>6. CASE s.cp + 1 = BufSize
  <2>1. AddSum(put, put.cp).total \in 0 .. MaxSum /\ AddSum(put, put.cp).dirty = FALSE
    <3>1. put.cp \in Nat /\ 0 .. put.cp - 1 = 0 .. s.cp
      BY <1>2, <1>3, BufSizes
    <3> QED BY <1>3, <1>4, <1>5, <3>1, SumLetters DEF Mid, Lines
  <2>2. put.cp \in 0 .. BufSize
    BY <1>2, <1>3, <1>6, BufSizes
  <2>3. Lines(Flush(put))
    BY <1>3, <1>5, <2>1, <2>2, FlushLines DEF Mid, Lines
  <2> DEFINE flushed == Flush(put)
  <2> HIDE DEF flushed
  <2>4. r = [flushed EXCEPT !.st = "idle"] /\ Lines(flushed)
    BY <1>1, <1>6, <2>3 DEF flushed
  <2>5. DOMAIN r = Fields1 /\ r.st = "idle" /\ \A x \in Fields1 \ {"st"} : r[x] = flushed[x]
    BY <2>4 DEF Lines, Fields1
  <2>6. Lines(r)
    BY <2>4, <2>5, Frames
  <2> QED BY <2>5, <2>6 DEF Mid, Offsets, Begun, Past, r
<1>7. CASE s.cp + 1 # BufSize
  <2>1. r = put
    BY <1>1, <1>7
  <2>2. put.cp \in 0 .. BufSize - 1 /\ put.eol \in -1 .. put.cp /\ put.eol < put.cp /\ 0 .. put.cp - 1 = 0 .. s.cp
    BY <1>2, <1>3, <1>5, <1>7, BufSizes
  <2>3. Lines(put)
    BY <1>3, <1>4, <1>5, <2>2 DEF Mid, Lines
  <2>4. Offsets(put)
    <3>1. ASSUME s.st = "slash3" PROVE Offsets(put)
      <4>1. s.start \in 0 .. put.cp /\ put.eol < s.start /\ s.start \in Nat /\ put.eol <= s.start
        BY <1>2, <1>3, <1>5, <3>1 DEF Mid, Offsets, Begun
      <4>2. s.tld = -1 \/ s.tld \in s.start .. put.cp
        BY <1>2, <1>3, <3>1 DEF Mid, Offsets
      <4> QED BY <1>5, <3>1, <4>1, <4>2 DEF Mid, Offsets
    <3> QED BY <1>5, <3>1 DEF Offsets
  <2>5. Begun(put, chars)
    BY <1>5, <2>2 DEF Begun
  <2> QED BY <2>1, <2>3, <2>4, <2>5 DEF Mid, r
<1> QED BY <1>6, <1>7

LEMMA CollectNl ==
  ASSUME NEW s, Mid(s)
  PROVE  LET r == Collect(s, "nl") IN Mid(r) /\ r.st \in {s.st, "idle"}
<1> DEFINE r == Collect(s, "nl")
<1>1. s.cp \in 0 .. BufSize - 1 /\ s.eol \in -1 .. s.cp /\ DOMAIN s = Fields1 /\ Lines(s)
  BY DEF Mid, Lines
<1>2. \/ r = [Flush(s) EXCEPT !.st = "idle"]
      \/ s.eol # -1 /\ r = [s EXCEPT !.cp = s.eol, !.st = "idle"]
      \/ r = [s EXCEPT !.eol = s.cp]
  BY DEF Collect, Letters
<1> HIDE DEF r
<1>3. CASE r = [Flush(s) EXCEPT !.st = "idle"]
  <2> DEFINE flushed == Flush(s)
  <2>1. Lines(flushed)
    BY FlushLetters DEF Mid
  <2> HIDE DEF flushed
  <2>2. DOMAIN r = Fields1 /\ r.st = "idle" /\ \A x \in Fields1 \ {"st"} : r[x] = flushed[x]
    BY <1>3, <2>1 DEF Lines, Fields1, flushed
  <2>3. Lines(r)
    BY <2>1, <2>2, Frames
  <2> QED BY <2>2, <2>3 DEF Mid, Offsets, r
<1>4. CASE s.eol # -1 /\ r = [s EXCEPT !.cp = s.eol, !.st = "idle"]
  <2>1. DOMAIN r = Fields1 /\ r.cp = s.eol /\ r.st = "idle" /\ \A x \in Fields1 \ {"cp", "st"} : r[x] = s[x]
    BY <1>1, <1>4 DEF Fields1
  <2>2. r.panic = s.panic /\ r.dirty = s.dirty /\ r.eol = s.eol /\ r.total = s.total /\ r.buf = s.buf
    BY <2>1 DEF Fields1
  <2>3. r.cp \in 0 .. BufSize - 1 /\ r.eol \in -1 .. r.cp /\ \A i \in 0 .. r.cp - 1 : i \in 0 .. s.cp - 1
    BY <1>1, <1>4, <2>1, <2>2, BufSizes
  <2>4. \A i \in 0 .. r.cp - 1 : r.buf[i] \in Letters
    BY <1>1, <2>2, <2>3 DEF Lines
  <2>5. Lines(r)
    BY <1>1, <2>1, <2>2, <2>3, <2>4 DEF Lines
  <2> QED BY <2>1, <2>5 DEF Mid, Offsets, r
<1>5. CASE r = [s EXCEPT !.eol = s.cp]
  <2>1. DOMAIN r = Fields1 /\ r.eol = s.cp /\ \A x \in Fields1 \ {"eol"} : r[x] = s[x]
    BY <1>1, <1>5 DEF Fields1
  <2>2. r.panic = s.panic /\ r.dirty = s.dirty /\ r.cp = s.cp /\ r.total = s.total /\ r.buf = s.buf /\ r.st = s.st
        /\ r.start = s.start /\ r.tld = s.tld /\ r.sld = s.sld /\ r.dot1 = s.dot1 /\ r.dot2 = s.dot2
    BY <2>1 DEF Fields1
  <2>3. Lines(r)
    BY <1>1, <2>1, <2>2, BufSizes DEF Lines
  <2>4. Offsets(r)
    BY <2>1, <2>2 DEF Mid, Offsets
  <2> QED BY <2>2, <2>3, <2>4 DEF Mid, r
<1> QED BY <1>2, <1>3, <1>4, <1>5

LEMMA CollectOther ==
  ASSUME NEW s, NEW c, c \notin Letters, c # "nl" PROVE Collect(s, c) = s
BY DEF Collect

(* What may stand for a letter of "http" that is not in buf, when c is read. *)
With(c, chars) == IF c \in Letters THEN chars \cup {c} ELSE chars

LEMMA CollectBegun ==
  ASSUME NEW s, Mid(s), NEW c, c # "nl", NEW chars, Begun(s, With(c, chars))
  PROVE  Mid(Collect(s, c)) /\ Begun(Collect(s, c), chars)
BY CollectLetter, CollectOther DEF With

LEMMA Outside ==
  ASSUME NEW s, Lines(s), s.st \in {"idle", "skip"}, NEW chars PROVE Mid(s) /\ Begun(s, chars)
BY DEF Mid, Offsets, Begun, Past

(* The end of a chunk does not empty the buffer under a host.              *)
LEMMA EndBegun ==
  ASSUME NEW s, Mid(s), NEW chars, Begun(s, chars) PROVE Mid(EndChunk(s)) /\ Begun(EndChunk(s), chars)
<1> DEFINE r == Flush(s)
<1>1. CASE ~(s.cp # 0 /\ s.eol = s.cp)
  BY <1>1 DEF EndChunk
<1>2. CASE s.cp # 0 /\ s.eol = s.cp
  <2>1. EndChunk(s) = r
    BY <1>2 DEF EndChunk
  <2>2. Lines(r) /\ r.eol = -1 /\ r.cp = 0
    BY FlushLetters DEF Mid
  <2>3. r.st = s.st
    BY FrameFlush DEF Mid, Lines, Fields1
  <2> HIDE DEF r
  <2>4. s.st # "slash3" /\ s.st # "slash3start"
    BY <1>2 DEF Mid, Lines, Offsets, Begun
  <2>5. Mid(r) /\ Begun(r, chars)
    BY <2>2, <2>3, <2>4 DEF Mid, Offsets, Begun
  <2> QED BY <2>1, <2>5
<1> QED BY <1>1, <1>2

-----------------------------------------------------------------------------
(* A turn of the loop of fuz1.                                             *)

LEMMA RefSteps ==
  ASSUME NEW st \in RefStates, NEW c, NEW d
  PROVE  LET ref == RefStep(st, c, d) IN
         /\ ref.st \in RefStates /\ ref.done \in BOOLEAN /\ ref.again \in BOOLEAN /\ (ref.again => ref.done)
         /\ ref.done => st \in {"num", "dec", "hex", "name"} /\ (ref.c = "#" \/ (st # "num" /\ ref.c = d))
         /\ c = "nl" /\ st \in {"num", "dec", "hex", "name"} => ref.done /\ ref.again
BY DEF RefStep, RefStates, Letters, Digits, Hex

LEMMA WithRef ==
  ASSUME NEW s, DomInv(s), NEW x \in RefStates
  PROVE  LET r == [s EXCEPT !.cref = x] IN
         /\ DomInv(r) /\ r.st = s.st /\ r.cref = x /\ r.ends = s.ends /\ r.doms = s.doms
         /\ Mid(s) => Mid(r)
         /\ \A chars : Begun(s, chars) => Begun(r, chars)
<1> DEFINE r == [s EXCEPT !.cref = x]
<1>1. DOMAIN r = Fields1 /\ r.cref = x /\ \A y \in Fields1 \ {"cref"} : r[y] = s[y]
  BY DEF DomInv, DomTypes, Fields1
<1> HIDE DEF r
<1>2. SameDoms(s, r) /\ r.st = s.st /\ r.start = s.start /\ r.tld = s.tld /\ r.sld = s.sld /\ r.eol = s.eol /\ r.cp = s.cp
      /\ r.panic = s.panic /\ r.dirty = s.dirty /\ r.total = s.total /\ r.buf = s.buf
  BY <1>1 DEF SameDoms, Fields1
<1>3. DomInv(r)
  BY <1>1, <1>2, DomFrame
<1>4. Mid(s) => Mid(r)
  BY <1>1, <1>2, LinesFrame DEF Mid, Offsets, SameDoms
<1>5. \A chars : Begun(s, chars) => Begun(r, chars)
  BY <1>2 DEF Begun
<1> QED BY <1>1, <1>2, <1>3, <1>4, <1>5 DEF SameDoms, r

LEMMA CollectDoms ==
  ASSUME NEW s, DomInv(s), NEW c
  PROVE  LET r == Collect(s, c) IN DomInv(r) /\ r.ends = s.ends /\ r.doms = s.doms /\ r.cref = s.cref
<1> DEFINE r == Collect(s, c)
<1>1. DOMAIN r = Fields1 /\ r.st \in {s.st, "idle"}
      /\ \A x \in Fields1 \ {"total", "dirty", "cp", "eol", "buf", "st"} : r[x] = s[x]
  BY FrameCollect DEF DomInv, DomTypes
<1> HIDE DEF r
<1>2. SameDoms(s, r) /\ r.cref = s.cref
  BY <1>1 DEF SameDoms, Fields1
<1>3. DomInv(r)
  BY <1>1, <1>2, DomFrame DEF DomInv, DomTypes
<1> QED BY <1>2, <1>3 DEF SameDoms, r

(* The parts of a turn: what the URL makes of the byte, and what is then   *)
(* collected.                                                              *)
TurnIs(s, r, c, words, d) ==
  LET refs == c = "&" \/ s.cref # "idle"
      ref  == RefStep(s.cref, c, d)
  IN  \/ /\ s.st = "idle" /\ c \notin {"h", "="} /\ r = [f |-> Collect(s, c), again |-> FALSE]
      \/ /\ refs /\ ~ref.done /\ r.again = FALSE
         /\ LET url == [s EXCEPT !.cref = ref.st] IN (r.f = url /\ url.panic) \/ r.f = Collect(url, c)
      \/ /\ refs => ref.done
         /\ r.again = (refs /\ ref.again)
         /\ LET url == UrlByte([s EXCEPT !.cref = "idle"], IF refs THEN ref.c ELSE c, words)
            IN  \/ r.f = url /\ (s.st = "skip" \/ url.panic)
                \/ r.f = Collect(url, c)

LEMMA Turns ==
  ASSUME NEW s, s.cref \in RefStates, NEW c, NEW words \in BOOLEAN, NEW d
  PROVE  TurnIs(s, Turn1(s, c, words, d), c, words, d)
<1> DEFINE refs    == c = "&" \/ s.cref # "idle"
           ref     == RefStep(s.cref, c, d)
           partly  == [s EXCEPT !.cref = ref.st]
           wholly  == UrlByte([s EXCEPT !.cref = "idle"], IF refs THEN ref.c ELSE c, words)
           Putting(url) == [f |-> IF (s.st = "skip" /\ (refs => ref.done)) \/ url.panic THEN url ELSE Collect(url, c),
                            again |-> refs /\ ref.again]
<1>1. Turn1(s, c, words, d) = IF s.st = "idle" /\ c \notin {"h", "="} THEN [f |-> Collect(s, c), again |-> FALSE]
                              ELSE Putting(IF refs /\ ~ref.done THEN partly ELSE wholly)
  BY DEF Turn1
<1>2. ref.done \in BOOLEAN /\ ref.again \in BOOLEAN /\ (ref.again => ref.done)
  BY RefSteps
<1> HIDE DEF ref, wholly
<1>3. CASE s.st = "idle" /\ c \notin {"h", "="}
  BY <1>1, <1>3 DEF TurnIs
<1>4. CASE ~(s.st = "idle" /\ c \notin {"h", "="}) /\ refs /\ ~ref.done
  <2>1. Turn1(s, c, words, d) = Putting(partly)
    BY <1>1, <1>4
  <2> HIDE DEF partly
  <2>2. Putting(partly).again = FALSE /\ Putting(partly).f = IF partly.panic THEN partly ELSE Collect(partly, c)
    BY <1>2, <1>4
  <2> QED BY <1>4, <2>1, <2>2 DEF TurnIs, ref, partly
<1>5. CASE ~(s.st = "idle" /\ c \notin {"h", "="}) /\ ~(refs /\ ~ref.done)
  <2>1. Turn1(s, c, words, d) = Putting(wholly)
    BY <1>1, <1>5
  <2>2. Putting(wholly).again = (refs /\ ref.again)
        /\ Putting(wholly).f = IF s.st = "skip" \/ wholly.panic THEN wholly ELSE Collect(wholly, c)
    BY <1>2, <1>5
  <2> QED BY <1>5, <2>1, <2>2 DEF TurnIs, ref, wholly
<1> QED BY <1>3, <1>4, <1>5

LEMMA UrlRef ==
  ASSUME NEW s, DomInv(s), NEW u, NEW words \in BOOLEAN
  PROVE  UrlByte(s, u, words).cref = s.cref /\ (s.st = "skip" => UrlByte(s, u, words).st \in {"idle", "skip"})
<1> DEFINE r == UrlByte(s, u, words)
<1>1. UrlOutcome(s, r, u, words)
  BY UrlDoms
<1> HIDE DEF r
<1>2. CASE s.st \in SchemeStates /\ Steps(s, r, u) /\ r.st # "slash3start"
  BY <1>2, States DEF Steps, Fields1, r
<1>3. CASE /\ s.st = "slash2"
           /\ \E t : /\ DOMAIN t = Fields1 /\ r = MakeRoom(t)
                     /\ \A x \in Fields1 \ {"st", "flags", "ends"} : t[x] = s[x]
  <2>1. PICK t : /\ DOMAIN t = Fields1 /\ r = MakeRoom(t) /\ \A x \in Fields1 \ {"st", "flags", "ends"} : t[x] = s[x]
    BY <1>3
  <2>2. \A x \in Fields1 \ {"total", "dirty", "cp", "eol", "buf"} : r[x] = t[x]
    BY <2>1, FrameRoom
  <2>3. r.cref = t.cref /\ t.cref = s.cref
    BY <2>1, <2>2 DEF Fields1
  <2> QED BY <1>3, <2>3 DEF r
<1>4. CASE InHost(s.st) /\ \E h : Enters(s, h) /\ r = HostByte(h, u, words)
  <2>1. PICK h : Enters(s, h) /\ r = HostByte(h, u, words)
    BY <1>4
  <2>2. h.st = "slash3" /\ DomInv(h) /\ h.cref = s.cref
    BY <2>1 DEF Enters, Fields1, UrlFields
  <2>3. Goes(h, r) \/ Ends(h, r, words) \/ UserEnds(h, r)
    BY <2>1, <2>2, HostByteIs
  <2>4. CASE Goes(h, r) \/ UserEnds(h, r)
    BY <1>4, <2>2, <2>4 DEF Goes, UserEnds, Fields1, UrlFields, InHost, r
  <2>5. CASE Ends(h, r, words)
    <3> DEFINE e == HostEnd(h, words)
    <3>1. DOMAIN e = Fields1
          /\ \A x \in Fields1 \ {"cp", "eol", "buf", "panic", "domEnd", "ends", "doms", "flags"} : e[x] = h[x]
      BY <2>2, EndHost
    <3> HIDE DEF e
    <3>2. PICK next \in {"idle", "skip"} : r = [e EXCEPT !.st = next]
      BY <2>5 DEF Ends, e
    <3>3. r.cref = e.cref /\ e.cref = h.cref
      BY <3>1, <3>2 DEF Fields1
    <3> QED BY <1>4, <2>2, <3>3 DEF InHost, r
  <2> QED BY <2>3, <2>4, <2>5
<1>5. CASE /\ s.st = "skip" /\ r.st \in {"idle", "skip"}
           /\ DOMAIN r = Fields1 /\ \A x \in Fields1 \ {"urlTotal", "st"} : r[x] = s[x]
  BY <1>5 DEF Fields1, r
<1> QED BY <1>1, <1>2, <1>3, <1>4, <1>5 DEF UrlOutcome, r

LEMMA TurnDoms ==
  ASSUME NEW s, DomInv(s), NEW c, NEW words \in BOOLEAN, NEW d
  PROVE  LET r == Turn1(s, c, words, d) IN DomInv(r.f) /\ Kept(s, r.f, words) /\ (r.again => r.f.cref = "idle")
<1> DEFINE r == Turn1(s, c, words, d)
           ref == RefStep(s.cref, c, d)
           q == [s EXCEPT !.cref = "idle"]
<1>1. TurnIs(s, r, c, words, d) /\ s.cref \in RefStates
  BY Turns DEF DomInv, DomTypes
<1>2. ref.st \in RefStates /\ "idle" \in RefStates
  BY <1>1, RefSteps DEF RefStates
<1> HIDE DEF r, ref
<1>3. CASE s.st = "idle" /\ c \notin {"h", "="} /\ r = [f |-> Collect(s, c), again |-> FALSE]
  <2>1. r.f = Collect(s, c) /\ r.again = FALSE
    BY <1>3
  <2> QED BY <2>1, CollectDoms DEF Kept, r
<1>4. CASE r.again = FALSE /\ LET url == [s EXCEPT !.cref = ref.st] IN (r.f = url /\ url.panic) \/ r.f = Collect(url, c)
  <2> DEFINE url == [s EXCEPT !.cref = ref.st]
  <2>1. DomInv(url) /\ url.ends = s.ends /\ url.doms = s.doms
    BY <1>2, WithRef
  <2>2. r.f = url \/ r.f = Collect(url, c)
    BY <1>4
  <2> HIDE DEF url
  <2>3. DomInv(r.f) /\ r.f.ends = s.ends /\ r.f.doms = s.doms
    BY <2>1, <2>2, CollectDoms
  <2> QED BY <1>4, <2>3 DEF Kept, r
<1>5. ASSUME NEW v, LET url == UrlByte(q, v, words)
                    IN  \/ r.f = url /\ (s.st = "skip" \/ url.panic)
                        \/ r.f = Collect(url, c)
      PROVE  DomInv(r.f) /\ Kept(s, r.f, words) /\ r.f.cref = "idle"
  <2> DEFINE url == UrlByte(q, v, words)
  <2>1. DomInv(q) /\ q.ends = s.ends /\ q.doms = s.doms /\ q.cref = "idle"
    BY <1>2, WithRef
  <2> HIDE DEF q
  <2>2. DomInv(url) /\ Kept(q, url, words) /\ url.cref = "idle"
    BY <2>1, UrlDoms, UrlRef
  <2>3. r.f = url \/ r.f = Collect(url, c)
    BY <1>5
  <2> HIDE DEF url
  <2>4. DomInv(r.f) /\ r.f.ends = url.ends /\ r.f.doms = url.doms /\ r.f.cref = url.cref
    BY <2>2, <2>3, CollectDoms
  <2> QED BY <2>1, <2>2, <2>4 DEF Kept
<1> QED BY <1>1, <1>3, <1>4, <1>5 DEF TurnIs, r, ref, q

-----------------------------------------------------------------------------
(* A byte of a body.                                                       *)

(* The invariant of Fuz1, between bytes.                                   *)
Inv1(s) == DomInv(s) /\ Mid(s) /\ Begun(s, Decoded)

(* Not every letter of "http" is written as a character reference.         *)
SchemeHasLetter == ~({"h", "t", "p"} \subseteq Decoded)

Decoding(s, d) == s.cref \in {"dec", "hex", "name"} => d \in Decoded

LEMMA RefBegun ==
  ASSUME NEW s, Inv1(s), SchemeHasLetter, NEW c, NEW d, Decoding(s, d), NEW words \in BOOLEAN,
         s.cref # "idle", RefStep(s.cref, c, d).done
  PROVE  LET url == UrlByte([s EXCEPT !.cref = "idle"], RefStep(s.cref, c, d).c, words)
         IN  Mid(url) /\ Begun(url, Decoded)
<1> DEFINE q == [s EXCEPT !.cref = "idle"]
           v == RefStep(s.cref, c, d).c
<1>1. s.cref \in RefStates /\ "idle" \in RefStates
  BY DEF Inv1, DomInv, DomTypes, RefStates
<1>2. v = "#" \/ v \in Decoded
  BY <1>1, RefSteps DEF Decoding
<1>3. DomInv(q) /\ Mid(q) /\ Begun(q, Decoded)
  BY <1>1, WithRef DEF Inv1
<1> HIDE DEF q, v
<1>4. v \in Decoded \/ v \notin {"h", "t", "p"}
  BY <1>2
<1> QED BY <1>3, <1>4, UrlBegun DEF SchemeHasLetter, q, v

LEMMA RawBegun ==
  ASSUME NEW s, Inv1(s), SchemeHasLetter, NEW c, s.cref = "idle", NEW words \in BOOLEAN
  PROVE  LET url == UrlByte([s EXCEPT !.cref = "idle"], c, words)
         IN  Mid(url) /\ Begun(url, With(c, Decoded))
<1> DEFINE q == [s EXCEPT !.cref = "idle"]
<1>1. DomInv(q) /\ Mid(q) /\ Begun(q, Decoded)
  BY WithRef DEF Inv1, RefStates
<1> HIDE DEF q
<1>2. Decoded \subseteq With(c, Decoded) /\ (c \in With(c, Decoded) \/ c \notin {"h", "t", "p"})
  BY DEF With, Letters
<1>3. c = "/" => With(c, Decoded) = Decoded
  BY DEF With, Letters
<1>4. Begun(q, With(c, Decoded))
  BY <1>1, <1>2, MoreBegun
<1> QED BY <1>1, <1>2, <1>3, <1>4, UrlBegun DEF SchemeHasLetter, q

LEMMA TurnBegun ==
  ASSUME NEW s, Inv1(s), SchemeHasLetter, NEW c, c # "nl", NEW d, Decoding(s, d), NEW words \in BOOLEAN
  PROVE  Inv1(Turn1(s, c, words, d).f)
<1> DEFINE r    == Turn1(s, c, words, d)
           ref  == RefStep(s.cref, c, d)
           q    == [s EXCEPT !.cref = "idle"]
           refs == c = "&" \/ s.cref # "idle"
<1>1. TurnIs(s, r, c, words, d) /\ s.cref \in RefStates /\ DomInv(s) /\ Mid(s) /\ Begun(s, Decoded)
  BY Turns DEF Inv1, DomInv, DomTypes
<1>2. DomInv(r.f)
  BY <1>1, TurnDoms
<1>3. ref.st \in RefStates /\ (ref.done => s.cref # "idle")
  BY <1>1, RefSteps
<1> HIDE DEF r, ref
<1>4. Decoded \subseteq With(c, Decoded)
  BY DEF With
<1>5. CASE s.st = "idle" /\ c \notin {"h", "="} /\ r = [f |-> Collect(s, c), again |-> FALSE]
  <2>1. Begun(s, With(c, Decoded)) /\ r.f = Collect(s, c)
    BY <1>1, <1>4, <1>5, MoreBegun
  <2> QED BY <1>1, <1>2, <2>1, CollectBegun DEF Inv1, r
<1>6. CASE LET url == [s EXCEPT !.cref = ref.st] IN (r.f = url /\ url.panic) \/ r.f = Collect(url, c)
  <2> DEFINE url == [s EXCEPT !.cref = ref.st]
  <2>1. Mid(url) /\ Begun(url, Decoded)
    BY <1>1, <1>3, WithRef
  <2>2. (r.f = url /\ url.panic) \/ r.f = Collect(url, c)
    BY <1>6
  <2> HIDE DEF url
  <2>3. r.f = Collect(url, c) /\ Begun(url, With(c, Decoded))
    BY <1>4, <2>1, <2>2, MoreBegun DEF Mid, Lines
  <2> QED BY <1>2, <2>1, <2>3, CollectBegun DEF Inv1, r
<1>7. ASSUME refs => ref.done,
             LET url == UrlByte(q, IF refs THEN ref.c ELSE c, words)
             IN  \/ r.f = url /\ (s.st = "skip" \/ url.panic)
                 \/ r.f = Collect(url, c)
      PROVE  Inv1(r.f)
  <2> DEFINE v   == IF refs THEN ref.c ELSE c
             url == UrlByte(q, v, words)
  <2>1. Mid(url) /\ Begun(url, With(c, Decoded))
    <3>1. CASE refs
      <4>1. Mid(UrlByte(q, ref.c, words)) /\ Begun(UrlByte(q, ref.c, words), Decoded)
        BY <1>3, <1>7, <3>1, RefBegun DEF ref
      <4> HIDE DEF q
      <4> QED BY <1>4, <3>1, <4>1, MoreBegun
    <3>2. CASE ~refs
      <4>1. Mid(UrlByte(q, c, words)) /\ Begun(UrlByte(q, c, words), With(c, Decoded))
        BY <3>2, RawBegun
      <4> HIDE DEF q
      <4> QED BY <3>2, <4>1
    <3> QED BY <3>1, <3>2
  <2>2. s.st = "skip" => url.st \in {"idle", "skip"}
    <3>1. DomInv(q) /\ q.st = s.st
      BY <1>1, WithRef DEF RefStates
    <3> HIDE DEF q, v
    <3> QED BY <3>1, UrlRef
  <2>3. \/ r.f = url /\ (s.st = "skip" \/ url.panic)
        \/ r.f = Collect(url, c)
    BY <1>7
  <2> HIDE DEF url
  <2>4. CASE r.f = url /\ s.st = "skip"
    BY <1>2, <2>1, <2>2, <2>4, Outside DEF Inv1, Mid
  <2>5. CASE r.f = url /\ url.panic
    BY <2>1, <2>5 DEF Mid, Lines
  <2>6. CASE r.f = Collect(url, c)
    BY <1>2, <2>1, <2>6, CollectBegun DEF Inv1
  <2> QED BY <2>3, <2>4, <2>5, <2>6
<1> QED BY <1>1, <1>5, <1>6, <1>7 DEF TurnIs, r, ref, q

LEMMA NlTurn ==
  ASSUME NEW s, DomInv(s), Mid(s), s.cref = "idle" \/ s.st = "idle", NEW d, NEW words \in BOOLEAN
  PROVE  Inv1(Turn1(s, "nl", words, d).f)
<1> DEFINE r    == Turn1(s, "nl", words, d)
           q    == [s EXCEPT !.cref = "idle"]
<1>1. TurnIs(s, r, "nl", words, d) /\ s.cref \in RefStates
  BY Turns DEF DomInv, DomTypes
<1>2. DomInv(r.f)
  BY TurnDoms
<1>3. s.st = "idle" => r.f = Collect(s, "nl")
  BY DEF Turn1
<1> HIDE DEF r
<1>4. ASSUME NEW t, Lines(t), t.st \in {"idle", "skip"}, r.f = t \/ r.f = Collect(t, "nl") PROVE Inv1(r.f)
  <2>1. Mid(t) /\ Begun(t, Decoded)
    BY <1>4, Outside
  <2>2. Mid(Collect(t, "nl")) /\ Collect(t, "nl").st \in {"idle", "skip"}
    BY <1>4, <2>1, CollectNl
  <2>3. Mid(r.f) /\ Begun(r.f, Decoded)
    BY <1>4, <2>1, <2>2, Outside DEF Mid
  <2> QED BY <1>2, <2>3 DEF Inv1
<1>5. CASE s.st = "idle"
  BY <1>3, <1>4, <1>5 DEF Mid, r
<1>6. CASE s.cref = "idle" /\ s.st # "idle"
  <2> DEFINE url == UrlByte(q, "nl", words)
  <2>1. DomInv(q) /\ Mid(q)
    BY WithRef DEF RefStates
  <2>2. r.f = url \/ r.f = Collect(url, "nl")
    BY <1>1, <1>6 DEF TurnIs
  <2> HIDE DEF q
  <2>3. Lines(url) /\ url.st \in {"idle", "skip"}
    BY <2>1, NlEnds
  <2> HIDE DEF url
  <2> QED BY <1>4, <2>2, <2>3 DEF r
<1> QED BY <1>5, <1>6

(* A line end that ends a reference is read twice: after the first time the *)
(* invariant need not hold.                                                *)
LEMMA NlFirst ==
  ASSUME NEW s, Inv1(s), SchemeHasLetter, s.cref # "start", NEW d, Decoding(s, d), NEW words \in BOOLEAN
  PROVE  LET r == Turn1(s, "nl", words, d)
         IN  Inv1(r.f) \/ (DomInv(r.f) /\ Mid(r.f) /\ r.again /\ r.f.cref = "idle")
<1> DEFINE r   == Turn1(s, "nl", words, d)
           q   == [s EXCEPT !.cref = "idle"]
           ref == RefStep(s.cref, "nl", d)
<1>1. TurnIs(s, r, "nl", words, d) /\ s.cref \in RefStates /\ DomInv(s) /\ Mid(s)
  BY Turns DEF Inv1, DomInv, DomTypes
<1>2. CASE s.cref = "idle" \/ s.st = "idle"
  BY <1>1, <1>2, NlTurn
<1>3. CASE s.cref # "idle" /\ s.st # "idle"
  <2> DEFINE url == UrlByte(q, ref.c, words)
  <2>1. ref.done /\ ref.again
    BY <1>1, <1>3, RefSteps DEF RefStates
  <2>2. Mid(url)
    BY <1>3, <2>1, RefBegun
  <2>3. DomInv(r.f) /\ (r.again => r.f.cref = "idle")
    BY <1>1, TurnDoms
  <2> HIDE DEF r, ref
  <2>4. r.again /\ (r.f = url \/ r.f = Collect(url, "nl"))
    BY <1>1, <1>3, <2>1 DEF TurnIs, ref
  <2> HIDE DEF url
  <2>5. Mid(r.f)
    BY <2>2, <2>4, CollectNl
  <2> QED BY <2>3, <2>4, <2>5 DEF r
<1> QED BY <1>2, <1>3

LEMMA ReadBegun ==
  ASSUME NEW s, Inv1(s), SchemeHasLetter, NEW c, ~(c = "nl" /\ s.cref = "start"), NEW d, Decoding(s, d), NEW words \in BOOLEAN
  PROVE  Inv1(Read1(s, c, words, d))
<1> DEFINE once == Turn1(s, c, words, d)
<1>1. Read1(s, c, words, d) = IF once.again /\ ~once.f.panic THEN Turn1(once.f, c, words, d).f ELSE once.f
  BY DEF Read1
<1>2. DomInv(once.f) /\ (once.again => once.f.cref = "idle")
  BY TurnDoms DEF Inv1
<1>3. CASE c # "nl"
  <2>1. Inv1(once.f)
    BY <1>3, TurnBegun
  <2> HIDE DEF once
  <2>2. once.again => Inv1(Turn1(once.f, c, words, d).f)
    BY <1>2, <1>3, <2>1, TurnBegun DEF Decoding
  <2> QED BY <1>1, <2>1, <2>2
<1>4. CASE c = "nl"
  <2>1. Inv1(once.f) \/ (DomInv(once.f) /\ Mid(once.f) /\ once.again /\ once.f.cref = "idle")
    BY <1>4, NlFirst
  <2> HIDE DEF once
  <2>2. once.again => Inv1(Turn1(once.f, c, words, d).f)
    BY <1>2, <1>4, <2>1, NlTurn DEF Inv1
  <2>3. Mid(once.f) => ~once.f.panic
    BY DEF Mid, Lines
  <2> QED BY <1>1, <2>1, <2>2, <2>3
<1> QED BY <1>3, <1>4

LEMMA ReadDoms ==
  ASSUME NEW s, DomInv(s), NEW c, NEW d, NEW words \in BOOLEAN
  PROVE  DomInv(Read1(s, c, words, d)) /\ Kept(s, Read1(s, c, words, d), words)
<1> DEFINE once == Turn1(s, c, words, d)
<1>1. Read1(s, c, words, d) = IF once.again /\ ~once.f.panic THEN Turn1(once.f, c, words, d).f ELSE once.f
  BY DEF Read1
<1>2. DomInv(once.f) /\ Kept(s, once.f, words)
  BY TurnDoms
<1> HIDE DEF once
<1>3. DomInv(Turn1(once.f, c, words, d).f) /\ Kept(once.f, Turn1(once.f, c, words, d).f, words)
  BY <1>2, TurnDoms
<1>4. Kept(s, Turn1(once.f, c, words, d).f, words)
  BY <1>2, <1>3 DEF Kept
<1> QED BY <1>1, <1>2, <1>3, <1>4

LEMMA EndDoms ==
  ASSUME NEW s, DomInv(s) PROVE DomInv(EndChunk(s)) /\ EndChunk(s).ends = s.ends /\ EndChunk(s).doms = s.doms
                                /\ EndChunk(s).cref = s.cref
<1> DEFINE r == EndChunk(s)
<1>1. DOMAIN r = Fields1 /\ \A x \in Fields1 \ {"total", "dirty", "cp", "eol", "buf"} : r[x] = s[x]
  BY FrameEnd DEF DomInv, DomTypes
<1> HIDE DEF r
<1>2. SameDoms(s, r) /\ r.cref = s.cref /\ r.st = s.st
  BY <1>1 DEF SameDoms, Fields1
<1>3. DomInv(r)
  BY <1>1, <1>2, DomFrame DEF DomInv, DomTypes
<1> QED BY <1>2, <1>3 DEF SameDoms, r

-----------------------------------------------------------------------------
(* The two checksums together.                                             *)

(* final finds the first language with the most words: the counts do not   *)
(* exceed the bytes read, so that one of them is the greatest.             *)
LEMMA BestIs ==
  ASSUME NEW s, Counted(s)
  PROVE  Best(s) \in Langs /\ \A k \in Langs : s.wtotal[k] <= s.wtotal[Best(s)]
<1> DEFINE short == {s.btotal - s.wtotal[l] : l \in Langs}
<1>1. \A l \in Langs : s.wtotal[l] \in Nat /\ s.btotal \in Nat /\ s.btotal - s.wtotal[l] \in Nat
  BY WordsAssumption DEF Counted, CountTypes2, OpenWord, OpenTag
<1>2. PICK m \in short : \A n \in short : m <= n
  <2>1. short \in SUBSET Nat /\ short # {}
    BY <1>1, WordsAssumption
  <2> HIDE DEF short
  <2> QED BY <2>1, LeastNat
<1>3. PICK top \in Langs : m = s.btotal - s.wtotal[top]
  BY <1>2
<1>4. ASSUME NEW k \in Langs PROVE s.wtotal[k] <= s.wtotal[top]
  <2>1. s.btotal - s.wtotal[k] \in short
    OBVIOUS
  <2>2. m <= s.btotal - s.wtotal[k]
    BY <1>2, <2>1
  <2> QED BY <1>1, <1>3, <2>2
<1> DEFINE most == {l \in Langs : s.wtotal[l] = s.wtotal[top]}
<1>5. PICK l \in most : \A k \in most : l <= k
  <2>1. most \in SUBSET Nat /\ most # {}
    BY <1>3, WordsAssumption
  <2> HIDE DEF most
  <2> QED BY <2>1, LeastNat
<1>6. ASSUME NEW k \in Langs, k < l PROVE s.wtotal[k] < s.wtotal[l]
  <2>1. k \notin most
    BY <1>5, <1>6, WordsAssumption
  <2> QED BY <1>1, <1>4, <1>5, <2>1
<1>7. l \in Langs /\ \A k \in Langs : s.wtotal[k] <= s.wtotal[l]
  BY <1>4, <1>5
<1> QED BY <1>6, <1>7 DEF Best

(* A message starts with empty buffers and outside of a URL.               *)
LEMMA Fresh == Inv1(Fresh1) /\ Fresh1.ends = <<>> /\ Fresh1.doms = 0
<1> DEFINE r == Fresh1
<1>1. /\ DOMAIN r = Fields1 /\ r.cp = 0 /\ r.eol = -1 /\ r.total = 0 /\ r.dirty = FALSE /\ r.panic = FALSE
      /\ r.cref = "idle" /\ r.st = "idle" /\ r.ends = <<>> /\ r.domEnd = 0 /\ r.labelStart = 0 /\ r.punct = 0
      /\ r.dot1 = 0 /\ r.dot2 = 0 /\ r.doms = 0 /\ r.flags = {} /\ r.buf = Empty
  BY DEF Fresh1, Fields1
<1> HIDE DEF r
<1>2. Apart(<<>>) /\ DomStart(r) = 0
  BY <1>1 DEF Apart, DomStart, NameEnd
<1>3. DomInv(r)
  BY <1>1, <1>2, Sizes, States DEF DomInv, DomTypes, UrlStates, RefStates, InHost
<1>4. Lines(r)
  BY <1>1, BufSizes DEF Lines, Empty
<1>5. Inv1(r)
  BY <1>1, <1>3, <1>4, Outside DEF Inv1
<1> QED BY <1>1, <1>5 DEF r

LEMMA WordsType == Words \in BOOLEAN
<1>1. CASE chunk = "none"
  <2>1. Words = (English(g) >= MinWords)
    BY <1>1 DEF Words
  <2> QED BY <2>1
<1>2. CASE chunk # "none"
  <2>1. Words = (chunk = "words")
    BY <1>2 DEF Words
  <2> QED BY <2>1
<1> QED BY <1>1, <1>2

-----------------------------------------------------------------------------
(* The invariant of the line buffer and the URL.                           *)
BufferInv == Inv1(f) /\ Counted(g)

LEMMA InitBuffer == Init => BufferInv
BY Fresh, InitCounted DEF Init, BufferInv

LEMMA NextBuffer == ~NlInRef /\ SchemeHasLetter /\ BufferInv /\ [Next]_vars => BufferInv'
<1> SUFFICES ASSUME ~NlInRef, SchemeHasLetter, BufferInv, [Next]_vars PROVE BufferInv'
  OBVIOUS
<1>1. Counted(g)' /\ Counted(g)
  BY NextCounted DEF BufferInv
<1>2. Words \in BOOLEAN
  BY WordsType
<1>3. ASSUME NEW c, ~(c = "nl" /\ f.cref = "start"), NEW d \in Decodes(f.cref, Decoded) PROVE Inv1(Read1(f, c, Words, d))
  <2>1. Decoding(f, d)
    BY DEF Decoding, Decodes
  <2> QED BY <1>2, <1>3, <2>1, ReadBegun DEF BufferInv
<1>4. \A s : Inv1(s) => Inv1(EndChunk(s))
  BY EndDoms, EndBegun DEF Inv1
<1>5. CASE Byte
  <2>1. PICK c \in NextBytes : \E d \in Decodes(f.cref, Decoded) : f' = Read1(f, c, Words, d)
    BY <1>5 DEF Byte
  <2>2. ~(c = "nl" /\ f.cref = "start")
    BY <2>1 DEF NextBytes
  <2>3. Inv1(f')
    BY <1>3, <2>1, <2>2
  <2> QED BY <1>1, <2>3 DEF BufferInv, Inv1, DomInv, DomTypes, Mid, Lines, Offsets, Begun, Host, DomStart
<1>6. CASE LineEnd
  <2>1. PICK d \in Decodes(f.cref, Decoded) : f' = EndChunk(Read1(f, "nl", Words, d))
    BY <1>6 DEF LineEnd
  <2>2. f.cref # "start"
    BY <1>6 DEF LineEnd
  <2>3. Inv1(f')
    BY <1>3, <1>4, <2>1, <2>2
  <2> QED BY <1>1, <2>3 DEF BufferInv, Inv1, DomInv, DomTypes, Mid, Lines, Offsets, Begun, Host, DomStart
<1>7. CASE Chunk
  <2>1. Inv1(f')
    BY <1>4, <1>7 DEF Chunk, BufferInv
  <2> QED BY <1>1, <2>1 DEF BufferInv, Inv1, DomInv, DomTypes, Mid, Lines, Offsets, Begun, Host, DomStart
<1>8. CASE UNCHANGED vars
  BY <1>8 DEF vars, BufferInv, Inv1, DomInv, DomTypes, Mid, Lines, Offsets, Begun, Host, DomStart
<1> QED BY <1>5, <1>6, <1>7, <1>8 DEF Next, Boundary, Finish

(* No slice of buf or domsBuf is out of range, whatever is read and however *)
(* it is cut into chunks (fuz1, ckURLStep, urlHostEnd).                    *)
THEOREM BufferStaysInBounds ==
  ASSUME ~NlInRef, SchemeHasLetter PROVE Spec => []BufferBounds
<1>1. BufferInv => BufferBounds
  <2> SUFFICES ASSUME BufferInv PROVE BufferBounds
    OBVIOUS
  <2>1. DomInv(f) /\ Mid(f) /\ Begun(f, Decoded) /\ Lines(f) /\ Offsets(f)
    BY DEF BufferInv, Inv1, Mid
  <2>2. /\ ~f.panic /\ f.cp \in 0 .. BufSize - 1 /\ f.eol \in -1 .. f.cp /\ f.total \in 0 .. MaxSum
        /\ f.cref \in RefStates /\ f.st \in SchemeStates \cup {"slash3start", "slash3", "skip"}
        /\ DomStart(f) <= f.domEnd /\ f.domEnd <= DomsSize
    BY <2>1 DEF Lines, DomInv, DomTypes, UrlStates
  <2>3. ASSUME f.st = "slash3"
        PROVE  /\ f.domEnd < DomsSize
               /\ f.eol <= f.start /\ f.start \in 0 .. f.cp
               /\ f.tld = -1 \/ f.tld \in f.start .. f.cp
               /\ f.sld = -1 \/ f.sld \in f.start .. f.tld
               /\ f.dot2 # 0 => f.sld # -1 /\ f.dot2 \in DomStart(f) .. f.dot1
               /\ f.labelStart \in DomStart(f) .. f.domEnd
    <3>1. Host(f) /\ DomStart(f) <= HostMaxSave /\ DomStart(f) \in Nat /\ f.domEnd \in Nat /\ f.dot1 \in Nat /\ f.dot2 \in Nat
      BY <2>1, <2>3, DomStartType DEF DomInv, DomTypes, InHost
    <3>2. f.domEnd < DomsSize
      BY <3>1, Sizes DEF Host
    <3>3. f.start \in 0 .. f.cp /\ f.eol < f.start
      BY <2>1, <2>3 DEF Offsets, Begun
    <3>4. f.eol <= f.start
      BY <2>2, <3>3
    <3>5. f.tld = -1 \/ f.tld \in f.start .. f.cp
      BY <2>1, <2>3 DEF Offsets
    <3>6. (f.sld = -1 \/ f.sld \in f.start .. f.tld) /\ (f.dot2 # 0 => f.sld # -1)
      BY <2>1, <2>3 DEF Offsets
    <3>7. f.dot2 # 0 => f.dot2 \in DomStart(f) .. f.dot1
      BY <3>1 DEF Host
    <3>8. f.labelStart \in DomStart(f) .. f.domEnd
      BY <3>1 DEF Host
    <3> QED BY <3>2, <3>3, <3>4, <3>5, <3>6, <3>7, <3>8
  <2> QED BY <2>2, <2>3 DEF BufferBounds
<1> QED BY InitBuffer, NextBuffer, <1>1, PTL DEF Spec

(* Only letters reach the sum, so that a part of buf that was cleared never *)
(* does (addSum).                                                          *)
THEOREM LettersAreSummed ==
  ASSUME ~NlInRef, SchemeHasLetter PROVE Spec => []OnlyLettersSummed
<1>1. BufferInv => OnlyLettersSummed
  BY DEF BufferInv, Inv1, Mid, Lines, OnlyLettersSummed
<1> QED BY InitBuffer, NextBuffer, <1>1, PTL DEF Spec

-----------------------------------------------------------------------------
(* The invariant of the host names: one is there, unless none was counted  *)
(* or the words suffice without it.                                        *)
NamesInv ==
  /\ DomInv(f) /\ Counted(g)
  /\ f.ends # <<>> \/ f.doms = 0 \/ English(g) >= MinWords
  /\ chunk = "words" => English(g) >= MinWords

LEMMA InitNames == Init => NamesInv
BY Fresh, InitCounted DEF Init, NamesInv, Inv1

LEMMA NextNames == NamesInv /\ [Next]_vars => NamesInv'
<1> SUFFICES ASSUME NamesInv, [Next]_vars PROVE NamesInv'
  OBVIOUS
<1>1. Counted(g') /\ Counted(g)
  <2>1. Counted(g)'
    BY NextCounted DEF NamesInv
  <2> QED BY <2>1 DEF NamesInv, Counted, CountTypes2, OpenWord, OpenTag
<1>2. English(g) >= MinWords => English(g') >= MinWords
  <2>1. Grown(g, g')
    <3>1. CASE Byte
      <4>1. PICK c, d : g' = IF g.ct = "binary" THEN g ELSE Read2(g, c, d)
        BY <3>1 DEF Byte
      <4>2. Grown(g, g) /\ Grown(g, Read2(g, c, d))
        BY <1>1, ReadCounted DEF Counting, Grown, Counted, CountTypes2
      <4> QED BY <4>1, <4>2
    <3>2. CASE Chunk \/ UNCHANGED vars
      BY <1>1, <3>2 DEF Chunk, vars, Grown, Counted, CountTypes2
    <3>3. CASE Boundary
      <4>1. PICK d \in Decodes(g.cref, Decoded), e \in Entities[kind] : g' = NextEntity(Read2(g, "nl", d), e.ct, e.cset)
        BY <3>3 DEF Boundary
      <4>2. Counting(g, Read2(g, "nl", d))
        BY <1>1, ReadCounted
      <4>3. Counting(Read2(g, "nl", d), g')
        BY <4>1, <4>2, EntityCounted DEF Counting
      <4> QED BY <1>1, <4>2, <4>3 DEF Counting, Grown, Counted, CountTypes2
    <3>4. CASE Finish
      BY <1>1, <3>4, ReadCounted DEF Finish, Counting
    <3> QED BY <3>1, <3>2, <3>3, <3>4 DEF Next
  <2> QED BY <1>1, <2>1, WordsAssumption DEF Grown, English, Counted, CountTypes2
<1>3. Words \in BOOLEAN /\ (Words => English(g) >= MinWords)
  BY WordsType DEF Words, NamesInv
<1>4. /\ DomInv(f')
      /\ f'.ends # <<>> \/ Words \/ (f.ends = <<>> /\ f'.doms = f.doms)
  <2>1. CASE Byte
    <3>1. PICK c, d : f' = Read1(f, c, Words, d)
      BY <2>1 DEF Byte
    <3> QED BY <1>3, <3>1, ReadDoms DEF Kept, NamesInv
  <2>2. CASE LineEnd
    <3>1. PICK d : f' = EndChunk(Read1(f, "nl", Words, d))
      BY <2>2 DEF LineEnd
    <3>2. DomInv(Read1(f, "nl", Words, d)) /\ Kept(f, Read1(f, "nl", Words, d), Words)
      BY <1>3, ReadDoms DEF NamesInv
    <3> QED BY <3>1, <3>2, EndDoms DEF Kept
  <2>3. CASE Chunk
    BY <2>3, EndDoms DEF Chunk, NamesInv
  <2>4. CASE UNCHANGED vars
    BY <2>4 DEF vars, NamesInv
  <2> QED BY <2>1, <2>2, <2>3, <2>4 DEF Next, Boundary, Finish
<1>5. f'.ends # <<>> \/ f'.doms = 0 \/ English(g') >= MinWords
  BY <1>2, <1>3, <1>4 DEF NamesInv
<1>6. chunk' = "words" => English(g') >= MinWords
  BY <1>2, <1>3 DEF Next, Byte, Chunk, Boundary, Finish, LineEnd, vars, NamesInv
<1>7. DomInv(f)' /\ Counted(g)'
  BY <1>4, NextCounted DEF NamesInv, DomInv, DomTypes, Host, DomStart
<1> QED BY <1>5, <1>6, <1>7 DEF NamesInv

(* final falls back on host names only where domsBuf holds one: names leave *)
(* it, and it is emptied only when there are words enough, of which there  *)
(* are never fewer afterwards (ckURLStep, final).                          *)
THEOREM NamesAreThereForFallback == Spec => []NamesForFallback
<1>1. NamesInv => NamesForFallback
  <2> SUFFICES ASSUME NamesInv, NamesStandIn(g, f.doms) PROVE DomStart(f) > 1
    BY DEF NamesForFallback
  <2>1. /\ g.wtotal[Best(g)] \in Nat /\ English(g) \in Nat /\ English(g) <= g.wtotal[Best(g)]
        /\ MinWords \in Nat /\ MinWords \div 2 \in Int
    <3>1. Best(g) \in Langs /\ g.wtotal[1] <= g.wtotal[Best(g)] /\ Counted(g)
      BY BestIs, WordsAssumption DEF NamesInv
    <3> QED BY <3>1, WordsAssumption DEF Counted, CountTypes2, English
  <2>2. ~(g.wtotal[Best(g)] >= MinWords) /\ g.wtotal[Best(g)] + f.doms * (MinWords \div 2) >= MinWords
    BY DEF NamesStandIn, EnoughWords
  <2>3. ~(English(g) >= MinWords)
    BY <2>1, <2>2
  <2>4. f.doms # 0
    BY <2>1, <2>2
  <2>5. f.ends # <<>> /\ Apart(f.ends)
    BY <2>3, <2>4 DEF NamesInv, DomInv, DomTypes
  <2>6. Len(f.ends) \in Nat /\ Len(f.ends) # 0
    BY <2>5 DEF Apart
  <2>7. NameEnd(f.ends, 0) + 2 <= NameEnd(f.ends, Len(f.ends)) /\ NameEnd(f.ends, 0) = 0
    BY <2>5, <2>6 DEF Apart, NameEnd
  <2>8. DomStart(f) \in Nat
    BY <2>5, DomStartType
  <2> QED BY <2>7, <2>8 DEF DomStart
<1> QED BY InitNames, NextNames, <1>1, PTL DEF Spec
=============================================================================
