-------------------------------- MODULE Fuzzy --------------------------------
(***************************************************************************)
(* The three body checksums fed with a body (decodeSum in dcc/mime.go, and *)
(* computeBody in dcc/cks.go): chunk after chunk goes to BodySum, to Fuz1, *)
(* then to Fuz2.  Fuz1 asks how many words Fuz2 has found in the chunks    *)
(* before, and Fuz2 falls back on the host names that Fuz1 has collected.  *)
(*                                                                         *)
(* A step is one byte; chunks end where the environment says.  A body is   *)
(* of one kind: its alphabets outside of URLs, in them, and the bytes that *)
(* break the "http://" of one, so that TLC reaches long inputs.            *)
(***************************************************************************)
EXTENDS BodySum, Fuz1, Fuz2, Select

CONSTANTS
  Kinds,       \* BOUND: the kinds of bodies
  Alphabet,    \* BOUND: Alphabet[k].text, .host and .break, and what is followed in text
  Entities,    \* BOUND: Entities[k]: the content types and charsets of entities
  MaxBytes,    \* BOUND: MaxBytes[k], the length of a body
  Decoded,     \* BOUND: what character references stand for
  NlInRef      \* BOUND: may a line end right after "&"?

VARIABLES
  kind,        \* the kind of body
  b,           \* BodySum, in bodies that are followed for it
  f,           \* Fuz1, and the URL it is in
  g,           \* Fuz2
  chunk,       \* "none" between chunks, else whether Fuz2 had words enough at its start
  read,        \* the number of bytes read
  done,        \* computeBody has fed the last line end
  host,        \* the bytes since the "//" or "@" of the URL, in all
  text         \* the bytes that the checksum that is followed was given

vars == <<kind, b, f, g, chunk, read, done, host, text>>

Init ==
  /\ kind \in Kinds
  /\ b = FreshBody /\ f = Fresh1 /\ \E e \in Entities[kind] : g = NextEntity(Fresh2, e.ct, e.cset)
  /\ chunk = "none" /\ read = 0 /\ done = FALSE
  /\ host = <<>> /\ text = <<>>

Words == IF chunk = "none" THEN English(g) >= MinWords ELSE chunk = "words"

(* The bytes that may come next.                                           *)
NextBytes ==
  LET abc == Alphabet[kind]
      all == CASE f.st = "idle" -> abc.text
               [] f.st \in SchemeStates \ {"idle"} -> abc.break \cup {s[2] : s \in {x \in Scheme : x[1] = f.st}}
               [] OTHER -> abc.host
  IN  IF ~NlInRef /\ f.cref = "start" THEN all \ {"nl"} ELSE all

(* Bytes given to BodySum, and bytes given to Fuz2.                        *)
Follow(bytes, bytes2) ==
  CASE Alphabet[kind].follow = "body"  -> b' = Body0(b, bytes) /\ text' = text \o bytes
    [] Alphabet[kind].follow = "words" -> text' = text \o bytes2 /\ UNCHANGED b
    [] Alphabet[kind].follow = "none"  -> UNCHANGED <<b, text>>

InHost(st) == st \in {"slash3start", "slash3"}

(* One byte of a chunk of decodeSum.                                       *)
Byte ==
  /\ ~done /\ ~f.panic /\ read < MaxBytes[kind] /\ read' = read + 1
  /\ \E c \in NextBytes :
       /\ \E d \in Decodes(f.cref, Decoded) : f' = Read1(f, c, Words, d)
       /\ \E d \in Decodes(g.cref, Decoded) : g' = IF g.ct = "binary" THEN g ELSE Read2(g, c, d)
       /\ host' = IF ~InHost(f'.st) \/ (f'.st = "slash3start" /\ f'.cref = "idle") THEN <<>> ELSE Append(host, c)
       /\ Follow(<<c>>, <<c>>)
  /\ chunk' = IF Words THEN "words" ELSE "few"
  /\ UNCHANGED <<kind, done>>

(* The end of a chunk of decodeSum.                                        *)
Chunk ==
  /\ ~done /\ ~f.panic /\ chunk # "none" /\ chunk' = "none"
  /\ f' = EndChunk(f)
  /\ UNCHANGED <<kind, b, g, read, done, host, text>>

(* A line end is fed to both fuzzy checksums.                              *)
LineEnd ==
  /\ ~done /\ ~f.panic /\ chunk = "none" /\ (NlInRef \/ f.cref # "start")
  /\ host' = <<>>
  /\ \E d \in Decodes(f.cref, Decoded) : f' = EndChunk(Read1(f, "nl", Words, d))

(* decodeSum of a boundary, of which BodySum gets all, and decodersInit    *)
(* and the header of the next entity, which says what the entity is.       *)
Boundary ==
  /\ read < MaxBytes[kind] /\ read' = read + 1
  /\ LineEnd
  /\ \E d \in Decodes(g.cref, Decoded), e \in Entities[kind] :
       g' = NextEntity(Read2(g, "nl", d), e.ct, e.cset)
  /\ Follow(<<"-", "a", "nl">>, <<"nl">>)
  /\ UNCHANGED <<kind, chunk, done>>

(* computeBody: a last line end, which BodySum does not get.               *)
Finish ==
  /\ LineEnd
  /\ \E d \in Decodes(g.cref, Decoded) : g' = Read2(g, "nl", d)
  /\ done' = TRUE
  /\ Follow(<<>>, <<"nl">>)
  /\ UNCHANGED <<kind, chunk, read>>

Next == Byte \/ Chunk \/ Boundary \/ Finish

Spec == Init /\ [][Next]_vars

-----------------------------------------------------------------------------
(* The fields hold values of their types, and every index lies where the   *)
(* code may use it: no slice of buf or domsBuf is ever out of range (the   *)
(* arrays of fuz1State and ckURL), and the sum stays within its limit      *)
(* (addSum).                                                               *)
BufferBounds ==
  /\ ~f.panic
  /\ f.cp \in 0 .. BufSize - 1 /\ f.eol \in -1 .. f.cp /\ f.total \in 0 .. MaxSum
  /\ f.cref \in RefStates /\ f.st \in SchemeStates \cup {"slash3start", "slash3", "skip"}
  /\ DomStart(f) <= f.domEnd /\ f.domEnd <= DomsSize
  /\ f.st = "slash3" =>
       /\ f.domEnd < DomsSize
       /\ f.eol <= f.start /\ f.start \in 0 .. f.cp
       /\ f.tld = -1 \/ f.tld \in f.start .. f.cp
       /\ f.sld = -1 \/ f.sld \in f.start .. f.tld
       /\ f.dot2 # 0 => f.sld # -1 /\ f.dot2 \in DomStart(f) .. f.dot1
       /\ f.labelStart \in DomStart(f) .. f.domEnd

(* Only ASCII letters are summed: white space, digits and punctuation are  *)
(* not, and never a byte of buf that was cleared (the comment on Fuz1).    *)
OnlyLettersSummed == ~f.dirty

(* The reference for urlHostEnd: the labels of a host that is made of      *)
(* letters and single dots, a dot at its end not counted.                  *)
PlainHost(h) ==
  /\ \A i \in DOMAIN h : h[i] \in Letters \cup {"."}
  /\ \A i \in DOMAIN h : i > 1 => ~(h[i] = "." /\ h[i - 1] = ".")
Dots(h) == {i \in 1 .. Len(h) - 1 : h[i] = "."}
LastLabels(h) ==
  LET upper == Dots(h) \ {Max(Dots(h) \cup {0})}
  IN  Select(h, {i \in Max(upper \cup {0}) + 1 .. Len(h) : h[i] # "."})

(* When a URL's host ends, what stays of it in the line buffer are the     *)
(* letters of its last two labels, however the text before it was flushed  *)
(* or moved, unless no line end is in the buffer, or the buffer itself is  *)
(* emptied (urlHostEnd, and the comment on Fuz1: third-level labels are    *)
(* removed).                                                               *)
LastTwoLabelsStay ==
  [][(/\ f.st = "slash3" /\ f'.doms > f.doms /\ PlainHost(host)
      /\ f.eol # -1 /\ f'.cp >= f.start)
     => Slice(f', f.start, f'.cp) = LastLabels(host)]_vars

(* A word of the text: a run of letters with white space, or the start of  *)
(* the body, before it, and white space behind it.                         *)
WordsOf(t, words) ==
  {i \in DOMAIN t :
     /\ i = 1 \/ Folded(t[i - 1]) = "space"
     /\ \E w \in words :
          /\ i + Len(w) <= Len(t) /\ SubSeq(t, i, i + Len(w) - 1) = w
          /\ Folded(t[i + Len(w)]) = "space"}

(* The words counted are those of the dictionary that stand in the text,   *)
(* each once, whole, and whatever the chunks and the junk around them      *)
(* (fuz2, skipWord, junk, addWord).                                        *)
WordsAreWhole ==
  Alphabet[kind].follow = "words" => English(g) = Cardinality(WordsOf(text, {w \in Dict[1] : Len(w) \in MinLen .. WordMax}))

(* The reference for BodySum: every byte that is not white space, "=", or  *)
(* the ">" of a line that starts with ">From".                             *)
FromLine(t, i) == (i = 1 \/ t[i - 1] = "nl") /\ IsPrefix(Tail(FromSeq), SubSeq(t, i, Len(t)))
SummedIn(t)    == {i \in DOMAIN t : t[i] \notin Unsummed /\ ~FromLine(t, i)}
BodyText(t)    == Select(t, SummedIn(t))

(* The body checksum sums what it should of a body, however it is cut into *)
(* chunks and entities, up to a line's start that may yet become ">From"   *)
(* (body0).                                                                *)
BodySumsText == Alphabet[kind].follow = "body" => b.sum \o Pending(b) = BodyText(text)

(* What is summed as words or skipped as filler was counted as text, so    *)
(* that the share of it that final computes never exceeds the whole (fuz2, *)
(* whatever tags are open, cut short or too long).                         *)
CountsAddUp == \A l \in Langs : g.wsummed[l] + g.xsummed <= g.btotal

(* When host names stand in for missing words, there is a host name: the   *)
(* count of names and their buffer are kept by Fuz1, which drops names     *)
(* from the buffer, and read by Fuz2 (ckURLStep, final).                   *)
NamesForFallback == NamesStandIn(g, f.doms) => DomStart(f) > 1
=============================================================================
