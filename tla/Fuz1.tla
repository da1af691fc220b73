--------------------------------- MODULE Fuz1 ---------------------------------
(***************************************************************************)
(* The first fuzzy checksum (dcc/fuz1.go): letters are collected in a line *)
(* buffer, greeting lines dropped, and of a URL only its host name kept,   *)
(* of which urlHostEnd removes all but the last two labels when the URL    *)
(* ends.  The host names are collected a second time in domsBuf, for the   *)
(* second fuzzy checksum.                                                  *)
(*                                                                         *)
(* The state is a record f that holds fuz1State and ckURL; each function   *)
(* of the source is an operator from a state and a byte to a state.  Of    *)
(* domsBuf only offsets and lengths are kept: an offset is 0 when it is    *)
(* unset, as in the code, and an index into buf is -1.  punyencode only    *)
(* clears the urlIDN flag here: it replaces a label that decodes as UTF-8, *)
(* and a continuation byte ends the host before it gets into the label.    *)
(* The words argument is fz2WordCount() >= fuz2MinWords.                   *)
(***************************************************************************)
EXTENDS CharRef, Integers, Sequences, SequencesExt

CONSTANTS
  MaxLine,     \* fuz1MaxLine
  BufSize,     \* fuz1BufSize
  HttpsLen,    \* httpsLen
  MaxSum,      \* maxFuz1Len
  HostMax,     \* urlHostMax
  Failsafe,    \* urlFailsafe
  Greetings    \* the words of dearSucker

ASSUME SizesAssumption ==
  /\ {MaxLine, BufSize, HttpsLen, MaxSum, HostMax, Failsafe} \subseteq Nat \ {0}
  /\ HostMax < BufSize /\ MaxLine + HttpsLen < BufSize

HostMaxSave == 1 + HostMax
DomsSize    == 2 * HostMaxSave

Empty == [i \in 0 .. BufSize - 1 |-> "nul"]

Fresh1 ==
  [buf |-> Empty, cp |-> 0, eol |-> -1, total |-> 0, dirty |-> FALSE, panic |-> FALSE,
   cref |-> "idle", st |-> "idle", start |-> -1, tld |-> -1, sld |-> -1, urlTotal |-> 0,
   ends |-> <<>>, domEnd |-> 0, labelStart |-> 0, punct |-> 0, dot1 |-> 0, dot2 |-> 0,
   doms |-> 0, flags |-> {}]

(* ends holds where each host name in domsBuf ends, its NUL included: the  *)
(* next name starts where the last one ends.                               *)
NameEnd(ends, k) == IF k = 0 THEN 0 ELSE ends[k]
DomStart(f)      == NameEnd(f.ends, Len(f.ends))

(* The bytes of buf from index i up to j, j excluded.                      *)
Slice(f, i, j) == [k \in 1 .. j - i |-> f.buf[i + k - 1]]

-----------------------------------------------------------------------------
(* Slip: the limit is not applied.                                         *)
AddSumAll(f, n) ==
  [f EXCEPT !.total = @ + n, !.dirty = @ \/ \E i \in 0 .. n - 1 : f.buf[i] \notin Letters]

(* addSum: n bytes go to the MD5 sum, as far as the limit allows; dirty    *)
(* says that a byte that was no letter did.                                *)
AddSum(f, n) ==
  LET m == IF f.total + n > MaxSum THEN MaxSum - f.total ELSE n
  IN  [f EXCEPT !.total = @ + m, !.dirty = @ \/ \E i \in 0 .. m - 1 : f.buf[i] \notin Letters]

Flush(f) == [AddSum(f, f.cp) EXCEPT !.cp = 0, !.eol = -1, !.buf = Empty]

(* Slip: what follows the whole lines is not moved to the front.           *)
MakeRoomUnmoved(f) ==
  IF f.cp < BufSize - HostMax THEN f
  ELSE IF f.eol = -1 THEN Flush(f)
  ELSE [AddSum(f, f.eol) EXCEPT !.cp = @ - f.eol, !.eol = -1, !.buf = Empty]

(* The loop after urlResCkSpace: whole lines go first, then the rest, so   *)
(* that a host name of HostMax bytes fits.                                 *)
MakeRoom(f) ==
  LET left  == f.cp - f.eol
      moved == [AddSum(f, f.eol) EXCEPT !.cp = left, !.eol = -1,
                  !.buf = [i \in DOMAIN f.buf |-> IF i < left THEN f.buf[f.eol + i] ELSE "nul"]]
  IN  IF f.cp < BufSize - HostMax THEN f
      ELSE IF f.eol = -1 THEN Flush(f)
      ELSE IF left < BufSize - HostMax THEN moved ELSE Flush(moved)

-----------------------------------------------------------------------------
(* resetDomsBuf *)
ResetDoms(f, from) ==
  [f EXCEPT !.start = from, !.tld = -1, !.sld = -1, !.domEnd = DomStart(f), !.labelStart = DomStart(f),
            !.punct = 0, !.dot1 = 0, !.dot2 = 0, !.urlTotal = 0, !.flags = @ \ {"idn", "dot"}]

(* Slip: the test comes after the byte is stored.                          *)
HostSaveLate(f) ==
  IF f.domEnd - DomStart(f) > HostMax + 1
  THEN [ResetDoms(f, -1) EXCEPT !.flags = @ \cup {"long"}, !.st = "idle"]
  ELSE IF "long" \in f.flags THEN f ELSE [f EXCEPT !.domEnd = @ + 1]

(* urlHostSave: one more byte of the host name.                            *)
HostSave(f) ==
  IF f.domEnd - DomStart(f) >= HostMax
  THEN [ResetDoms(f, -1) EXCEPT !.flags = @ \cup {"long"}, !.st = "idle"]
  ELSE IF "long" \in f.flags THEN f ELSE [f EXCEPT !.domEnd = @ + 1]

(* Slip: the top-level label is taken for the second-level one.            *)
SaveTop(f) ==
  LET dotted == HostSave([f EXCEPT !.flags = @ \ {"dot", "idn"}])
      label  == [dotted EXCEPT !.dot2 = dotted.dot1, !.dot1 = dotted.domEnd,
                               !.labelStart = dotted.domEnd, !.sld = f.cp, !.tld = f.cp]
  IN  IF f.punct # 0 THEN f ELSE HostSave(IF "dot" \in f.flags THEN label ELSE f)

(* The end of case urlSlash3: a dot that was held back starts a new label, *)
(* and the byte belongs to the host unless punctuation has ended it.       *)
Save(f) ==
  LET dotted == HostSave([f EXCEPT !.flags = @ \ {"dot", "idn"}])
      label  == [dotted EXCEPT !.dot2 = dotted.dot1, !.dot1 = dotted.domEnd,
                               !.labelStart = dotted.domEnd, !.sld = dotted.tld, !.tld = f.cp]
  IN  IF f.punct # 0 THEN f ELSE HostSave(IF "dot" \in f.flags THEN label ELSE f)

(* Removing the labels before the last two from buf.  Without a line end   *)
(* in buf the whole host goes.  A slice out of range is a panic.           *)
DropLabels(f) ==
  LET length == f.cp - f.sld
      room   == f.start >= 0 /\ f.sld >= 0 /\ length >= 0 /\ f.start + length <= BufSize
  IN  CASE f.eol = -1 -> [f EXCEPT !.cp = f.start]
        [] f.eol # -1 /\ room ->
             [f EXCEPT !.buf = [i \in DOMAIN f.buf |->
                                  IF i \in f.start .. f.start + length - 1
                                  THEN f.buf[f.sld + i - f.start] ELSE f.buf[i]],
                       !.eol = IF f.eol >= f.cp THEN f.start + length ELSE f.eol,
                       !.cp = f.start + length]
        [] f.eol # -1 /\ ~room -> [f EXCEPT !.panic = TRUE]

(* urlHostEnd: the name is complete, its NUL included.                     *)
HostEnd(f, words) ==
  LET end  == 1 + IF f.punct # 0 THEN f.punct ELSE f.domEnd
      trim == IF f.dot2 # 0 /\ ~words THEN f.dot2 ELSE DomStart(f)
      cut  == IF f.dot2 # 0 THEN DropLabels(f) ELSE f
  IN  IF end - 1 <= DomStart(f) \/ "long" \in f.flags
      THEN [f EXCEPT !.domEnd = end - 1]
      ELSE [cut EXCEPT !.flags = @ \ {"idn"}, !.doms = @ + 1, !.domEnd = DomStart(f) + end - trim,
                       !.ends = Append(@, DomStart(f) + end - trim)]

-----------------------------------------------------------------------------
Quoted(f) == f.flags \cap {"sq", "dq"} # {}

(* Where a URL goes on after byte u has ended its host.                    *)
AfterHost(f, u) ==
  IF \/ u = "/"
     \/ u = "dq" /\ "sq" \in f.flags
     \/ u = "sq" /\ "dq" \in f.flags
     \/ u \notin {"dq", "sq"} /\ Quoted(f)
  THEN "skip" ELSE "idle"

EndsUrl(f, u) ==
  \/ u \in {"sp", "nl"}
  \/ u = "dq" /\ "sq" \notin f.flags
  \/ u = "sq" /\ "dq" \notin f.flags
  \/ u = ">" /\ ~Quoted(f)
  \/ u = "nb" /\ "idn" \notin f.flags

(* The bytes that separate a host from a port or a user from a password.   *)
Params(f) == {":"} \cup IF "user" \in f.flags THEN {} ELSE {";", "&", "=", "!"}

(* case urlSlash3.  After a user name the host starts anew.                *)
HostByte(f, u, words) ==
  IF f.urlTotal > Failsafe THEN [f EXCEPT !.st = "idle"]
  ELSE CASE u \in Letters \cup Digits \cup {"-"} -> Save(f)
         [] u = "." /\ f.punct = 0 -> IF "dot" \in f.flags THEN [f EXCEPT !.punct = f.domEnd]
                                      ELSE [f EXCEPT !.flags = @ \cup {"dot"}]
         [] u = "@" /\ "user" \notin f.flags ->
              [f EXCEPT !.flags = @ \cup {"user"}, !.cp = f.start, !.st = "slash3start"]
         [] u \in Params(f) -> Save([f EXCEPT !.punct = IF @ = 0 THEN f.domEnd ELSE @])
         [] u = "hi" /\ f.punct = 0 -> Save([f EXCEPT !.flags = @ \cup {"idn"}])
         [] OTHER -> [HostEnd(f, words) EXCEPT !.st = AfterHost(f, u)]

(* The states before the host, with the byte that leads to the next one.   *)
Scheme ==
  {<<"idle", "h", "t1">>, <<"idle", "=", "quote">>, <<"quote", "h", "t1">>, <<"quote", "dq", "qh">>,
   <<"quote", "sq", "qh">>, <<"qh", "h", "t1">>, <<"t1", "t", "t2">>, <<"t2", "t", "p">>, <<"p", "p", "s">>,
   <<"s", "s", "colon">>, <<"s", ":", "slash1">>, <<"colon", ":", "slash1">>,
   <<"slash1", "/", "slash2">>, <<"slash2", "/", "slash3start">>}
SchemeStates == {step[1] : step \in Scheme}

SchemeByte(f, u) ==
  LET next == {step[3] : step \in {s \in Scheme : s[1] = f.st /\ s[2] = u}}
  IN  [f EXCEPT !.st = IF next = {} THEN "idle" ELSE CHOOSE s \in next : TRUE,
                !.flags = CASE f.st = "idle" /\ next # {} -> {}
                            [] f.st = "quote" /\ u = "dq" -> @ \cup {"dq"}
                            [] f.st = "quote" /\ u = "sq" -> {"sq"}
                            [] OTHER -> @]

(* Slip: domsBuf is emptied whether or not there are words enough.         *)
EmptyNames(f, words) == [f EXCEPT !.ends = <<>>]

(* Case urlSlash2 makes room in domsBuf: it is emptied when there are      *)
(* words enough without it, else the oldest names leave it.                *)
MakeRoomForName(f, words) ==
  LET fits == {k \in 0 .. Len(f.ends) : DomStart(f) - NameEnd(f.ends, k) <= DomsSize - HostMaxSave}
      drop == CHOOSE k \in fits : \A j \in fits : k <= j
      kept == [k \in 1 .. Len(f.ends) - drop |-> f.ends[drop + k] - NameEnd(f.ends, drop)]
  IN  [f EXCEPT !.ends = IF words THEN <<>> ELSE kept]

(* The switch of ckURLStep on byte u.                                      *)
UrlByte(f, u, words) ==
  CASE f.st \in SchemeStates /\ ~(f.st = "slash2" /\ u = "/") -> SchemeByte(f, u)
    [] f.st = "slash2" /\ u = "/" -> MakeRoom(MakeRoomForName(SchemeByte(f, u), words))
    [] f.st \in {"slash3start", "slash3"} ->
         LET host == IF f.st = "slash3start" THEN [ResetDoms(f, f.cp) EXCEPT !.st = "slash3"] ELSE f
         IN  HostByte([host EXCEPT !.urlTotal = @ + 1], u, words)
    [] f.st = "skip" ->
         [f EXCEPT !.urlTotal = @ + 1,
                   !.st = IF EndsUrl(f, u) \/ f.urlTotal + 1 > Failsafe THEN "idle" ELSE "skip"]

(* dearSucker *)
IsGreeting(line) ==
  \E g \in Greetings : Len(line) >= Len(g) + 1 /\ SubSeq(line, 1, Len(g)) = g

(* The rest of the loop of fuz1: a letter is collected; a line end drops a *)
(* greeting, or empties a buffer that is nearly full, or is noted.         *)
Collect(f, c) ==
  LET full == f.cp + 1 = BufSize
      put  == [f EXCEPT !.buf[f.cp] = c, !.cp = @ + 1]
      line == Slice(f, f.eol, f.cp)
  IN  CASE c \in Letters -> IF full THEN [Flush(put) EXCEPT !.st = "idle"] ELSE put
        [] c = "nl" /\ f.eol # -1 /\ Len(line) \in 1 .. MaxLine /\ IsGreeting(line) ->
             [f EXCEPT !.cp = f.eol, !.st = "idle"]
        [] c = "nl" /\ ~(f.eol # -1 /\ Len(line) \in 1 .. MaxLine /\ IsGreeting(line)) ->
             IF f.cp >= BufSize - (MaxLine + HttpsLen) THEN [Flush(f) EXCEPT !.st = "idle"]
             ELSE [f EXCEPT !.eol = f.cp]
        [] OTHER -> f

(* One turn of the loop on byte c.  The URL sees the character that a      *)
(* reference stands for, the line buffer the byte; nothing is collected    *)
(* from the rest of a URL after its host.                                  *)
Turn1(f, c, words, d) ==
  LET refs == c = "&" \/ f.cref # "idle"
      skip(ref) == f.st = "skip" /\ (refs => ref.done)
      Put(ref, url) == [f |-> IF skip(ref) \/ url.panic THEN url ELSE Collect(url, c), again |-> refs /\ ref.again]
      Go(ref) == Put(ref, IF refs /\ ~ref.done THEN [f EXCEPT !.cref = ref.st]
                          ELSE UrlByte([f EXCEPT !.cref = "idle"], IF refs THEN ref.c ELSE c, words))
  IN  IF f.st = "idle" /\ c \notin {"h", "="} THEN [f |-> Collect(f, c), again |-> FALSE]
      ELSE Go(RefStep(f.cref, c, d))

(* The loop on byte c: the byte that ends a reference is read again.       *)
Read1(f, c, words, d) ==
  LET Again(once) == IF once.again /\ ~once.f.panic THEN Turn1(once.f, c, words, d).f ELSE once.f
  IN  Again(Turn1(f, c, words, d))

(* The end of a chunk: whole lines go to the sum.                          *)
EndChunk(f) == IF f.cp # 0 /\ f.eol = f.cp THEN Flush(f) ELSE f
=============================================================================
