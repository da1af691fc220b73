------------------------------ MODULE TextProofs ------------------------------
(***************************************************************************)
(* That the checksums of Fuzzy say of a whole text, and of a whole host    *)
(* name, what a reference says of it.                                      *)
(***************************************************************************)
EXTENDS FuzzyProofs

(* The bytes of a body of kind k.                                          *)
AbcOf(k) == Alphabet[k].text \cup Alphabet[k].break \cup Alphabet[k].host \cup {s[2] : s \in Scheme} \cup {"nl"}

(* The bodies that are followed for their words have no tags, and no       *)
(* references that are decoded.                                            *)
PlainWords ==
  \A k \in Kinds : Alphabet[k].follow = "words" =>
    /\ "<" \notin AbcOf(k)
    /\ \A e \in Entities[k] : e.ct = "text" \/ (e.ct = "html" /\ "&" \notin AbcOf(k))

-----------------------------------------------------------------------------
(* The words that end a text, if white space follows.                      *)
EndingAt(t, words) ==
  {i \in DOMAIN t :
     /\ i = 1 \/ Folded(t[i - 1]) = "space"
     /\ \E w \in words : i + Len(w) = Len(t) + 1 /\ SubSeq(t, i, Len(t)) = w}

LEMMA WordsGrow ==
  ASSUME NEW X, NEW t \in Seq(X), NEW c \in X, NEW words, \A w \in words : Len(w) \in Nat \ {0}
  PROVE  WordsOf(t \o <<c>>, words) =
           WordsOf(t, words) \cup (IF Folded(c) = "space" THEN EndingAt(t, words) ELSE {})
<1> DEFINE r == t \o <<c>>
           n == Len(t)
<1>1. r \in Seq(X) /\ Len(r) = n + 1 /\ n \in Nat /\ r[n + 1] = c /\ \A i \in 1 .. n : r[i] = t[i]
  OBVIOUS
<1>2. \A i \in 1 .. n, m \in Nat : i + m <= n + 1 => SubSeq(r, i, i + m - 1) = SubSeq(t, i, i + m - 1)
  BY <1>1
<1>3. DOMAIN r = 1 .. n + 1 /\ DOMAIN t = 1 .. n
  BY <1>1
<1> HIDE DEF r, n
<1>4. ASSUME NEW i \in 1 .. n + 1, NEW w \in words, i + Len(w) <= n + 1
      PROVE  i \in 1 .. n /\ SubSeq(r, i, i + Len(w) - 1) = SubSeq(t, i, i + Len(w) - 1)
  BY <1>1, <1>2, <1>4
<1>5. ASSUME NEW i \in 1 .. n PROVE (i = 1 \/ Folded(r[i - 1]) = "space") <=> (i = 1 \/ Folded(t[i - 1]) = "space")
  BY <1>1
<1>6. ASSUME NEW i \in WordsOf(r, words)
      PROVE  i \in WordsOf(t, words) \/ (Folded(c) = "space" /\ i \in EndingAt(t, words))
  <2>1. i \in 1 .. n + 1 /\ (i = 1 \/ Folded(r[i - 1]) = "space")
    BY <1>3 DEF WordsOf
  <2>2. PICK w \in words : i + Len(w) <= Len(r) /\ SubSeq(r, i, i + Len(w) - 1) = w /\ Folded(r[i + Len(w)]) = "space"
    BY DEF WordsOf
  <2>3. i \in 1 .. n /\ SubSeq(t, i, i + Len(w) - 1) = w
    BY <1>1, <1>4, <2>1, <2>2
  <2>4. CASE i + Len(w) <= n
    <3>1. r[i + Len(w)] = t[i + Len(w)]
      BY <1>1, <2>3, <2>4
    <3> QED BY <1>1, <1>3, <1>5, <2>1, <2>2, <2>3, <2>4, <3>1 DEF WordsOf, n
  <2>5. CASE i + Len(w) = n + 1
    <3>1. i + Len(w) - 1 = n
      BY <1>1, <2>3, <2>5
    <3> QED BY <1>1, <1>3, <1>5, <2>1, <2>2, <2>3, <2>5, <3>1 DEF EndingAt, n
  <2> QED BY <1>1, <2>2, <2>3, <2>4, <2>5
<1>7. ASSUME NEW i \in WordsOf(t, words) PROVE i \in WordsOf(r, words)
  <2>1. i \in 1 .. n /\ (i = 1 \/ Folded(t[i - 1]) = "space")
    BY <1>3 DEF WordsOf
  <2>2. PICK w \in words : i + Len(w) <= n /\ SubSeq(t, i, i + Len(w) - 1) = w /\ Folded(t[i + Len(w)]) = "space"
    BY DEF WordsOf, n
  <2>3. r[i + Len(w)] = t[i + Len(w)]
    BY <1>1, <2>1, <2>2
  <2> QED BY <1>1, <1>3, <1>4, <1>5, <2>1, <2>2, <2>3 DEF WordsOf
<1>8. ASSUME NEW i \in EndingAt(t, words), Folded(c) = "space" PROVE i \in WordsOf(r, words)
  <2>1. i \in 1 .. n /\ (i = 1 \/ Folded(t[i - 1]) = "space")
    BY <1>3 DEF EndingAt
  <2>2. PICK w \in words : i + Len(w) = n + 1 /\ SubSeq(t, i, n) = w
    BY DEF EndingAt, n
  <2>3. i + Len(w) - 1 = n
    BY <1>1, <2>1, <2>2
  <2>4. SubSeq(r, i, i + Len(w) - 1) = w /\ r[i + Len(w)] = c
    BY <1>1, <1>4, <2>1, <2>2, <2>3
  <2> QED BY <1>1, <1>3, <1>5, <1>8, <2>1, <2>2, <2>4 DEF WordsOf
<1> QED BY <1>6, <1>7, <1>8 DEF r

-----------------------------------------------------------------------------
(* A word that is being read: the letters since white space, or since the  *)
(* start.                                                                  *)
OpenRun(t, w, m) ==
  /\ m \in 0 .. WordMax /\ m <= Len(t) /\ w \in Seq(Letters \cup {"hi"}) /\ Len(w) = m
  /\ m = Len(t) \/ Folded(t[Len(t) - m]) = "space"
  /\ \A j \in 1 .. m : w[j] = t[Len(t) - m + j]

(* What is no word: no white space since a byte that is no letter, or      *)
(* since too many letters.                                                 *)
ShutRun(t, m) ==
  /\ m = SkipWlen
  /\ \E k \in 1 .. Len(t) :
       /\ \A j \in k .. Len(t) : Folded(t[j]) # "space"
       /\ Folded(t[k]) # "letter" \/ Len(t) - k + 1 > WordMax

Run(t, w, m) == OpenRun(t, w, m) \/ ShutRun(t, m)

LEMMA LettersFold == \A c \in Letters \cup {"hi"} : Folded(c) = "letter"
BY DEF Folded, Letters

(* The end of a text from a place on.                                      *)
LEMMA EndOf ==
  ASSUME NEW X, NEW t \in Seq(X), NEW i \in 1 .. Len(t) + 1
  PROVE  LET s == SubSeq(t, i, Len(t))
         IN  /\ s \in Seq(X) /\ Len(s) = Len(t) - i + 1
             /\ \A j \in 1 .. Len(t) - i + 1 : s[j] = t[i + j - 1]
OBVIOUS

(* No word of letters has white space behind it when none is open, and     *)
(* only the one that is open has.                                          *)
LEMMA EndingShut ==
  ASSUME NEW X, NEW t \in Seq(X), NEW m, ShutRun(t, m),
         NEW words, \A w \in words : w \in Seq(Letters \cup {"hi"}) /\ Len(w) \in 1 .. WordMax
  PROVE  EndingAt(t, words) = {}
<1> SUFFICES ASSUME NEW i \in EndingAt(t, words) PROVE FALSE
  OBVIOUS
<1>1. i \in 1 .. Len(t) /\ (i = 1 \/ Folded(t[i - 1]) = "space") /\ Len(t) \in Nat
  BY DEF EndingAt
<1>2. PICK w \in words : i + Len(w) = Len(t) + 1 /\ SubSeq(t, i, Len(t)) = w
  BY DEF EndingAt
<1>3. ASSUME NEW j \in i .. Len(t) PROVE t[j] = w[j - i + 1] /\ j - i + 1 \in 1 .. Len(w)
  <2>1. j - i + 1 \in 1 .. Len(t) - i + 1 /\ i + (j - i + 1) - 1 = j
    BY <1>1
  <2> QED BY <1>1, <1>2, <2>1, EndOf
<1>4. \A j \in i .. Len(t) : Folded(t[j]) = "letter"
  BY <1>3, LettersFold
<1>5. PICK k \in 1 .. Len(t) :
        /\ \A j \in k .. Len(t) : Folded(t[j]) # "space"
        /\ Folded(t[k]) # "letter" \/ Len(t) - k + 1 > WordMax
  BY DEF ShutRun
<1>6. i <= k
  <2>1. CASE k < i
    <3>1. i # 1 /\ i - 1 \in k .. Len(t)
      BY <1>1, <2>1
    <3> QED BY <1>1, <1>5, <3>1
  <2> QED BY <1>1, <2>1
<1>7. Len(t) - k + 1 > WordMax
  BY <1>1, <1>4, <1>5, <1>6
<1> QED BY <1>1, <1>2, <1>5, <1>6, <1>7, WordsAssumption

LEMMA EndingOpen ==
  ASSUME NEW X, NEW t \in Seq(X), NEW m \in Nat, NEW v, OpenRun(t, v, m),
         NEW words, \A w \in words : w \in Seq(Letters \cup {"hi"}) /\ Len(w) \in 1 .. WordMax
  PROVE  EndingAt(t, words) = IF v \in words THEN {Len(t) - m + 1} ELSE {}
<1> DEFINE n == Len(t)
<1>1. n \in Nat /\ m \in 0 .. n /\ Len(v) = m /\ DOMAIN t = 1 .. n
  BY WordsAssumption DEF OpenRun
<1> DEFINE before == n - m
<1>8. \A x, y \in Nat : y \in 0 .. x => x - y \in Nat /\ y + (x - y) = x /\ (y = x => x - y = 0) /\ x - y + 1 - 1 = x - y
                                       /\ (y # 0 => x - y + 1 \in 1 .. x) /\ (x - y + 1) + y = x + 1
  OBVIOUS
<1>5. before \in Nat /\ m + before = n /\ (before = 0 \/ Folded(t[before]) = "space")
  <2>1. before \in Nat /\ m + before = n /\ (m = n => before = 0)
    <3> HIDE DEF n
    <3> QED BY <1>1, <1>8
  <2>2. m = n \/ Folded(t[before]) = "space"
    BY DEF OpenRun
  <2> QED BY <2>1, <2>2
<1>6. \A j \in 1 .. m : v[j] = t[before + j] /\ v[j] \in Letters \cup {"hi"}
  <2>1. \A j \in 1 .. m : v[j] = t[before + j]
    BY DEF OpenRun
  <2>2. v \in Seq(Letters \cup {"hi"})
    BY DEF OpenRun
  <2> HIDE DEF before
  <2> QED BY <1>1, <2>1, <2>2
<1> HIDE DEF before
<1>7. n - m + 1 = before + 1
  BY <1>1 DEF before
<1>2. SubSeq(t, n - m + 1, n) = v
  <2> DEFINE s == SubSeq(t, n - m + 1, n)
  <2>0. n - m + 1 \in 1 .. n + 1 /\ n - (n - m + 1) + 1 = m
    BY <1>1
  <2>1. s \in Seq(X) /\ Len(s) = m /\ \A j \in 1 .. m : s[j] = t[n - m + 1 + j - 1]
    BY <2>0, EndOf
  <2>2. \A j \in 1 .. m : s[j] = v[j]
    <3> SUFFICES ASSUME NEW j \in 1 .. m PROVE s[j] = v[j]
      OBVIOUS
    <3>1. n - m + 1 + j - 1 = before + j
      BY <1>1, <1>5
    <3> QED BY <1>6, <2>1, <3>1
  <2>3. v \in Seq(Letters \cup {"hi"})
    BY DEF OpenRun
  <2> HIDE DEF s
  <2>4. s = v
    BY <1>1, <2>1, <2>2, <2>3, SameSeq
  <2> QED BY <2>4 DEF s
<1>3. ASSUME NEW i \in EndingAt(t, words) PROVE v \in words /\ i = n - m + 1
  <2>1. i \in 1 .. n /\ (i = 1 \/ Folded(t[i - 1]) = "space")
    BY DEF EndingAt
  <2>2. PICK w \in words : i + Len(w) = n + 1 /\ SubSeq(t, i, n) = w
    BY DEF EndingAt
  <2>3. ASSUME NEW j \in i .. n PROVE t[j] = w[j - i + 1] /\ j - i + 1 \in 1 .. Len(w)
    <3>1. j - i + 1 \in 1 .. n - i + 1 /\ i + (j - i + 1) - 1 = j /\ i \in 1 .. n + 1
      BY <1>1, <2>1
    <3> QED BY <1>1, <2>2, <3>1, EndOf
  <2>4. \A j \in i .. n : Folded(t[j]) = "letter"
    BY <2>3, LettersFold
  <2>5. \A j \in before + 1 .. n : Folded(t[j]) = "letter"
    <3> SUFFICES ASSUME NEW j \in before + 1 .. n PROVE Folded(t[j]) = "letter"
      OBVIOUS
    <3>1. j - before \in 1 .. m /\ before + (j - before) = j
      BY <1>1, <1>5
    <3>2. t[j] = v[j - before] /\ v[j - before] \in Letters \cup {"hi"}
      BY <1>6, <3>1
    <3> QED BY <3>2, LettersFold
  <2>6. ~(i < before + 1)
    <3> SUFFICES ASSUME i < before + 1 PROVE FALSE
      OBVIOUS
    <3>1. before # 0 /\ before \in i .. n
      BY <1>1, <1>5, <2>1
    <3> QED BY <1>5, <2>4, <3>1
  <2>7. ~(before + 1 < i)
    <3> SUFFICES ASSUME before + 1 < i PROVE FALSE
      OBVIOUS
    <3>1. i # 1 /\ i - 1 \in before + 1 .. n
      BY <1>1, <1>5, <2>1
    <3> QED BY <2>1, <2>5, <3>1
  <2>8. i = n - m + 1
    BY <1>1, <1>5, <1>7, <2>1, <2>6, <2>7
  <2> QED BY <1>2, <2>2, <2>8
<1>4. ASSUME v \in words PROVE n - m + 1 \in EndingAt(t, words)
  <2>1. m \in 1 .. n
    BY <1>1, <1>4
  <2>2. n - m + 1 \in 1 .. n /\ (n - m + 1) + Len(v) = n + 1 /\ n - m + 1 - 1 = before
    BY <1>1, <1>7, <1>8, <2>1 DEF before
  <2>3. n - m + 1 = 1 \/ Folded(t[n - m + 1 - 1]) = "space"
    BY <1>5, <1>7, <2>2
  <2>4. \E w \in words : (n - m + 1) + Len(w) = Len(t) + 1 /\ SubSeq(t, n - m + 1, Len(t)) = w
    BY <1>2, <1>4, <2>2
  <2>5. n - m + 1 \in DOMAIN t
    BY <1>1, <2>2
  <2> DEFINE i == n - m + 1
  <2> HIDE DEF i
  <2>6. i \in EndingAt(t, words)
    BY <2>3, <2>4, <2>5 DEF EndingAt, i
  <2> QED BY <2>6 DEF i
<1> QED BY <1>3, <1>4

-----------------------------------------------------------------------------
EnglishWords == {w \in Dict[1] : Len(w) \in MinLen .. WordMax}

LEMMA EnglishAre ==
  \A w \in EnglishWords : w \in Seq(Letters \cup {"hi"}) /\ Len(w) \in 1 .. WordMax /\ Len(w) \in Nat \ {0}
<1> SUFFICES ASSUME NEW w \in EnglishWords
             PROVE  w \in Seq(Letters \cup {"hi"}) /\ Len(w) \in 1 .. WordMax /\ Len(w) \in Nat \ {0}
  OBVIOUS
<1>1. w \in Seq(Letters) /\ Len(w) \in MinLen .. WordMax
  BY EnglishAssumption DEF EnglishWords
<1>2. MinLen \in Nat \ {0} /\ WordMax \in Nat
  BY WordsAssumption
<1> QED BY <1>1, <1>2

(* A byte, as the word that is being read sees it.                         *)
LEMMA RunStep ==
  ASSUME NEW X, NEW t \in Seq(X), NEW c \in X, Folded(c) # "lt",
         NEW s, CountTypes2(s), s.st = "word", Run(t, s.w, s.wlen)
  PROVE  LET r == WordChar(s, c)
         IN  /\ r.st = "word" /\ r.cref = s.cref /\ r.ct = s.ct
             /\ Run(t \o <<c>>, r.w, r.wlen)
             /\ English(r) = IF Folded(c) = "space" /\ s.wlen \in MinLen .. WordMax /\ s.w \in Dict[1]
                             THEN English(s) + 1 ELSE English(s)
<1> DEFINE n == Len(t)
           u == t \o <<c>>
           r == WordChar(s, c)
<1>1. u \in Seq(X) /\ Len(u) = n + 1 /\ n \in Nat /\ u[n + 1] = c /\ \A i \in 1 .. n : u[i] = t[i]
  OBVIOUS
<1>2. DOMAIN s = Fields2 /\ s.wlen \in Nat /\ DOMAIN s.wtotal = Langs /\ \A l \in Langs : s.wtotal[l] \in Nat
  BY DEF CountTypes2
<1>3. WordMax \in Nat \ {0} /\ 1 \in Langs
  BY WordsAssumption
<1>4. Folded(c) \in {"letter", "space", "junk"}
  <2>1. Folded(c) \in {"letter", "space", "lt", "junk"}
    BY DEF Folded
  <2> QED BY <2>1
<1> HIDE DEF u, n
<1>5. CASE Folded(c) = "letter"
  <2>1. CASE s.wlen < WordMax
    <3>1. r = [s EXCEPT !.btotal = @ + 1, !.w = Append(@, c), !.wlen = @ + 1]
      BY <1>5, <2>1 DEF WordChar
    <3>2. r.st = "word" /\ r.cref = s.cref /\ r.ct = s.ct /\ r.w = Append(s.w, c) /\ r.wlen = s.wlen + 1 /\ r.wtotal = s.wtotal
      BY <1>2, <3>1 DEF Fields2
    <3>3. OpenRun(t, s.w, s.wlen)
      BY <2>1, <1>3 DEF Run, ShutRun, SkipWlen
    <3>4. OpenRun(u, r.w, r.wlen)
      <4> HIDE DEF r
      <4>1. s.w \in Seq(Letters \cup {"hi"}) /\ Len(s.w) = s.wlen /\ c \in Letters \cup {"hi"} /\ s.wlen <= n
        BY <1>5, <3>3 DEF OpenRun, Folded, n
      <4>2. /\ r.w \in Seq(Letters \cup {"hi"}) /\ Len(r.w) = s.wlen + 1 /\ r.w[s.wlen + 1] = c
            /\ \A j \in 1 .. s.wlen : r.w[j] = s.w[j]
        BY <3>2, <4>1
      <4>3. n + 1 - (s.wlen + 1) = n - s.wlen /\ r.wlen <= n + 1 /\ r.wlen \in 0 .. WordMax
        BY <1>1, <1>2, <1>3, <2>1, <3>2, <4>1
      <4>4. r.wlen = n + 1 \/ Folded(u[n + 1 - r.wlen]) = "space"
        <5>1. CASE s.wlen = n
          BY <3>2, <5>1
        <5>2. CASE s.wlen # n
          <6>1. Folded(t[n - s.wlen]) = "space"
            BY <3>3, <5>2 DEF OpenRun, n
          <6>2. n - s.wlen \in 1 .. n
            BY <1>1, <1>2, <4>1, <5>2
          <6> QED BY <1>1, <3>2, <4>3, <6>1, <6>2
        <5> QED BY <5>1, <5>2
      <4>5. ASSUME NEW j \in 1 .. r.wlen PROVE r.w[j] = u[Len(u) - r.wlen + j]
        <5>1. CASE j = s.wlen + 1
          <6>1. Len(u) - r.wlen + j = n + 1
            BY <1>1, <1>2, <3>2, <5>1
          <6> QED BY <1>1, <4>2, <5>1, <6>1
        <5>2. CASE j # s.wlen + 1
          <6>1. j \in 1 .. s.wlen /\ Len(u) - r.wlen + j = n - s.wlen + j /\ n - s.wlen + j \in 1 .. n
            <7>1. \A m, all, more \in Nat : \A i \in 1 .. more : all = n + 1 /\ more = m + 1 /\ m <= n /\ i # m + 1 =>
                    i \in 1 .. m /\ all - more + i = n - m + i /\ n - m + i \in 1 .. n
              BY <1>1
            <7>2. Len(u) = n + 1 /\ Len(u) \in Nat /\ r.wlen = s.wlen + 1 /\ r.wlen \in Nat /\ s.wlen \in Nat /\ s.wlen <= n
              BY <1>1, <1>2, <3>2, <4>1
            <7> QED BY <5>2, <7>1, <7>2
          <6>2. s.w[j] = t[n - s.wlen + j]
            BY <3>3, <6>1 DEF OpenRun, n
          <6> QED BY <1>1, <4>2, <6>1, <6>2
        <5> QED BY <5>1, <5>2
      <4>6. Len(r.w) = r.wlen /\ r.wlen <= Len(u) /\ (r.wlen = Len(u) \/ Folded(u[Len(u) - r.wlen]) = "space")
        BY <1>1, <3>2, <4>2, <4>3, <4>4
      <4> QED BY <4>2, <4>3, <4>5, <4>6 DEF OpenRun
    <3> QED BY <1>2, <1>3, <1>5, <3>2, <3>4 DEF Run, English, u
  <2>2. CASE ~(s.wlen < WordMax)
    <3>1. r = [s EXCEPT !.btotal = @ + 1, !.wlen = SkipWlen]
      BY <1>5, <2>2 DEF WordChar
    <3>2. r.st = "word" /\ r.cref = s.cref /\ r.ct = s.ct /\ r.wlen = SkipWlen /\ r.wtotal = s.wtotal
      BY <1>2, <3>1 DEF Fields2
    <3>3. ShutRun(u, SkipWlen)
      <4>1. CASE ShutRun(t, s.wlen)
        <5>1. PICK k \in 1 .. n :
                /\ \A j \in k .. n : Folded(t[j]) # "space"
                /\ Folded(t[k]) # "letter" \/ n - k + 1 > WordMax
          BY <4>1 DEF ShutRun, n
        <5>2. k \in 1 .. n + 1 /\ u[k] = t[k] /\ (n - k + 1 > WordMax => n + 1 - k + 1 > WordMax)
          BY <1>1, <1>3
        <5>3. ASSUME NEW j \in k .. n + 1 PROVE Folded(u[j]) # "space"
          <6>1. j = n + 1 \/ (j \in k .. n /\ j \in 1 .. n)
            BY <1>1
          <6> QED BY <1>1, <1>5, <5>1, <6>1
        <5>4. Folded(u[k]) # "letter" \/ Len(u) - k + 1 > WordMax
          BY <1>1, <5>1, <5>2
        <5>5. k \in 1 .. Len(u) /\ \A j \in k .. Len(u) : Folded(u[j]) # "space"
          BY <1>1, <5>2, <5>3
        <5> QED BY <5>4, <5>5 DEF ShutRun
      <4>2. CASE OpenRun(t, s.w, s.wlen)
        <5>1. s.wlen = WordMax /\ WordMax <= n
          BY <1>2, <1>3, <2>2, <4>2 DEF OpenRun, n
        <5> DEFINE k == n - WordMax + 1
        <5>2. k \in 1 .. n + 1 /\ n + 1 - k + 1 > WordMax
          BY <1>1, <1>3, <5>1
        <5>3. ASSUME NEW j \in k .. n + 1 PROVE Folded(u[j]) # "space"
          <6>1. CASE j = n + 1
            BY <1>1, <1>5, <6>1
          <6>2. CASE j # n + 1
            <7> DEFINE i == j - (n - WordMax)
            <7>1. i \in 1 .. WordMax /\ n - WordMax + i = j /\ j \in 1 .. n
              BY <1>1, <1>3, <5>1, <6>2
            <7>2. s.w[i] = t[j] /\ s.w[i] \in Letters \cup {"hi"}
              <8> HIDE DEF i
              <8> QED BY <4>2, <5>1, <7>1 DEF OpenRun, n
            <7> QED BY <1>1, <7>1, <7>2, LettersFold
          <6> QED BY <6>1, <6>2
        <5> HIDE DEF k
        <5>4. k \in 1 .. Len(u) /\ \A j \in k .. Len(u) : Folded(u[j]) # "space"
          BY <1>1, <5>2, <5>3
        <5>5. Folded(u[k]) # "letter" \/ Len(u) - k + 1 > WordMax
          BY <1>1, <5>2
        <5> QED BY <5>4, <5>5 DEF ShutRun
      <4> QED BY <4>1, <4>2 DEF Run
    <3> QED BY <1>2, <1>3, <1>5, <3>2, <3>3 DEF Run, English, u
  <2> QED BY <2>1, <2>2
<1>6. CASE Folded(c) = "junk"
  <2>1. r = Junk([s EXCEPT !.btotal = @ + 1])
    BY <1>6 DEF WordChar
  <2>2. r.st = "word" /\ r.cref = s.cref /\ r.ct = s.ct /\ r.wlen = SkipWlen /\ r.wtotal = s.wtotal
    BY <1>2, <2>1 DEF Fields2, Junk
  <2>3. ShutRun(u, SkipWlen)
    <3>1. n + 1 \in 1 .. n + 1 /\ \A j \in n + 1 .. n + 1 : Folded(u[j]) # "space"
      BY <1>1, <1>6
    <3> QED BY <1>1, <1>6, <3>1 DEF ShutRun
  <2> QED BY <1>2, <1>3, <1>6, <2>2, <2>3 DEF Run, English, u
<1>7. CASE Folded(c) = "space"
  <2> DEFINE added == IF s.wlen \in MinLen .. WordMax THEN AddWord(s) ELSE s
  <2>1. r = [added EXCEPT !.w = <<>>, !.wlen = 0]
    BY <1>7 DEF WordChar
  <2>2. /\ DOMAIN added = Fields2 /\ added.st = s.st /\ added.cref = s.cref /\ added.ct = s.ct
        /\ added.wtotal[1] = IF s.wlen \in MinLen .. WordMax /\ s.w \in Dict[1]
                              THEN s.wtotal[1] + 1 ELSE s.wtotal[1]
    <3>1. CASE s.wlen \in MinLen .. WordMax
      <4>1. CsetOf[1] \in {"any", s.cset}
        BY EnglishAssumption
      <4> QED BY <1>2, <1>3, <3>1, <4>1 DEF AddWord, Fields2
    <3>2. CASE s.wlen \notin MinLen .. WordMax
      BY <1>2, <1>3, <3>2
    <3> QED BY <3>1, <3>2
  <2> HIDE DEF added
  <2>3. r.st = "word" /\ r.cref = s.cref /\ r.ct = s.ct /\ r.w = <<>> /\ r.wlen = 0 /\ r.wtotal = added.wtotal
    BY <2>1, <2>2 DEF Fields2
  <2>4. OpenRun(u, <<>>, 0)
    BY <1>1, <1>3, <1>7 DEF OpenRun
  <2> QED BY <1>7, <2>2, <2>3, <2>4 DEF Run, English, u
<1> QED BY <1>4, <1>5, <1>6, <1>7

(* The words of a text that grows by a byte.                               *)
LEMMA CountStep ==
  ASSUME NEW X, NEW t \in Seq(X), NEW c \in X, Folded(c) # "lt",
         NEW s, CountTypes2(s), s.st = "word", Run(t, s.w, s.wlen),
         English(s) = Cardinality(WordsOf(t, EnglishWords))
  PROVE  English(WordChar(s, c)) = Cardinality(WordsOf(t \o <<c>>, EnglishWords))
<1> DEFINE old == WordsOf(t, EnglishWords)
           at  == Len(t) - s.wlen + 1
           hit == Folded(c) = "space" /\ s.wlen \in MinLen .. WordMax /\ s.w \in Dict[1]
<1>1. English(WordChar(s, c)) = IF hit THEN English(s) + 1 ELSE English(s)
  <2>1. /\ Run(t \o <<c>>, WordChar(s, c).w, WordChar(s, c).wlen)
        /\ English(WordChar(s, c)) = IF hit THEN English(s) + 1 ELSE English(s)
    BY RunStep
  <2> QED BY <2>1
<1>2. IsFiniteSet(old) /\ old \subseteq 1 .. Len(t) /\ Len(t) \in Nat
  <2>1. Len(t) \in Nat /\ DOMAIN t = 1 .. Len(t)
    OBVIOUS
  <2>2. IsFiniteSet(1 .. Len(t))
    BY <2>1, FS_Interval
  <2>3. old \subseteq 1 .. Len(t)
    BY <2>1 DEF WordsOf
  <2> HIDE DEF old
  <2> QED BY <2>1, <2>2, <2>3, FS_Subset
<1>3. WordsOf(t \o <<c>>, EnglishWords) = old \cup (IF Folded(c) = "space" THEN EndingAt(t, EnglishWords) ELSE {})
  BY EnglishAre, WordsGrow
<1>4. s.wlen \in Nat
  BY DEF CountTypes2
<1>5. CASE hit
  <2>1. OpenRun(t, s.w, s.wlen) /\ s.w \in EnglishWords
    <3>1. OpenRun(t, s.w, s.wlen)
      BY <1>5, WordsAssumption DEF Run, ShutRun, SkipWlen
    <3> QED BY <1>5, <3>1 DEF EnglishWords, OpenRun
  <2>2. EndingAt(t, EnglishWords) = {at}
    BY <1>4, <2>1, EndingOpen, EnglishAre
  <2>3. at \notin old
    <3> SUFFICES ASSUME at \in old PROVE FALSE
      OBVIOUS
    <3>1. PICK w \in EnglishWords : at + Len(w) <= Len(t) /\ Folded(t[at + Len(w)]) = "space"
      BY DEF WordsOf
    <3>2. \A m \in Nat, l \in Nat \ {0} : Len(t) - m + 1 + l <= Len(t) => 
             1 + l \in 1 .. m /\ Len(t) - m + (1 + l) = Len(t) - m + 1 + l
      BY <1>2
    <3>3. 1 + Len(w) \in 1 .. s.wlen /\ Len(t) - s.wlen + (1 + Len(w)) = at + Len(w)
      BY <1>4, <3>1, <3>2, EnglishAre
    <3>4. s.w[1 + Len(w)] = t[at + Len(w)] /\ s.w[1 + Len(w)] \in Letters \cup {"hi"}
      <4> HIDE DEF at
      <4> QED BY <2>1, <3>3 DEF OpenRun
    <3> QED BY <3>1, <3>4, LettersFold
  <2>4. Cardinality(old \cup {at}) = Cardinality(old) + 1
    BY <1>2, <2>3, FS_AddElement
  <2> QED BY <1>1, <1>3, <1>5, <2>2, <2>4
<1>6. CASE ~hit
  <2>1. ASSUME Folded(c) = "space" PROVE EndingAt(t, EnglishWords) = {}
    <3>1. CASE OpenRun(t, s.w, s.wlen)
      <4>1. s.w \notin EnglishWords
        BY <1>6, <2>1, <3>1 DEF EnglishWords, OpenRun
      <4> QED BY <1>4, <3>1, <4>1, EndingOpen, EnglishAre
    <3>2. CASE ShutRun(t, s.wlen)
      BY <3>2, EndingShut, EnglishAre
    <3> QED BY <3>1, <3>2 DEF Run
  <2>2. English(s) \in Nat
    BY WordsAssumption DEF English, CountTypes2
  <2>3. WordsOf(t \o <<c>>, EnglishWords) = old
    BY <1>3, <2>1
  <2>4. English(WordChar(s, c)) = English(s)
    <3> HIDE DEF hit
    <3> QED BY <1>1, <1>6, <2>2
  <2> QED BY <2>3, <2>4
<1> QED BY <1>5, <1>6

-----------------------------------------------------------------------------
(* In a body that is followed for its words, Fuz2 is never in a tag or a   *)
(* reference, it knows the word that is open, and it has counted those     *)
(* before.                                                                 *)
WordInv ==
  /\ Counted(g) /\ kind \in Kinds
  /\ Alphabet[kind].follow = "words" =>
       /\ g.st = "word" /\ g.cref = "idle" /\ (g.ct = "text" \/ (g.ct = "html" /\ "&" \notin AbcOf(kind)))
       /\ text \in Seq(AbcOf(kind)) /\ Run(text, g.w, g.wlen)
       /\ English(g) = Cardinality(WordsOf(text, EnglishWords))

LEMMA InitWord == PlainWords /\ Init => WordInv
<1> SUFFICES ASSUME PlainWords, Init PROVE WordInv
  OBVIOUS
<1>1. PICK e \in Entities[kind] : g = NextEntity(Fresh2, e.ct, e.cset)
  BY DEF Init
<1>2. /\ g.st = "word" /\ g.cref = "idle" /\ g.ct = e.ct /\ g.w = <<>> /\ g.wlen = 0
      /\ g.wtotal = [l \in Langs |-> 0]
  BY <1>1 DEF NextEntity, Fresh2
<1>3. English(g) = 0
  BY <1>2, WordsAssumption DEF English
<1>4. text = <<>> /\ kind \in Kinds
  BY DEF Init
<1>5. Run(text, g.w, g.wlen)
  BY <1>2, <1>4, WordsAssumption DEF Run, OpenRun
<1>6. Cardinality(WordsOf(text, EnglishWords)) = 0
  <2>1. WordsOf(text, EnglishWords) = {}
    BY <1>4 DEF WordsOf
  <2> QED BY <2>1, FS_EmptySet
<1> QED BY <1>2, <1>3, <1>4, <1>5, <1>6, InitCounted DEF WordInv, PlainWords

(* Outside of tags and references a byte is read once, as a character.     *)
LEMMA PlainRead ==
  ASSUME NEW s, s.st = "word", s.cref = "idle", NEW c, NEW d, s.ct = "text" \/ (s.ct = "html" /\ c # "&")
  PROVE  Read2(s, c, d) = WordChar(s, c)
<1>1. Turn2(s, c, d) = [g |-> WordChar(s, c), again |-> FALSE]
  BY DEF Turn2
<1> QED BY <1>1 DEF Read2

LEMMA FollowWords ==
  ASSUME WordInv, PlainWords, Alphabet[kind].follow = "words", NEW c \in AbcOf(kind), NEW d
  PROVE  LET r == Read2(g, c, d)
         IN  /\ r.st = "word" /\ r.cref = "idle" /\ r.ct = g.ct
             /\ text \o <<c>> \in Seq(AbcOf(kind)) /\ Run(text \o <<c>>, r.w, r.wlen)
             /\ English(r) = Cardinality(WordsOf(text \o <<c>>, EnglishWords))
<1>1. Read2(g, c, d) = WordChar(g, c)
  BY PlainRead DEF WordInv
<1>2. Folded(c) # "lt"
  BY DEF PlainWords, WordInv, Folded
<1>3. CountTypes2(g)
  BY DEF WordInv, Counted
<1> QED BY <1>1, <1>2, <1>3, RunStep, CountStep DEF WordInv

LEMMA NextAbc == \A c \in NextBytes : c \in AbcOf(kind)
BY DEF NextBytes, AbcOf

LEMMA NextWord == PlainWords /\ WordInv /\ [Next]_vars => WordInv'
<1> SUFFICES ASSUME PlainWords, WordInv, [Next]_vars PROVE WordInv'
  OBVIOUS
<1>1. Counted(g)' /\ kind' = kind
  BY NextCounted DEF WordInv, Next, Byte, Chunk, Boundary, Finish, LineEnd, vars
<1>2. CASE Alphabet[kind].follow # "words"
  BY <1>1, <1>2 DEF WordInv
<1> SUFFICES ASSUME Alphabet[kind].follow = "words"
             PROVE  /\ g'.st = "word" /\ g'.cref = "idle"
                    /\ g'.ct = "text" \/ (g'.ct = "html" /\ "&" \notin AbcOf(kind))
                    /\ text' \in Seq(AbcOf(kind)) /\ Run(text', g'.w, g'.wlen)
                    /\ English(g') = Cardinality(WordsOf(text', EnglishWords))
  BY <1>1, <1>2 DEF WordInv
<1>3. "nl" \in AbcOf(kind)
  BY DEF AbcOf
<1>4. CASE Byte
  <2>1. PICK c \in NextBytes :
          /\ \E d \in Decodes(g.cref, Decoded) : g' = IF g.ct = "binary" THEN g ELSE Read2(g, c, d)
          /\ Follow(<<c>>, <<c>>)
    BY <1>4 DEF Byte
  <2>2. text' = text \o <<c>> /\ \E d : g' = Read2(g, c, d)
    BY <2>1 DEF Follow, WordInv
  <2> QED BY <2>2, NextAbc, FollowWords DEF WordInv
<1>5. CASE Chunk \/ UNCHANGED vars
  BY <1>5 DEF Chunk, vars, WordInv
<1>6. CASE Boundary
  <2>1. PICK d \in Decodes(g.cref, Decoded), e \in Entities[kind] : g' = NextEntity(Read2(g, "nl", d), e.ct, e.cset)
    BY <1>6 DEF Boundary
  <2>2. text' = text \o <<"nl">>
    BY <1>6 DEF Boundary, Follow
  <2> DEFINE r == Read2(g, "nl", d)
  <2>3. /\ r.st = "word" /\ r.cref = "idle"
        /\ text' \in Seq(AbcOf(kind)) /\ Run(text', r.w, r.wlen)
        /\ English(r) = Cardinality(WordsOf(text', EnglishWords))
    BY <1>3, <2>2, FollowWords
  <2>4. DOMAIN r = Fields2
    BY ReadCounted DEF WordInv, Counting, Counted, CountTypes2
  <2> HIDE DEF r
  <2>5. /\ g'.st = r.st /\ g'.cref = r.cref /\ g'.ct = e.ct /\ g'.w = r.w /\ g'.wlen = r.wlen /\ g'.wtotal = r.wtotal
    BY <2>1, <2>4 DEF NextEntity, Fields2, r
  <2>6. e.ct = "text" \/ (e.ct = "html" /\ "&" \notin AbcOf(kind))
    BY DEF PlainWords, WordInv
  <2> QED BY <2>3, <2>5, <2>6 DEF English
<1>7. CASE Finish
  <2>1. text' = text \o <<"nl">> /\ \E d : g' = Read2(g, "nl", d)
    BY <1>7 DEF Finish, Follow
  <2> QED BY <1>3, <2>1, FollowWords DEF WordInv
<1> QED BY <1>4, <1>5, <1>6, <1>7 DEF Next

(* The words counted are those of the dictionary that stand in the text,   *)
(* each once and whole, for any dictionary, limits, chunks, entities and   *)
(* text without tags (fuz2, skipWord, junk, addWord).                      *)
THEOREM WordsAreCountedWhole == PlainWords /\ Spec => []WordsAreWhole
<1> SUFFICES ASSUME PlainWords PROVE Spec => []WordsAreWhole
  OBVIOUS
<1>1. WordInv => WordsAreWhole
  BY DEF WordInv, WordsAreWhole, EnglishWords
<1> QED BY InitWord, NextWord, <1>1, PTL DEF Spec

-----------------------------------------------------------------------------
FromLen == Len(FromSeq)

(* The text ends with the first k elements of FromSeq, where the start of  *)
(* the text is as good as a line end.                                      *)
Opens(t, k) ==
  LET n == Len(t) - k + 1
  IN  n \in Nat /\ (n = 0 \/ t[n] = "nl") /\ \A j \in 2 .. k : t[n + j - 1] = FromSeq[j]

LEMMA FromTypes ==
  /\ FromLen \in Nat /\ FromLen >= 3 /\ FromSeq \in Seq(STRING) /\ DOMAIN FromSeq = 1 .. FromLen
  /\ \A j \in 2 .. FromLen : FromSeq[j] \notin Unsummed /\ FromSeq[j] # "nl" /\ FromSeq[j] \in STRING
<1>1. "nl" \in Unsummed
  BY DEF Unsummed
<1> QED BY <1>1, FromAssumption DEF FromLen

LEMMA OpensStep ==
  ASSUME NEW X, NEW t \in Seq(X), NEW c \in X
  PROVE  /\ Opens(t \o <<c>>, 1) <=> c = "nl"
         /\ \A k \in 2 .. FromLen : Opens(t \o <<c>>, k) <=> Opens(t, k - 1) /\ c = FromSeq[k]
<1> DEFINE u == t \o <<c>>
           n == Len(t)
<1>1. u \in Seq(X) /\ Len(u) = n + 1 /\ n \in Nat /\ u[n + 1] = c /\ \A i \in 1 .. n : u[i] = t[i]
  OBVIOUS
<1>2. FromLen \in Nat
  BY FromTypes
<1> HIDE DEF u, n
<1>3. Opens(u, 1) <=> c = "nl"
  <2>1. Len(u) - 1 + 1 = n + 1 /\ n + 1 \in Nat /\ n + 1 # 0 /\ 2 .. 1 = {}
    BY <1>1
  <2> QED BY <1>1, <2>1 DEF Opens
<1>4. ASSUME NEW k \in 2 .. FromLen PROVE Opens(u, k) <=> Opens(t, k - 1) /\ c = FromSeq[k]
  <2> DEFINE q == n + 1 - k + 1
  <2>1. /\ k \in Nat /\ k - 1 \in Nat /\ Len(u) - k + 1 = q /\ n - (k - 1) + 1 = q /\ q \in Int /\ q + k - 1 = n + 1
        /\ \A j \in 2 .. k - 1 : j \in 2 .. k /\ q + j - 1 <= n /\ (q \in Nat => q + j - 1 \in 1 .. n)
        /\ \A j \in 2 .. k : j = k \/ j \in 2 .. k - 1
        /\ q <= n /\ (q \in Nat /\ q # 0 => q \in 1 .. n) /\ k \in 2 .. k
    BY <1>1, <1>2
  <2> HIDE DEF q
  <2>2. Opens(u, k) <=> q \in Nat /\ (q = 0 \/ u[q] = "nl") /\ \A j \in 2 .. k : u[q + j - 1] = FromSeq[j]
    BY <2>1 DEF Opens
  <2>3. Opens(t, k - 1) <=> q \in Nat /\ (q = 0 \/ t[q] = "nl") /\ \A j \in 2 .. k - 1 : t[q + j - 1] = FromSeq[j]
    BY <2>1 DEF Opens, n
  <2>4. ASSUME q \in Nat PROVE (\A j \in 2 .. k : u[q + j - 1] = FromSeq[j]) <=> (\A j \in 2 .. k - 1 : t[q + j - 1] = FromSeq[j]) /\ c = FromSeq[k]
    <3>1. \A j \in 2 .. k - 1 : u[q + j - 1] = t[q + j - 1]
      BY <1>1, <2>1, <2>4
    <3>2. u[q + k - 1] = c
      BY <1>1, <2>1
    <3> QED BY <2>1, <3>1, <3>2
  <2>5. ASSUME q \in Nat, q # 0 PROVE u[q] = t[q]
    BY <1>1, <2>1, <2>5
  <2> QED BY <2>2, <2>3, <2>4, <2>5
<1> QED BY <1>3, <1>4 DEF u

LEMMA FromLineIs ==
  ASSUME NEW X, NEW t \in Seq(X), NEW i \in 1 .. Len(t)
  PROVE  FromLine(t, i) <=> /\ i = 1 \/ t[i - 1] = "nl"
                            /\ i + FromLen - 2 <= Len(t) /\ \A j \in 2 .. FromLen : t[i + j - 2] = FromSeq[j]
<1> DEFINE n == Len(t)
           s == SubSeq(t, i, n)
           want == Tail(FromSeq)
           m == FromLen - 1
<1>1. n \in Nat /\ i \in Nat /\ m \in Nat /\ m >= 2 /\ FromLen = m + 1 /\ i <= n
  BY FromTypes
<1>2. s \in Seq(X) /\ Len(s) = n - i + 1 /\ \A j \in 1 .. n - i + 1 : s[j] = t[i + j - 1]
  BY PartOf, i \in 1 .. Len(t) + 1, n \in i - 1 .. Len(t)
<1>3. want \in Seq(STRING) /\ Len(want) = m /\ \A j \in 1 .. m : want[j] = FromSeq[j + 1]
  BY FromTypes DEF FromLen
<1> HIDE DEF s, want, m, n
<1>4. IsPrefix(want, s) <=> i + m - 1 <= n /\ \A j \in 1 .. m : want[j] = s[j]
  <2>1. m <= Len(s) <=> i + m - 1 <= n
    BY <1>1, <1>2
  <2>2. SubSeq(want, 1, m) = want
    BY <1>3, <1>1
  <2>3. ASSUME m <= Len(s)
        PROVE  /\ SubSeq(s, 1, m) \in Seq(X) /\ Len(SubSeq(s, 1, m)) = m
               /\ \A j \in 1 .. m : SubSeq(s, 1, m)[j] = s[j]
    BY <1>1, <1>2, <2>3
  <2> DEFINE p == SubSeq(s, 1, m)
  <2>4. ASSUME m <= Len(s) PROVE want = p <=> \A j \in 1 .. m : want[j] = s[j]
    <3> HIDE DEF p
    <3>1. p \in Seq(X) /\ Len(p) = m /\ \A j \in 1 .. m : p[j] = s[j]
      BY <2>3, <2>4 DEF p
    <3> QED BY <1>3, <3>1, SameSeq
  <2>5. IsPrefix(want, s) <=> m <= Len(s) /\ want = p
    BY <1>3, <2>2 DEF IsPrefix
  <2> QED BY <2>1, <2>4, <2>5
<1>5. ASSUME i + m - 1 <= n
      PROVE  (\A j \in 1 .. m : want[j] = s[j]) <=> (\A j \in 2 .. FromLen : t[i + j - 2] = FromSeq[j])
  <2>1. \A j \in 1 .. m : j \in 1 .. n - i + 1 /\ j + 1 \in 2 .. FromLen /\ i + (j + 1) - 2 = i + j - 1
    BY <1>1, <1>5
  <2>2. \A j \in 2 .. FromLen : j - 1 \in 1 .. m /\ (j - 1) + 1 = j
    BY <1>1
  <2>3. \A j \in 1 .. m : want[j] = s[j] <=> t[i + (j + 1) - 2] = FromSeq[j + 1]
    BY <1>2, <1>3, <2>1
  <2> QED BY <2>1, <2>2, <2>3
<1>6. i + m - 1 <= n <=> i + FromLen - 2 <= n
  BY <1>1
<1> QED BY <1>4, <1>5, <1>6 DEF FromLine, want, s, n

LEMMA SummedStep ==
  ASSUME NEW X, NEW t \in Seq(X), NEW c \in X
  PROVE  SummedIn(t \o <<c>>) =
           (SummedIn(t) \ (IF Opens(t \o <<c>>, FromLen) THEN {Len(t) - FromLen + 3} ELSE {}))
             \cup (IF c \in Unsummed THEN {} ELSE {Len(t) + 1})
<1> DEFINE u == t \o <<c>>
           n == Len(t)
           x == n - FromLen + 3
<1>1. u \in Seq(X) /\ Len(u) = n + 1 /\ n \in Nat /\ u[n + 1] = c /\ \A i \in 1 .. n : u[i] = t[i]
  OBVIOUS
<1>2. FromLen \in Nat /\ FromLen >= 3 /\ DOMAIN u = 1 .. n + 1 /\ DOMAIN t = 1 .. n
  BY <1>1, FromTypes
<1> HIDE DEF u, n
<1>3. ASSUME NEW i \in 1 .. n PROVE FromLine(u, i) <=> FromLine(t, i) \/ (Opens(u, FromLen) /\ i = x)
  <2> DEFINE Start(s) == i = 1 \/ s[i - 1] = "nl"
             All(s)   == \A j \in 2 .. FromLen : s[i + j - 2] = FromSeq[j]
  <2>1. FromLine(u, i) <=> Start(u) /\ i + FromLen - 2 <= n + 1 /\ All(u)
    <3>1. i \in 1 .. Len(u)
      BY <1>1
    <3> QED BY <1>1, <3>1, FromLineIs
  <2>2. FromLine(t, i) <=> Start(t) /\ i + FromLen - 2 <= n /\ All(t)
    BY FromLineIs DEF n
  <2>3. Start(u) <=> Start(t)
    BY <1>1
  <2>4. ASSUME i + FromLen - 2 <= n PROVE All(u) <=> All(t)
    <3>1. \A j \in 2 .. FromLen : i + j - 2 \in 1 .. n
      BY <1>1, <1>2, <2>4
    <3> QED BY <1>1, <3>1
  <2>5. ASSUME i = x PROVE Opens(u, FromLen) <=> Start(u) /\ All(u)
    <3> DEFINE q == n + 1 - FromLen + 1
    <3>1. q = i - 1 /\ Len(u) - FromLen + 1 = q /\ q \in Nat /\ (q = 0 <=> i = 1)
      BY <1>1, <1>2, <2>5
    <3>2. \A j \in 2 .. FromLen : q + j - 1 = i + j - 2
      BY <1>1, <1>2, <3>1
    <3> HIDE DEF q
    <3> QED BY <3>1, <3>2 DEF Opens
  <2>6. i + FromLen - 2 <= n + 1 <=> i + FromLen - 2 <= n \/ i = x
    BY <1>1, <1>2
  <2>7. i = x => ~(i + FromLen - 2 <= n)
    BY <1>1, <1>2
  <2> HIDE DEF x, Start, All
  <2> QED BY <2>1, <2>2, <2>3, <2>4, <2>5, <2>6, <2>7
<1>4. ~FromLine(u, n + 1)
  <2>1. n + 1 \in 1 .. Len(u) /\ ~(n + 1 + FromLen - 2 <= n + 1)
    BY <1>1, <1>2
  <2> QED BY <1>1, <2>1, FromLineIs
<1>5. \A i : i \in SummedIn(u) <=> (i \in 1 .. n /\ i \in SummedIn(u)) \/ (i = n + 1 /\ c \notin Unsummed)
  <2>1. \A i \in 1 .. n + 1 : i \in 1 .. n \/ i = n + 1
    BY <1>1
  <2>2. n + 1 \in 1 .. n + 1
    BY <1>1
  <2>3. \A i : i \in SummedIn(u) <=> i \in 1 .. n + 1 /\ u[i] \notin Unsummed /\ ~FromLine(u, i)
    BY <1>2 DEF SummedIn
  <2> QED BY <1>1, <1>4, <2>1, <2>2, <2>3
<1>6. \A i \in 1 .. n : i \in SummedIn(u) <=> i \in SummedIn(t) /\ ~(Opens(u, FromLen) /\ i = x)
  <2>1. \A i \in 1 .. n : i \in 1 .. n + 1
    BY <1>1
  <2> QED BY <1>1, <1>2, <1>3, <2>1 DEF SummedIn
<1>7. \A i \in SummedIn(t) : i \in 1 .. n
  BY <1>2 DEF SummedIn
<1> HIDE DEF x
<1>8. \A i : i \in SummedIn(u) <=> (i \in SummedIn(t) /\ ~(Opens(u, FromLen) /\ i = x)) \/ (i = n + 1 /\ c \notin Unsummed)
  BY <1>5, <1>6, <1>7
<1>9. SummedIn(u) = (SummedIn(t) \ (IF Opens(u, FromLen) THEN {x} ELSE {})) \cup (IF c \in Unsummed THEN {} ELSE {n + 1})
  BY <1>8
<1> QED BY <1>9 DEF u, n, x

-----------------------------------------------------------------------------
(* How much of a text is decided: what may yet become ">From" is not.      *)
Decided(s, t) == IF s.flen = 0 THEN Len(t) ELSE Len(t) - s.flen + 1

SumOf(s, t, X) ==
  /\ t \in Seq(X) /\ s \in [flen : 0 .. FromLen - 1, sum : Seq(X)]
  /\ \A k \in 1 .. FromLen - 1 : s.flen = k <=> Opens(t, k)
  /\ Decided(s, t) \in 0 .. Len(t)
  /\ s.sum = Select(t, {i \in SummedIn(t) : i <= Decided(s, t)})

LEMMA SummedPlaces == \A t : SummedIn(t) \in SUBSET (DOMAIN t)
BY DEF SummedIn

(* What is pending is the rest of the text, and all of it is kept.         *)
LEMMA RestPends ==
  ASSUME NEW X, STRING \subseteq X, NEW s, NEW t, SumOf(s, t, X)
  PROVE  LET q == Decided(s, t)
         IN  /\ SummedIn(t) = {i \in SummedIn(t) : i <= q} \cup (q + 1 .. Len(t))
             /\ Pending(s) = SubSeq(t, q + 1, Len(t))
<1> DEFINE n == Len(t)
           q == Decided(s, t)
           k == s.flen
<1>1. n \in Nat /\ t \in Seq(X) /\ DOMAIN t = 1 .. n /\ k \in 0 .. FromLen - 1 /\ q \in 0 .. n
  BY DEF SumOf
<1>2. FromLen \in Nat /\ FromLen >= 3 /\ FromSeq \in Seq(STRING) /\ Len(FromSeq) = FromLen
  BY FromTypes DEF FromLen
<1>3. \A i \in SummedIn(t) : i \in 1 .. n
  BY <1>1, SummedPlaces
<1>4. CASE k = 0
  <2>1. q = n
    BY <1>4 DEF Decided
  <2>2. q + 1 .. n = {} /\ SummedIn(t) = {i \in SummedIn(t) : i <= q}
    BY <1>1, <1>3, <2>1
  <2>3. Pending(s) = <<>> /\ SubSeq(t, q + 1, n) = <<>>
    BY <1>1, <1>2, <1>4, <2>1 DEF Pending
  <2> QED BY <2>2, <2>3
<1>5. CASE k # 0
  <2>1. q = n - k + 1 /\ k \in 1 .. FromLen - 1
    BY <1>1, <1>2, <1>5 DEF Decided
  <2>2. Opens(t, k)
    BY <2>1 DEF SumOf
  <2>3. \A j \in 2 .. k : t[q + j - 1] = FromSeq[j]
    BY <2>1, <2>2 DEF Opens
  <2> HIDE DEF n, q, k
  <2>4. ASSUME NEW i \in q + 1 .. n PROVE t[i] = FromSeq[i - q + 1] /\ i - q + 1 \in 2 .. k /\ i \in 1 .. n
    <3>1. i - q + 1 \in 2 .. k /\ q + (i - q + 1) - 1 = i /\ i \in 1 .. n
      BY <1>1, <1>2, <2>1
    <3> QED BY <2>3, <3>1
  <2>5. \A i \in q + 1 .. n : t[i] \notin Unsummed /\ t[i] # "nl"
    <3>1. \A j \in 2 .. k : j \in 2 .. FromLen
      BY <1>1, <1>2, <2>1
    <3> QED BY <2>4, <3>1, FromTypes
  <2>6. ASSUME NEW i \in q + 1 .. n PROVE ~FromLine(t, i)
    <3>1. i \in 1 .. n /\ ~(i + FromLen - 2 <= n)
      BY <1>1, <1>2, <2>1
    <3> QED BY <1>1, <3>1, FromLineIs DEF n
  <2>7. \A i \in q + 1 .. n : i \in SummedIn(t)
    BY <1>1, <2>4, <2>5, <2>6 DEF SummedIn
  <2>8. \A i \in 1 .. n : i <= q \/ i \in q + 1 .. n
    BY <1>1
  <2>9. SummedIn(t) = {i \in SummedIn(t) : i <= q} \cup (q + 1 .. n)
    BY <1>3, <2>7, <2>8
  <2>10. Pending(s) = SubSeq(t, q + 1, n)
    <3> DEFINE p == SubSeq(FromSeq, 2, k)
               r == SubSeq(t, q + 1, n)
    <3>1. p \in Seq(STRING) /\ Len(p) = k - 2 + 1 /\ \A j \in 1 .. k - 2 + 1 : p[j] = FromSeq[2 + j - 1]
      <4>1. 2 \in 1 .. Len(FromSeq) + 1 /\ k \in 2 - 1 .. Len(FromSeq)
        BY <1>2, <2>1
      <4> QED BY <1>2, <4>1, PartOf
    <3>2. r \in Seq(X) /\ Len(r) = n - (q + 1) + 1 /\ \A j \in 1 .. n - (q + 1) + 1 : r[j] = t[(q + 1) + j - 1]
      <4>1. q + 1 \in 1 .. Len(t) + 1 /\ n \in q + 1 - 1 .. Len(t)
        BY <1>1, <2>1 DEF n
      <4> QED BY <1>1, <4>1, PartOf
    <3>3. n - (q + 1) + 1 = k - 2 + 1 /\ k - 2 + 1 = k - 1 /\ k - 1 \in Nat
      BY <1>1, <1>2, <2>1
    <3>4. \A j \in 1 .. k - 1 : j + 1 \in 2 .. k /\ q + (j + 1) - 1 = (q + 1) + j - 1 /\ 2 + j - 1 = j + 1
      BY <1>1, <1>2, <2>1
    <3> HIDE DEF p, r
    <3>5. \A j \in 1 .. k - 1 : p[j] = r[j]
      BY <2>3, <3>1, <3>2, <3>3, <3>4
    <3>6. p = r
      BY <3>1, <3>2, <3>3, <3>5, SameSeq
    <3> QED BY <3>6 DEF p, r, Pending, k
  <2> QED BY <2>9, <2>10 DEF n, q
<1> QED BY <1>4, <1>5

LEMMA FreshSum == ASSUME NEW X PROVE SumOf(FreshBody, <<>>, X)
<1>1. \A k \in 1 .. FromLen - 1 : FreshBody.flen = k <=> Opens(<<>>, k)
  <2> TAKE k \in 1 .. FromLen - 1
  <2>1. Len(<<>>) - k + 1 = 1 - k /\ (1 - k \in Nat <=> k = 1) /\ (k = 1 => 1 - k = 0 /\ 2 .. k = {})
    BY FromTypes
  <2> QED BY <2>1 DEF Opens, FreshBody
<1>2. Decided(FreshBody, <<>>) = 0
  BY DEF Decided, FreshBody
<1>3. SummedIn(<<>>) = {}
  BY DEF SummedIn
<1>4. Select(<<>>, {}) = <<>>
  <2>1. Select(<<>>, {}) \in Seq(X) /\ Len(Select(<<>>, {})) = 0
    <3>1. <<>> \in Seq(X) /\ {} \in SUBSET (DOMAIN <<>>)
      OBVIOUS
    <3> QED BY <3>1, SelectType, FS_EmptySet
  <2> QED BY <2>1
<1>5. {i \in SummedIn(<<>>) : i <= 0} = {}
  BY <1>3
<1>6. FreshBody \in [flen : 0 .. FromLen - 1, sum : Seq(X)] /\ FreshBody.sum = <<>>
  BY FromTypes DEF FreshBody
<1>7. Decided(FreshBody, <<>>) \in 0 .. Len(<<>>) /\ <<>> \in Seq(X)
  BY <1>2
<1>8. FreshBody.sum = Select(<<>>, {i \in SummedIn(<<>>) : i <= Decided(FreshBody, <<>>)})
  BY <1>2, <1>4, <1>5, <1>6
<1> QED BY <1>1, <1>6, <1>7, <1>8 DEF SumOf

LEMMA SumIs ==
  ASSUME NEW X, STRING \subseteq X, NEW s, NEW t, SumOf(s, t, X)
  PROVE  s.sum \o Pending(s) = BodyText(t)
<1> DEFINE q == Decided(s, t)
           n == Len(t)
           S == {i \in SummedIn(t) : i <= q}
<1>1. t \in Seq(X) /\ q \in 0 .. n /\ n \in Nat /\ DOMAIN t = 1 .. n
  BY DEF SumOf
<1>2. SummedIn(t) = S \cup (q + 1 .. n) /\ Pending(s) = SubSeq(t, q + 1, n) /\ s.sum = Select(t, S)
  BY RestPends DEF SumOf
<1>3. S \in SUBSET (1 .. q)
  <2>1. \A i \in SummedIn(t) : i \in 1 .. n
    BY <1>1, SummedPlaces
  <2> HIDE DEF q, n
  <2> QED BY <1>1, <2>1
<1>4. q \in 0 .. Len(t) /\ n \in q .. Len(t)
  BY <1>1
<1> HIDE DEF q, S
<1>5. Select(t, S \cup (q + 1 .. n)) = Select(t, S) \o SubSeq(t, q + 1, n)
  BY <1>1, <1>3, <1>4, SelectRun
<1> QED BY <1>2, <1>5 DEF BodyText

(* The three cases of BodyByte: a match goes on, is complete, or fails.    *)
Matched(s, c)  == s.flen # 0 /\ c = FromSeq[s.flen + 1]

LEMMA MatchStep ==
  ASSUME NEW X, NEW s, NEW t, SumOf(s, t, X), NEW c \in X
  PROVE  LET r == BodyByte(s, c)
             u == t \o <<c>>
         IN  /\ r.flen \in 0 .. FromLen - 1 /\ \A k \in 1 .. FromLen - 1 : r.flen = k <=> Opens(u, k)
             /\ Opens(u, FromLen) <=> Matched(s, c) /\ s.flen + 1 = FromLen
<1> DEFINE r == BodyByte(s, c)
           u == t \o <<c>>
           k == s.flen
<1>1. t \in Seq(X) /\ s \in [flen : 0 .. FromLen - 1, sum : Seq(X)] /\ k \in 0 .. FromLen - 1
  BY DEF SumOf
<1>2. FromLen \in Nat /\ FromLen >= 3
  BY FromTypes
<1>3. Opens(u, 1) <=> c = "nl"
  BY <1>1, OpensStep
<1>4. \A j \in 2 .. FromLen : Opens(u, j) <=> k = j - 1 /\ c = FromSeq[j]
  <2> TAKE j \in 2 .. FromLen
  <2>1. Opens(u, j) <=> Opens(t, j - 1) /\ c = FromSeq[j]
    BY <1>1, OpensStep
  <2>2. j - 1 \in 1 .. FromLen - 1
    BY <1>2
  <2>3. k = j - 1 <=> Opens(t, j - 1)
    BY <2>2 DEF SumOf
  <2> QED BY <2>1, <2>3
<1>5. \A j \in 2 .. FromLen : FromSeq[j] # "nl"
  BY FromTypes
<1>6. r.flen = CASE Matched(s, c) /\ k + 1 < FromLen -> k + 1
                 [] Matched(s, c) /\ k + 1 = FromLen -> 0
                 [] ~Matched(s, c) -> IF c = "nl" THEN 1 ELSE 0
  <2>1. k + 1 < FromLen \/ k + 1 = FromLen
    BY <1>1, <1>2
  <2> QED BY <1>1, <1>2, <2>1 DEF BodyByte, FromLen, Matched
<1> HIDE DEF r, u
<1>7. Opens(u, FromLen) <=> Matched(s, c) /\ k + 1 = FromLen
  <2>1. FromLen \in 2 .. FromLen /\ (k = FromLen - 1 <=> k + 1 = FromLen) /\ FromLen - 1 # 0
    BY <1>1, <1>2
  <2> QED BY <1>4, <2>1 DEF Matched
<1>8. ASSUME NEW j \in 1 .. FromLen - 1 PROVE r.flen = j <=> Opens(u, j)
  <2>1. j = 1 \/ (j \in 2 .. FromLen /\ j - 1 # 0 /\ j # 1 /\ j # 0 /\ j # FromLen)
    BY <1>2
  <2>2. /\ k + 1 = j <=> k = j - 1
        /\ k # 0 => k + 1 \in 2 .. FromLen /\ k + 1 # 1
        /\ k + 1 < FromLen \/ k + 1 = FromLen
        /\ k + 1 < FromLen => k + 1 # FromLen
    BY <1>1, <1>2
  <2> DEFINE k1 == k + 1
  <2> HIDE DEF k1
  <2>3. CASE Matched(s, c) /\ k1 < FromLen
    BY <1>3, <1>4, <1>5, <1>6, <2>1, <2>2, <2>3 DEF Matched, k1
  <2>4. CASE Matched(s, c) /\ k1 = FromLen
    BY <1>3, <1>4, <1>5, <1>6, <2>1, <2>2, <2>4 DEF Matched, k1
  <2>5. CASE ~Matched(s, c)
    <3>1. r.flen = IF c = "nl" THEN 1 ELSE 0
      BY <1>6, <2>5
    <3>2. j \in 2 .. FromLen => ~Opens(u, j)
      BY <1>4, <2>1, <2>2, <2>5 DEF Matched
    <3> QED BY <1>3, <2>1, <3>1, <3>2
  <2> QED BY <2>2, <2>3, <2>4, <2>5 DEF k1
<1>9. r.flen \in 0 .. FromLen - 1
  BY <1>1, <1>2, <1>6
<1> QED BY <1>7, <1>8, <1>9 DEF r, u

LEMMA BodyStep ==
  ASSUME NEW X, STRING \subseteq X, NEW s, NEW t, SumOf(s, t, X), NEW c \in X
  PROVE  SumOf(BodyByte(s, c), t \o <<c>>, X)
<1> DEFINE r == BodyByte(s, c)
           u == t \o <<c>>
           k == s.flen
           n == Len(t)
           q == Decided(s, t)
           S == {i \in SummedIn(t) : i <= q}
<1>1. /\ t \in Seq(X) /\ s \in [flen : 0 .. FromLen - 1, sum : Seq(X)] /\ k \in 0 .. FromLen - 1
      /\ n \in Nat /\ q \in 0 .. n /\ DOMAIN t = 1 .. n /\ s.sum = Select(t, S)
  BY DEF SumOf
<1>2. FromLen \in Nat /\ FromLen >= 3 /\ \A j \in 2 .. FromLen : FromSeq[j] \notin Unsummed
  BY FromTypes
<1>3. u \in Seq(X) /\ Len(u) = n + 1 /\ u[n + 1] = c /\ DOMAIN u = 1 .. n + 1
  BY <1>1
<1>4. /\ r.flen \in 0 .. FromLen - 1 /\ \A j \in 1 .. FromLen - 1 : r.flen = j <=> Opens(u, j)
      /\ Opens(u, FromLen) <=> Matched(s, c) /\ k + 1 = FromLen
  BY MatchStep
<1>5. SummedIn(u) = (SummedIn(t) \ (IF Opens(u, FromLen) THEN {n - FromLen + 3} ELSE {}))
                      \cup (IF c \in Unsummed THEN {} ELSE {n + 1})
  BY <1>1, SummedStep
<1>6. \A i \in SummedIn(t) : i \in 1 .. n
  BY <1>1, SummedPlaces
<1>7. \A P \in SUBSET (1 .. n) : Select(u, P) = Select(t, P)
  <2> TAKE P \in SUBSET (1 .. n)
  <2>1. u = Append(t, c)
    BY <1>1
  <2>2. P \in SUBSET (DOMAIN t)
    BY <1>1
  <2>3. Select(Append(t, c), P) = Select(t, P)
    BY <1>1, <2>2, SelectAppend
  <2> QED BY <2>1, <2>3
<1>8. S \in SUBSET (1 .. q) /\ S \in SUBSET (1 .. n)
  <2> HIDE DEF q, n
  <2> QED BY <1>1, <1>6
<1>9. k # 0 => q = n - k + 1
  BY DEF Decided
<1> SUFFICES /\ r \in [flen : 0 .. FromLen - 1, sum : Seq(X)]
             /\ Decided(r, u) \in 0 .. n + 1
             /\ r.sum = Select(u, {i \in SummedIn(u) : i <= Decided(r, u)})
  BY <1>3, <1>4 DEF SumOf
<1> HIDE DEF r, u, n, q
<1>10. CASE Matched(s, c) /\ k + 1 # FromLen
  <2>1. r = [s EXCEPT !.flen = @ + 1]
    BY <1>1, <1>2, <1>10 DEF BodyByte, FromLen, Matched, r
  <2>2. r.flen = k + 1 /\ r.sum = s.sum /\ r \in [flen : 0 .. FromLen - 1, sum : Seq(X)]
    BY <1>1, <1>4, <2>1
  <2>3. Decided(r, u) = q
    BY <1>1, <1>3, <1>9, <1>10, <2>2 DEF Decided, Matched
  <2>4. {i \in SummedIn(u) : i <= q} = S
    <3>1. ~Opens(u, FromLen) /\ ~(n + 1 <= q)
      BY <1>1, <1>4, <1>10
    <3> QED BY <1>5, <3>1
  <2>5. Select(u, S) = s.sum
    BY <1>1, <1>7, <1>8
  <2>6. q \in 0 .. n + 1
    BY <1>1
  <2>7. {i \in SummedIn(u) : i <= Decided(r, u)} = S
    BY <2>3, <2>4
  <2> HIDE DEF S
  <2> QED BY <2>2, <2>3, <2>5, <2>6, <2>7
<1>11. CASE Matched(s, c) /\ k + 1 = FromLen
  <2> DEFINE rest == SubSeq(FromSeq, 3, FromLen)
  <2>1. r = [flen |-> 0, sum |-> s.sum \o rest]
    BY <1>1, <1>2, <1>11 DEF BodyByte, FromLen, Matched, r
  <2>2. Decided(r, u) = n + 1
    BY <1>3, <2>1 DEF Decided
  <2>3. q = n - FromLen + 2 /\ q + 1 \in 0 .. n + 1 /\ n + 1 \in q + 1 .. n + 1 /\ n - FromLen + 3 = q + 1
    BY <1>1, <1>2, <1>9, <1>11 DEF Matched
  <2>4. c \notin Unsummed
    BY <1>1, <1>2, <1>11 DEF Matched
  <2>5. {i \in SummedIn(u) : i <= n + 1} = S \cup (q + 2 .. n + 1)
    <3>1. SummedIn(t) = S \cup (q + 1 .. n)
      BY RestPends DEF n, q
    <3>2. SummedIn(u) = (SummedIn(t) \ {q + 1}) \cup {n + 1}
      BY <1>4, <1>5, <1>11, <2>3, <2>4
    <3>3. \A i \in SummedIn(u) : i <= n + 1
      BY <1>1, <1>6, <3>2
    <3>4. q + 1 \notin S
      BY <1>1
    <3>5. ((q + 1 .. n) \ {q + 1}) \cup {n + 1} = q + 2 .. n + 1
      BY <1>1, <2>3, <1>2
    <3> HIDE DEF S
    <3>6. SummedIn(u) = S \cup (q + 2 .. n + 1)
      BY <3>1, <3>2, <3>4, <3>5
    <3> QED BY <3>3, <3>6
  <2>6. S \in SUBSET (1 .. q + 1)
    BY <1>1, <1>8
  <2>7. Select(u, S \cup (q + 1 + 1 .. n + 1)) = Select(u, S) \o SubSeq(u, q + 1 + 1, n + 1)
    <3> DEFINE e == q + 1
               m == n + 1
    <3>1. e \in 0 .. Len(u) /\ m \in e .. Len(u) /\ S \in SUBSET (1 .. e)
      BY <1>3, <2>3, <2>6
    <3> HIDE DEF e, m, S
    <3>2. Select(u, S \cup (e + 1 .. m)) = Select(u, S) \o SubSeq(u, e + 1, m)
      BY <1>3, <3>1, SelectRun
    <3> QED BY <3>2 DEF e, m
  <2>8. SubSeq(u, q + 1 + 1, n + 1) = rest /\ rest \in Seq(X)
    <3> DEFINE x == SubSeq(u, q + 1 + 1, n + 1)
    <3>1. q + 1 + 1 \in 1 .. Len(u) + 1 /\ n + 1 \in q + 1 + 1 - 1 .. Len(u) /\ n + 1 - (q + 1 + 1) + 1 = FromLen - 2
      BY <1>1, <1>2, <1>3, <2>3
    <3>2. x \in Seq(X) /\ Len(x) = FromLen - 2 /\ \A j \in 1 .. FromLen - 2 : x[j] = u[q + 1 + 1 + j - 1]
      <4> DEFINE e == q + 1 + 1
                 m == n + 1
      <4>1. e \in 1 .. Len(u) + 1 /\ m \in e - 1 .. Len(u) /\ m - e + 1 = FromLen - 2
        BY <1>1, <1>2, <1>3, <2>3
      <4> HIDE DEF e, m
      <4>2. LET y == SubSeq(u, e, m)
            IN  y \in Seq(X) /\ Len(y) = FromLen - 2 /\ \A j \in 1 .. FromLen - 2 : y[j] = u[e + j - 1]
        BY <1>3, <4>1, PartOf
      <4> QED BY <4>2 DEF e, m
    <3>3. rest \in Seq(STRING) /\ Len(rest) = FromLen - 2 /\ \A j \in 1 .. FromLen - 2 : rest[j] = FromSeq[3 + j - 1]
      <4>1. FromSeq \in Seq(STRING) /\ 3 \in 1 .. Len(FromSeq) + 1 /\ FromLen \in 3 - 1 .. Len(FromSeq) /\ FromLen - 3 + 1 = FromLen - 2
        BY <1>2, FromTypes DEF FromLen
      <4> QED BY <4>1, PartOf
    <3>4. ASSUME NEW j \in 1 .. FromLen - 2 PROVE x[j] = rest[j]
      <4>1. /\ FromLen \in 2 .. FromLen /\ Opens(u, FromLen) /\ Len(u) - FromLen + 1 = q
            /\ j + 2 \in 2 .. FromLen /\ q + (j + 2) - 1 = q + 1 + 1 + j - 1 /\ 3 + j - 1 = j + 2
        BY <1>1, <1>2, <1>3, <1>4, <1>11, <2>3
      <4>2. u[q + (j + 2) - 1] = FromSeq[j + 2]
        BY <4>1 DEF Opens
      <4> QED BY <3>2, <3>3, <4>1, <4>2
    <3>5. FromLen - 2 \in Nat
      BY <1>2
    <3> HIDE DEF x, rest
    <3>6. x = rest
      BY <3>2, <3>3, <3>4, <3>5, SameSeq
    <3> QED BY <3>2, <3>6 DEF x
  <2>9. q + 1 + 1 = q + 2
    BY <1>1
  <2>10. r.sum = Select(u, {i \in SummedIn(u) : i <= Decided(r, u)})
    <3> HIDE DEF rest, S
    <3> QED BY <1>1, <1>7, <1>8, <2>1, <2>2, <2>5, <2>7, <2>8, <2>9
  <2>12. r \in [flen : 0 .. FromLen - 1, sum : Seq(X)] /\ Decided(r, u) \in 0 .. n + 1
    <3> HIDE DEF rest
    <3> QED BY <1>1, <1>2, <2>1, <2>2, <2>8
  <2> QED BY <2>10, <2>12
<1>12. CASE ~Matched(s, c)
  <2> DEFINE was == s.sum \o Pending(s)
  <2>1. r = [flen |-> IF c = "nl" THEN 1 ELSE 0, sum |-> was \o Summed(c)]
    BY <1>1, <1>12 DEF BodyByte, Matched, r
  <2>2. Decided(r, u) = n + 1
    BY <1>1, <1>3, <2>1 DEF Decided
  <2>3. was = Select(u, SummedIn(t))
    <3>1. SummedIn(t) \in SUBSET (1 .. n)
      BY <1>6
    <3> QED BY <1>7, <3>1, SumIs DEF BodyText
  <2>4. ~Opens(u, FromLen)
    BY <1>4, <1>12
  <2>7. (IF c = "nl" THEN 1 ELSE 0) \in 0 .. FromLen - 1
    BY <1>2
  <2>8. n + 1 \in 0 .. n + 1
    BY <1>1
  <2>5. CASE c \in Unsummed
    <3>1. Summed(c) = <<>> /\ SummedIn(u) = SummedIn(t)
      BY <1>5, <2>4, <2>5 DEF Summed
    <3>2. {i \in SummedIn(u) : i <= n + 1} = SummedIn(t)
      BY <1>1, <1>6, <3>1
    <3>3. was \in Seq(X) /\ was \o <<>> = was
      <4>1. SummedIn(t) \in SUBSET (DOMAIN u)
        BY <1>1, <1>3, <1>6
      <4>2. was \in Seq(X)
        BY <1>3, <2>3, <4>1, SelectType
      <4> HIDE DEF was
      <4> QED BY <4>2
    <3> HIDE DEF was
    <3>4. r.sum = was /\ r \in [flen : 0 .. FromLen - 1, sum : Seq(X)]
      BY <2>1, <2>7, <3>1, <3>3
    <3> QED BY <2>2, <2>3, <2>8, <3>2, <3>4
  <2>6. CASE c \notin Unsummed
    <3>1. Summed(c) = <<c>> /\ SummedIn(u) = SummedIn(t) \cup {n + 1}
      BY <1>5, <2>4, <2>6 DEF Summed
    <3>2. {i \in SummedIn(u) : i <= n + 1} = SummedIn(t) \cup {n + 1}
      BY <1>1, <1>6, <3>1
    <3>3. Select(u, SummedIn(t) \cup (n + 1 .. n + 1)) = Select(u, SummedIn(t)) \o SubSeq(u, n + 1, n + 1)
      <4> DEFINE m == n + 1
      <4>1. n \in 0 .. Len(u) /\ m \in n .. Len(u) /\ SummedIn(t) \in SUBSET (1 .. n)
        BY <1>1, <1>3, <1>6
      <4> HIDE DEF m
      <4>2. Select(u, SummedIn(t) \cup (n + 1 .. m)) = Select(u, SummedIn(t)) \o SubSeq(u, n + 1, m)
        BY <1>3, <4>1, SelectRun
      <4> QED BY <4>2 DEF m
    <3>4. n + 1 .. n + 1 = {n + 1} /\ SubSeq(u, n + 1, n + 1) = <<c>>
      <4> DEFINE m == n + 1
      <4>1. m \in 1 .. Len(u) + 1 /\ m \in m - 1 .. Len(u) /\ m - m + 1 = 1 /\ m + 1 - 1 = m /\ m .. m = {m} /\ u[m] = c
        BY <1>1, <1>3
      <4> HIDE DEF m
      <4>2. LET y == SubSeq(u, m, m) IN y \in Seq(X) /\ Len(y) = 1 /\ y[1] = c
        BY <1>3, <4>1, PartOf
      <4> DEFINE y == SubSeq(u, m, m)
      <4>5. <<c>> \in Seq(X) /\ Len(<<c>>) = 1 /\ <<c>>[1] = c
        OBVIOUS
      <4>6. y \in Seq(X) /\ Len(y) = 1 /\ y[1] = c
        BY <4>2
      <4> HIDE DEF y
      <4>7. \A j \in 1 .. 1 : y[j] = <<c>>[j]
        BY <4>5, <4>6
      <4>8. y = <<c>>
        BY <4>5, <4>6, <4>7, SameSeq
      <4>3. SubSeq(u, m, m) = <<c>>
        BY <4>8 DEF y
      <4> QED BY <4>1, <4>3 DEF m
    <3>5. was \in Seq(X) /\ was \o <<c>> \in Seq(X)
      <4>1. SummedIn(t) \in SUBSET (DOMAIN u)
        BY <1>1, <1>3, <1>6
      <4>2. was \in Seq(X)
        BY <1>3, <2>3, <4>1, SelectType
      <4> HIDE DEF was
      <4> QED BY <4>2
    <3> HIDE DEF was
    <3>6. r.sum = was \o <<c>> /\ r \in [flen : 0 .. FromLen - 1, sum : Seq(X)]
      BY <2>1, <2>7, <3>1, <3>5
    <3>7. {i \in SummedIn(u) : i <= Decided(r, u)} = SummedIn(t) \cup (n + 1 .. n + 1)
      BY <2>2, <3>2, <3>4
    <3>8. Select(u, SummedIn(t) \cup (n + 1 .. n + 1)) = was \o <<c>>
      BY <2>3, <3>3, <3>4
    <3> QED BY <2>2, <2>8, <3>6, <3>7, <3>8
  <2> QED BY <2>5, <2>6
<1> QED BY <1>10, <1>11, <1>12

(* What the loop of body0 makes of a state, byte after byte.               *)
IsLoop(h, s, bytes, n) == h = [i \in 0 .. n |-> IF i = 0 THEN s ELSE BodyByte(h[i - 1], bytes[i])]

LEMMA LoopRuns ==
  ASSUME NEW s, NEW bytes, NEW n \in Nat PROVE \E h : IsLoop(h, s, bytes, n)
<1> DEFINE Runs(m) == \E h : IsLoop(h, s, bytes, m)
           bad     == {m \in Nat : ~Runs(m)}
<1> SUFFICES ASSUME bad # {} PROVE FALSE
  OBVIOUS
<1>1. PICK m \in bad : \A i \in bad : m <= i
  BY LeastNat
<1>2. Runs(0)
  <2>1. [i \in 0 .. 0 |-> s] = [i \in 0 .. 0 |-> IF i = 0 THEN s ELSE BodyByte([j \in 0 .. 0 |-> s][i - 1], bytes[i])]
    OBVIOUS
  <2> QED BY <2>1 DEF IsLoop
<1>3. m \in Nat /\ m # 0 /\ m - 1 \in Nat /\ ~(m <= m - 1)
  <2> HIDE DEF Runs
  <2> QED BY <1>1, <1>2
<1>4. PICK h : h = [i \in 0 .. m - 1 |-> IF i = 0 THEN s ELSE BodyByte(h[i - 1], bytes[i])]
  BY <1>1, <1>3 DEF IsLoop
<1> DEFINE k == [i \in 0 .. m |-> IF i = m THEN BodyByte(h[m - 1], bytes[m]) ELSE h[i]]
<1>5. \A i \in 0 .. m : k[i] = IF i = 0 THEN s ELSE BodyByte(k[i - 1], bytes[i])
  <2> TAKE i \in 0 .. m
  <2>1. CASE i = 0
    <3>1. 0 \in 0 .. m - 1 /\ 0 \in 0 .. m /\ 0 # m
      BY <1>3
    <3>2. h[0] = s
      BY <1>4, <3>1
    <3> QED BY <2>1, <3>1, <3>2
  <2>2. CASE i # 0
    <3>1. i - 1 \in 0 .. m - 1 /\ i - 1 \in 0 .. m /\ i - 1 # m
      BY <1>3, <2>2
    <3>2. k[i - 1] = h[i - 1]
      BY <3>1
    <3>3. i # m => i \in 0 .. m - 1
      BY <1>3
    <3>4. i # m => h[i] = BodyByte(h[i - 1], bytes[i])
      BY <1>4, <2>2, <3>3
    <3> QED BY <2>2, <3>2, <3>4
  <2> QED BY <2>1, <2>2
<1>6. k = [i \in 0 .. m |-> k[i]]
  OBVIOUS
<1> HIDE DEF k
<1>7. k = [i \in 0 .. m |-> IF i = 0 THEN s ELSE BodyByte(k[i - 1], bytes[i])]
  BY <1>5, <1>6
<1> QED BY <1>1, <1>7 DEF IsLoop

(* The loop of body0 keeps the sum that of the whole text.                 *)
LEMMA BodySums ==
  ASSUME NEW X, STRING \subseteq X, NEW s, NEW t, SumOf(s, t, X), NEW bytes \in Seq(X)
  PROVE  SumOf(Body0(s, bytes), t \o bytes, X)
<1> DEFINE L        == Len(bytes)
           after    == CHOOSE h : IsLoop(h, s, bytes, L)
           Part(n) == SubSeq(bytes, 1, n)
           bad      == {n \in 0 .. L : ~SumOf(after[n], t \o Part(n), X)}
<1>1. L \in Nat /\ t \in Seq(X)
  BY DEF SumOf
<1>2. IsLoop(after, s, bytes, L)
  BY <1>1, LoopRuns
<1>3. Body0(s, bytes) = after[L]
  BY DEF Body0, IsLoop
<1>4. after[0] = s /\ \A i \in 1 .. L : after[i] = BodyByte(after[i - 1], bytes[i])
  <2> HIDE DEF after
  <2>1. \A i \in 0 .. L : after[i] = IF i = 0 THEN s ELSE BodyByte(after[i - 1], bytes[i])
    BY <1>2 DEF IsLoop
  <2>2. 0 \in 0 .. L /\ \A i \in 1 .. L : i \in 0 .. L /\ i # 0
    BY <1>1
  <2> QED BY <2>1, <2>2
<1> HIDE DEF after
<1>5. bad = {}
  <2> SUFFICES ASSUME bad # {} PROVE FALSE
    OBVIOUS
  <2>0. bad \in SUBSET Nat
    OBVIOUS
  <2>1. PICK n \in bad : \A i \in bad : n <= i
    BY <2>0, LeastNat
  <2>2. n # 0
    <3>1. Part(0) = <<>> /\ t \o <<>> = t
      BY <1>1
    <3> QED BY <1>4, <2>1, <3>1
  <2>3. n \in 1 .. L /\ n - 1 \in 0 .. L /\ ~(n <= n - 1)
    BY <1>1, <2>1, <2>2
  <2>4. SumOf(after[n - 1], t \o Part(n - 1), X)
    BY <2>1, <2>3
  <2>5. bytes[n] \in X
    BY <2>3
  <2>6. SumOf(after[n], (t \o Part(n - 1)) \o <<bytes[n]>>, X)
    BY <1>4, <2>3, <2>4, <2>5, BodyStep
  <2>7. (t \o Part(n - 1)) \o <<bytes[n]>> = t \o Part(n)
    <3>1. Part(n - 1) \in Seq(X) /\ Part(n) = Part(n - 1) \o <<bytes[n]>>
      BY <2>3
    <3>2. <<bytes[n]>> \in Seq(X)
      BY <2>5
    <3> DEFINE p == Part(n - 1)
               c == <<bytes[n]>>
    <3>4. p \in Seq(X) /\ c \in Seq(X)
      BY <3>1, <3>2
    <3> HIDE DEF p, c, Part
    <3>3. (t \o p) \o c = t \o (p \o c)
      BY <1>1, <3>4
    <3> QED BY <3>1, <3>3 DEF p, c
  <2> QED BY <2>1, <2>6, <2>7
<1>6. Part(L) = bytes /\ L \in 0 .. L
  BY <1>1
<1> HIDE DEF L, Part
<1>7. SumOf(after[L], t \o Part(L), X)
  BY <1>5, <1>6
<1> QED BY <1>3, <1>6, <1>7

-----------------------------------------------------------------------------
(* In a body that is followed for it, BodySum has summed the bytes so far. *)
BodyInv ==
  /\ kind \in Kinds
  /\ Alphabet[kind].follow = "body" => SumOf(b, text, AbcOf(kind) \cup {"-", "a"} \cup STRING)

LEMMA InitBody == Init => BodyInv
BY FreshSum DEF Init, BodyInv

LEMMA NextBody == BodyInv /\ [Next]_vars => BodyInv'
<1> SUFFICES ASSUME BodyInv, [Next]_vars PROVE BodyInv'
  OBVIOUS
<1>1. kind' = kind
  BY DEF Next, Byte, Chunk, Boundary, Finish, vars
<1>2. CASE Alphabet[kind].follow # "body"
  BY <1>1, <1>2 DEF BodyInv
<1> SUFFICES ASSUME Alphabet[kind].follow = "body" PROVE SumOf(b', text', AbcOf(kind) \cup {"-", "a"} \cup STRING)
  BY <1>1, <1>2 DEF BodyInv
<1>3. ASSUME NEW bytes \in Seq(AbcOf(kind) \cup {"-", "a"} \cup STRING), NEW bytes2, Follow(bytes, bytes2)
      PROVE  SumOf(b', text', AbcOf(kind) \cup {"-", "a"} \cup STRING)
  <2>1. b' = Body0(b, bytes) /\ text' = text \o bytes
    BY <1>3 DEF Follow
  <2> QED BY <2>1, BodySums DEF BodyInv
<1>4. CASE Byte
  <2>1. PICK c \in NextBytes : Follow(<<c>>, <<c>>)
    BY <1>4 DEF Byte
  <2>2. <<c>> \in Seq(AbcOf(kind) \cup {"-", "a"} \cup STRING)
    BY NextAbc
  <2> QED BY <1>3, <2>1, <2>2
<1>5. CASE Chunk \/ UNCHANGED vars
  BY <1>5 DEF Chunk, vars, BodyInv
<1>6. CASE Boundary
  <2>1. <<"-", "a", "nl">> \in Seq(AbcOf(kind) \cup {"-", "a"} \cup STRING)
    BY DEF AbcOf
  <2>2. Follow(<<"-", "a", "nl">>, <<"nl">>)
    BY <1>6 DEF Boundary
  <2> QED BY <1>3, <2>1, <2>2
<1>7. CASE Finish
  BY <1>3, <1>7, <<>> \in Seq(AbcOf(kind) \cup {"-", "a"} \cup STRING) DEF Finish
<1> QED BY <1>4, <1>5, <1>6, <1>7 DEF Next

(* What the body checksum was given is what it should sum of the whole     *)
(* body, up to a line's start that may yet become ">From", for any such    *)
(* start, text, chunks and entities (body0).                               *)
THEOREM BodyIsSummedWhole == Spec => []BodySumsText
<1>1. BodyInv => BodySumsText
  BY SumIs DEF BodyInv, BodySumsText
<1> QED BY InitBody, NextBody, <1>1, PTL DEF Spec

-----------------------------------------------------------------------------
(* The letters of a host after its first k bytes.                          *)
After(h, k) == Select(h, {i \in k + 1 .. Len(h) : h[i] # "."})

(* From place i on, the line buffer holds these letters.                   *)
Holds(s, i, h, k) == Slice(s, i, s.cp) = After(h, k)

-----------------------------------------------------------------------------
LEMMA PlainGrows ==
  ASSUME NEW X, NEW h \in Seq(X), NEW c \in X, PlainHost(Append(h, c))
  PROVE  /\ PlainHost(h) /\ c \in Letters \cup {"."}
         /\ h # <<>> /\ c = "." => h[Len(h)] # "."
<1> DEFINE n == Len(h)
           u == Append(h, c)
<1>1. n \in Nat /\ Len(u) = n + 1 /\ u[n + 1] = c /\ (\A i \in 1 .. n : u[i] = h[i]) /\ DOMAIN h = 1 .. n /\ DOMAIN u = 1 .. n + 1
      /\ (h # <<>> => n \in 1 .. n)
  OBVIOUS
<1> HIDE DEF n, u
<1>2. /\ \A i \in DOMAIN u : u[i] \in Letters \cup {"."}
      /\ \A i \in DOMAIN u : i > 1 => ~(u[i] = "." /\ u[i - 1] = ".")
  BY DEF PlainHost, u
<1>3. c \in Letters \cup {"."}
  BY <1>1, <1>2
<1>4. ASSUME NEW i \in 1 .. n PROVE h[i] \in Letters \cup {"."} /\ (i > 1 => ~(h[i] = "." /\ h[i - 1] = "."))
  <2>1. i \in DOMAIN u /\ h[i] = u[i]
    BY <1>1
  <2>2. i > 1 => i - 1 \in 1 .. n
    BY <1>1
  <2>3. i > 1 => u[i - 1] = h[i - 1]
    BY <1>1, <2>2
  <2> QED BY <1>2, <2>1, <2>3
<1>5. h # <<>> /\ c = "." => h[n] # "."
  <2>1. h # <<>> => n + 1 \in DOMAIN u /\ n + 1 > 1 /\ (n + 1) - 1 = n /\ u[n] = h[n]
    BY <1>1
  <2> QED BY <1>1, <1>2, <2>1
<1> QED BY <1>1, <1>3, <1>4, <1>5 DEF PlainHost, n

LEMMA DotsGrow ==
  ASSUME NEW X, NEW h \in Seq(X), NEW c \in X
  PROVE  /\ Dots(Append(h, c)) = Dots(h) \cup (IF h # <<>> /\ h[Len(h)] = "." THEN {Len(h)} ELSE {})
         /\ \A k \in Dots(h) : k \in 0 .. Len(h) /\ k < Len(h)
<1> DEFINE n == Len(h)
           u == Append(h, c)
<1>1. n \in Nat /\ Len(u) = n + 1 /\ (\A i \in 1 .. n : u[i] = h[i]) /\ (h # <<>> <=> n # 0)
  OBVIOUS
<1> HIDE DEF n, u
<1>2. Dots(u) = {i \in 1 .. n : u[i] = "."}
  BY <1>1 DEF Dots
<1>3. Dots(u) = {i \in 1 .. n : h[i] = "."}
  BY <1>1, <1>2
<1>4. {i \in 1 .. n : h[i] = "."} = {i \in 1 .. n - 1 : h[i] = "."} \cup (IF h # <<>> /\ h[n] = "." THEN {n} ELSE {})
  <2>1. \A i : i \in 1 .. n <=> i \in 1 .. n - 1 \/ (n # 0 /\ i = n)
    BY <1>1
  <2> QED BY <1>1, <2>1
<1>5. \A k \in 1 .. n - 1 : k \in 0 .. n /\ k < n
  BY <1>1
<1> QED BY <1>3, <1>4, <1>5 DEF Dots, n, u

LEMMA AfterGrows ==
  ASSUME NEW X, NEW h \in Seq(X), NEW c \in X, NEW k \in 0 .. Len(h)
  PROVE  /\ After(h, k) \in Seq(X)
         /\ c = "." => After(Append(h, c), k) = After(h, k)
         /\ c # "." => After(Append(h, c), k) = Append(After(h, k), c)
         /\ c # "." => After(Append(h, c), Len(h)) = <<c>>
<1> DEFINE n == Len(h)
           u == Append(h, c)
           S == {i \in k + 1 .. n : h[i] # "."}
<1>1. n \in Nat /\ Len(u) = n + 1 /\ u[n + 1] = c /\ (\A i \in 1 .. n : u[i] = h[i]) /\ DOMAIN h = 1 .. n
      /\ DOMAIN u = 1 .. n + 1 /\ u \in Seq(X) /\ k \in 0 .. n
  OBVIOUS
<1> HIDE DEF u, n
<1>2. S \in SUBSET (DOMAIN h) /\ S \in SUBSET (1 .. n)
  <2>1. k + 1 .. n \subseteq 1 .. n
    BY <1>1
  <2> QED BY <1>1, <2>1
<1>3. {i \in k + 1 .. n + 1 : u[i] # "."} = S \cup (IF c = "." THEN {} ELSE {n + 1})
  <2>1. \A i : i \in k + 1 .. n + 1 <=> i \in k + 1 .. n \/ i = n + 1
    BY <1>1
  <2>2. \A i \in k + 1 .. n : u[i] = h[i]
    BY <1>1
  <2>3. u[n + 1] = c
    BY <1>1
  <2> QED BY <2>1, <2>2, <2>3
<1>4. {i \in n + 1 .. n + 1 : u[i] # "."} = IF c = "." THEN {} ELSE {n + 1}
  <2>1. \A i : i \in n + 1 .. n + 1 <=> i = n + 1
    BY <1>1
  <2> QED BY <1>1, <2>1
<1>5. After(h, k) = Select(h, S)
  BY DEF After, n
<1>6. After(u, k) = Select(u, S \cup (IF c = "." THEN {} ELSE {n + 1})) /\ After(u, n) = Select(u, IF c = "." THEN {} ELSE {n + 1})
  BY <1>1, <1>3, <1>4 DEF After
<1> HIDE DEF S
<1>7. Select(u, S) = Select(h, S) /\ Select(h, S) \in Seq(X)
  BY <1>2, SelectAppend, SelectType DEF u
<1>8. Select(u, {n + 1}) = <<c>>
  BY <1>1, SelectOne
<1>9. Select(u, S \cup {n + 1}) = Append(Select(h, S), c)
  <2>1. n \in 0 .. Len(u) /\ n + 1 \in n .. Len(u) /\ n + 1 .. n + 1 = {n + 1}
    BY <1>1
  <2>2. Select(u, S \cup (n + 1 .. n + 1)) = Select(u, S) \o SubSeq(u, n + 1, n + 1)
    BY <1>1, <1>2, <2>1, SelectRun
  <2>3. SubSeq(u, n + 1, n + 1) = <<c>>
    <3> DEFINE y == SubSeq(u, n + 1, n + 1)
    <3>1. n + 1 \in 1 .. Len(u) + 1 /\ n + 1 \in (n + 1) - 1 .. Len(u) /\ (n + 1) - (n + 1) + 1 = 1
      BY <1>1
    <3>2. y \in Seq(X) /\ Len(y) = 1 /\ \A j \in 1 .. 1 : y[j] = u[n + 1 + j - 1]
      BY <1>1, <3>1, PartOf
    <3> HIDE DEF y
    <3>3. y[1] = c
      BY <1>1, <3>2
    <3>4. <<c>> \in Seq(X) /\ Len(<<c>>) = 1 /\ \A j \in 1 .. 1 : y[j] = <<c>>[j]
      BY <3>3
    <3>5. y = <<c>>
      BY <3>2, <3>4, SameSeq
    <3> QED BY <3>5 DEF y
  <2> DEFINE q == Select(h, S)
  <2>4. q \in Seq(X)
    BY <1>7
  <2> HIDE DEF q
  <2>5. q \o <<c>> = Append(q, c)
    BY <2>4
  <2> QED BY <1>7, <2>1, <2>2, <2>3, <2>5 DEF q
<1>10. S \cup {} = S
  OBVIOUS
<1>11. CASE c = "."
  BY <1>5, <1>6, <1>7, <1>10, <1>11 DEF u, n
<1>12. CASE c # "."
  BY <1>5, <1>6, <1>7, <1>8, <1>9, <1>12 DEF u, n
<1> QED BY <1>11, <1>12

-----------------------------------------------------------------------------
LEMMA MaxOf ==
  ASSUME NEW S \in SUBSET Int, NEW m \in S, \A k \in S : k <= m PROVE Max(S) = m
<1>1. \A x \in S : (\A y \in S : x >= y) <=> x = m
  BY SMT
<1>2. Max(S) = CHOOSE x \in S : \A y \in S : x >= y
  BY DEF Max
<1>3. Max(S) \in S /\ \A y \in S : Max(S) >= y
  BY <1>1, <1>2
<1> QED BY <1>1, <1>3

(* The letters of the last two labels are those after the second last dot. *)
LEMMA LastLabelsAre ==
  ASSUME NEW h, Len(h) \in Nat
  PROVE  /\ \A k : Dots(h) \subseteq {k} => LastLabels(h) = After(h, 0)
         /\ \A j, k \in Dots(h) : j < k /\ Dots(h) \ {k} \subseteq 1 .. j => LastLabels(h) = After(h, j)
<1> DEFINE D     == Dots(h)
           top   == Max(D \cup {0})
           upper == D \ {top}
<1>1. D \in SUBSET Int /\ \A k \in D : k \in Nat /\ 0 <= k /\ k # 0
  BY DEF Dots
<1>2. LastLabels(h) = After(h, Max(upper \cup {0}))
  BY DEF LastLabels, After
<1> HIDE DEF D
<1>3. ASSUME NEW j \in Nat, upper \subseteq 0 .. j, j \in upper \cup {0} PROVE LastLabels(h) = After(h, j)
  <2> HIDE DEF upper
  <2>0. \A x \in 0 .. j : x \in Int /\ x <= j
    OBVIOUS
  <2>1. upper \cup {0} \in SUBSET Int /\ \A x \in upper \cup {0} : x <= j
    BY <1>3, <2>0
  <2>2. Max(upper \cup {0}) = j
    BY <1>3, <2>1, MaxOf
  <2> QED BY <1>2, <2>2
<1>4. ASSUME NEW k \in D \cup {0}, \A x \in D : x <= k PROVE top = k
  <2>1. D \cup {0} \in SUBSET Int /\ \A x \in D \cup {0} : x <= k
    BY <1>1, <1>4
  <2> QED BY <2>1, MaxOf
<1> HIDE DEF top
<1>5. ASSUME NEW k, D \subseteq {k} PROVE LastLabels(h) = After(h, 0)
  <2>0. D # {} => k \in D /\ k \in Nat /\ \A x \in D : x = k
    BY <1>1, <1>5
  <2>1. D # {} => top = k
    <3>1. D # {} => \A x \in D : x <= k
      BY <2>0
    <3> QED BY <1>4, <2>0, <3>1
  <2>2. upper = {}
    BY <1>5, <2>1
  <2> QED BY <1>3, <2>2
<1>6. ASSUME NEW j \in D, NEW k \in D, j < k, D \ {k} \subseteq 1 .. j PROVE LastLabels(h) = After(h, j)
  <2>0. j \in Nat /\ k \in Nat /\ j # k /\ \A x \in D \ {k} : x \in Nat /\ x <= j
    BY <1>1, <1>6
  <2>1. top = k
    BY <1>4, <1>6, <2>0
  <2>2. upper = D \ {k} /\ j \in upper
    BY <1>6, <2>0, <2>1
  <2>3. upper \subseteq 0 .. j
    <3>1. \A x \in D \ {k} : x \in 0 .. j
      BY <2>0
    <3> QED BY <2>2, <3>1
  <2> HIDE DEF upper
  <2> QED BY <1>3, <2>0, <2>2, <2>3
<1> QED BY <1>5, <1>6 DEF D

-----------------------------------------------------------------------------
(* The line buffer grows by a letter, and loses labels.                    *)
LEMMA SlicePut ==
  ASSUME NEW s, Lines(s), NEW i \in 0 .. s.cp, NEW c, NEW t, t.cp = s.cp + 1,
         t.buf = [s.buf EXCEPT ![s.cp] = c]
  PROVE  /\ Slice(s, i, s.cp) \in Seq(Letters)
         /\ Slice(t, i, t.cp) = Append(Slice(s, i, s.cp), c)
         /\ Slice(t, s.cp, t.cp) = <<c>>
<1> DEFINE n == s.cp - i
           p == Slice(s, i, s.cp)
           q == Slice(t, i, t.cp)
           y == Slice(t, s.cp, t.cp)
<1>1. s.cp \in Nat /\ s.cp \in 0 .. BufSize - 1 /\ DOMAIN s.buf = 0 .. BufSize - 1 /\ i \in Nat /\ n \in Nat
      /\ (s.cp + 1) - i = n + 1 /\ (s.cp + 1) - s.cp = 1 /\ i <= s.cp
  BY BufSizes DEF Lines
<1>2. p = [k \in 1 .. n |-> s.buf[i + k - 1]] /\ q = [k \in 1 .. n + 1 |-> t.buf[i + k - 1]] /\ y = [k \in 1 .. 1 |-> t.buf[s.cp + k - 1]]
  BY <1>1 DEF Slice
<1> HIDE DEF p, q, y
<1>3. \A k \in 1 .. n : i + k - 1 \in 0 .. s.cp - 1 /\ i + k - 1 \in 0 .. BufSize - 1 /\ i + k - 1 # s.cp
  <2>1. PICK cp \in Nat : cp = s.cp
    BY <1>1
  <2>2. cp <= BufSize - 1 /\ i \in Nat /\ i <= cp /\ n = cp - i
    BY <1>1, <2>1
  <2> HIDE DEF n
  <2>3. \A k \in 1 .. n : i + k - 1 \in 0 .. cp - 1 /\ i + k - 1 \in 0 .. BufSize - 1 /\ i + k - 1 # cp
    BY <2>2, BufSizes
  <2> QED BY <2>1, <2>3
<1>4. t.buf[s.cp] = c
  BY <1>1
<1>5. \A k \in 1 .. n : t.buf[i + k - 1] = s.buf[i + k - 1] /\ s.buf[i + k - 1] \in Letters
  BY <1>1, <1>3 DEF Lines
<1>6. i + (n + 1) - 1 = s.cp
  BY <1>1
<1> HIDE DEF n
<1>7. p \in Seq(Letters) /\ Len(p) = n /\ \A k \in 1 .. n : p[k] = s.buf[i + k - 1]
  <2>1. p \in [1 .. n -> Letters]
    BY <1>2, <1>5
  <2>2. p \in Seq(Letters) /\ Len(p) = n
    BY <1>1, <2>1, IsSequence
  <2> QED BY <1>2, <2>2
<1> DEFINE X == Letters \cup {c}
<1>10. \A k \in 1 .. n + 1 : t.buf[i + k - 1] = IF k = n + 1 THEN c ELSE p[k]
  <2>1. \A k \in 1 .. n + 1 : k # n + 1 => k \in 1 .. n
    BY <1>1
  <2> QED BY <1>4, <1>5, <1>6, <1>7, <2>1
<1>11. q \in Seq(X) /\ Len(q) = n + 1
  <2>1. \A k \in 1 .. n + 1 : t.buf[i + k - 1] \in X
    <3>1. \A k \in 1 .. n : p[k] \in X
      BY <1>7
    <3>2. \A k \in 1 .. n + 1 : k # n + 1 => k \in 1 .. n
      BY <1>1
    <3> QED BY <1>10, <3>1, <3>2
  <2>2. q \in [1 .. n + 1 -> X]
    BY <1>2, <2>1
  <2>3. n + 1 \in Nat
    BY <1>1
  <2> HIDE DEF X
  <2> QED BY <2>2, <2>3, IsSequence
<1>12. /\ Append(p, c) \in Seq(X) /\ Len(Append(p, c)) = n + 1
       /\ \A k \in 1 .. n + 1 : Append(p, c)[k] = IF k = n + 1 THEN c ELSE p[k]
  BY <1>1, <1>7
<1>8. q = Append(p, c)
  <2>1. \A k \in 1 .. n + 1 : q[k] = Append(p, c)[k]
    BY <1>2, <1>10, <1>12
  <2> HIDE DEF X
  <2> QED BY <1>11, <1>12, <2>1, SameSeq
<1>9. y = <<c>>
  <2>1. y = [k \in 1 .. 1 |-> t.buf[s.cp + k - 1]] /\ s.cp + 1 - 1 = s.cp
    BY <1>1, <1>2
  <2>2. \A k \in 1 .. 1 : t.buf[s.cp + k - 1] = c
    BY <1>1, <1>4
  <2>3. y \in [1 .. 1 -> {c}] /\ y[1] = c
    BY <2>1, <2>2
  <2>4. y \in Seq({c}) /\ Len(y) = 1
    BY <2>3, IsSequence
  <2>5. <<c>> \in Seq({c}) /\ Len(<<c>>) = 1 /\ \A j \in 1 .. 1 : y[j] = <<c>>[j]
    BY <2>3
  <2> QED BY <2>4, <2>5, SameSeq
<1> QED BY <1>7, <1>8, <1>9 DEF p, q, y

LEMMA SliceDrop ==
  ASSUME NEW s, Mid(s), s.st = "slash3", s.dot2 # 0, s.eol # -1, s.eol < s.start
  PROVE  LET r == DropLabels(s)
         IN  /\ Slice(r, s.start, r.cp) = Slice(s, s.sld, s.cp) /\ r.eol = s.eol
             /\ r.cp \in 0 .. BufSize - 1
<1> DEFINE length == s.cp - s.sld
           moved  == [i \in DOMAIN s.buf |-> IF i \in s.start .. s.start + length - 1
                                             THEN s.buf[s.sld + i - s.start] ELSE s.buf[i]]
           r      == DropLabels(s)
<1>1. /\ s.cp \in 0 .. BufSize - 1 /\ s.start \in 0 .. s.cp /\ s.sld \in s.start .. s.cp /\ s.eol \in -1 .. s.cp
      /\ DOMAIN s = Fields1 /\ DOMAIN s.buf = 0 .. BufSize - 1
  <2>1. s.sld \in s.start .. s.tld /\ s.tld \in s.start .. s.cp /\ s.start \in 0 .. s.cp /\ s.cp \in 0 .. BufSize - 1
    BY DEF Mid, Lines, Offsets
  <2> QED BY <2>1, BufSizes DEF Mid, Lines
<1>2. length \in Nat /\ s.start >= 0 /\ s.sld >= 0 /\ length >= 0 /\ s.start + length <= s.cp /\ s.start + length <= BufSize
      /\ s.start + length \in 0 .. BufSize - 1 /\ ~(s.eol >= s.cp) /\ (s.start + length) - s.start = length
  <2>1. PICK cp, start, sld, eol \in Int : cp = s.cp /\ start = s.start /\ sld = s.sld /\ eol = s.eol
    BY <1>1
  <2>2. cp \in 0 .. BufSize - 1 /\ start \in 0 .. cp /\ sld \in start .. cp /\ eol < start
    BY <1>1, <2>1
  <2>3. /\ cp - sld \in Nat /\ start >= 0 /\ sld >= 0 /\ cp - sld >= 0 /\ start + (cp - sld) <= cp
        /\ start + (cp - sld) <= BufSize /\ start + (cp - sld) \in 0 .. BufSize - 1 /\ ~(eol >= cp)
        /\ (start + (cp - sld)) - start = cp - sld
    BY <2>2, BufSizes
  <2> QED BY <2>1, <2>3
<1>3. r = [s EXCEPT !.buf = moved, !.eol = IF s.eol >= s.cp THEN s.start + length ELSE s.eol, !.cp = s.start + length]
  BY <1>2 DEF DropLabels
<1>4. r.buf = moved /\ r.eol = s.eol /\ r.cp = s.start + length
  <2> HIDE DEF moved, length
  <2> QED BY <1>1, <1>2, <1>3 DEF Fields1
<1> HIDE DEF r
<1>8. r.cp \in 0 .. BufSize - 1
  BY <1>2, <1>4
<1>5. Slice(r, s.start, r.cp) = [k \in 1 .. length |-> moved[s.start + k - 1]]
  BY <1>2, <1>4 DEF Slice
<1>6. Slice(s, s.sld, s.cp) = [k \in 1 .. length |-> s.buf[s.sld + k - 1]]
  BY DEF Slice
<1>7. ASSUME NEW k \in 1 .. length PROVE moved[s.start + k - 1] = s.buf[s.sld + k - 1]
  <2>1. s.start + k - 1 \in 0 .. BufSize - 1 /\ s.start + k - 1 \in s.start .. s.start + length - 1
        /\ s.sld + (s.start + k - 1) - s.start = s.sld + k - 1
    <3>1. \A m, start, sld \in Int : \A i \in 1 .. m : m \in Nat /\ start >= 0 /\ start + m <= BufSize =>
            /\ start + i - 1 \in 0 .. BufSize - 1 /\ start + i - 1 \in start .. start + m - 1
            /\ sld + (start + i - 1) - start = sld + i - 1
      BY BufSizes
    <3>2. length \in Int /\ s.start \in Int /\ s.sld \in Int
      BY <1>1, <1>2
    <3> HIDE DEF length
    <3> QED BY <1>2, <3>1, <3>2
  <2> QED BY <1>1, <2>1
<1> HIDE DEF length, moved
<1> QED BY <1>4, <1>5, <1>6, <1>7, <1>8 DEF r

(* The host h of a URL, as Fuz1 has it: its letters are in the line        *)
(* buffer, and tld and sld are where its last labels begin there.          *)
LabelsIn(s, h) ==
  /\ s.punct = 0 /\ ("dot" \in s.flags <=> h # <<>> /\ h[Len(h)] = ".")
  /\ Holds(s, s.start, h, 0)
  /\ \/ Dots(h) = {} /\ s.dot1 = 0 /\ s.dot2 = 0
     \/ /\ s.dot1 # 0 /\ s.dot2 = 0
        /\ \E k : Dots(h) = {k} /\ Holds(s, s.tld, h, k)
     \/ /\ s.dot1 # 0 /\ s.dot2 # 0
        /\ \E j, k \in Dots(h) :
             j < k /\ Dots(h) \ {k} \subseteq 1 .. j /\ Holds(s, s.sld, h, j) /\ Holds(s, s.tld, h, k)

(* A letter is put into the line buffer.                                   *)
Puts(v, r, c) ==
  /\ r.cp = v.cp + 1 /\ r.buf = [v.buf EXCEPT ![v.cp] = c]
  /\ \A x \in Fields1 \ {"cp", "buf"} : r[x] = v[x]

LEMMA LetterPut ==
  ASSUME NEW v, Lines(v), NEW c \in Letters, Collect(v, c).st = "slash3" PROVE Puts(v, Collect(v, c), c)
<1> DEFINE put == [v EXCEPT !.buf[v.cp] = c, !.cp = @ + 1]
           r   == Collect(v, c)
<1>1. r = IF v.cp + 1 = BufSize THEN [Flush(put) EXCEPT !.st = "idle"] ELSE put
  BY DEF Collect, Letters
<1>2. DOMAIN v = Fields1 /\ DOMAIN v.buf = 0 .. BufSize - 1 /\ v.cp \in 0 .. BufSize - 1
  BY DEF Lines
<1>3. /\ DOMAIN put = Fields1 /\ put.cp = v.cp + 1 /\ put.buf = [v.buf EXCEPT ![v.cp] = c]
      /\ \A x \in Fields1 \ {"cp", "buf"} : put[x] = v[x]
  BY <1>2 DEF Fields1
<1> HIDE DEF put
<1>4. DOMAIN Flush(put) = Fields1
  BY <1>3, FrameFlush
<1> DEFINE flushed == Flush(put)
<1> HIDE DEF flushed
<1>5. v.cp + 1 = BufSize => r = [flushed EXCEPT !.st = "idle"] /\ DOMAIN flushed = Fields1
  BY <1>1, <1>4 DEF flushed
<1> HIDE DEF r
<1>6. v.cp + 1 = BufSize => r.st = "idle"
  BY <1>5 DEF Fields1
<1>7. r = put
  BY <1>1, <1>6 DEF r
<1> QED BY <1>3, <1>7 DEF Puts, r

LEMMA HoldsPut ==
  ASSUME NEW X, NEW h \in Seq(X), NEW c \in X, c # ".", NEW v, Lines(v), NEW r, Puts(v, r, c)
  PROVE  /\ \A i \in 0 .. v.cp, k \in 0 .. Len(h) : Holds(v, i, h, k) => Holds(r, i, Append(h, c), k)
         /\ Holds(r, v.cp, Append(h, c), Len(h))
<1>1. ASSUME NEW i \in 0 .. v.cp, NEW k \in 0 .. Len(h), Holds(v, i, h, k) PROVE Holds(r, i, Append(h, c), k)
  <2>1. Slice(r, i, r.cp) = Append(Slice(v, i, v.cp), c)
    BY SlicePut DEF Puts
  <2>2. After(Append(h, c), k) = Append(After(h, k), c)
    BY AfterGrows
  <2> QED BY <1>1, <2>1, <2>2 DEF Holds
<1>2. Holds(r, v.cp, Append(h, c), Len(h))
  <2>1. v.cp \in 0 .. v.cp /\ 0 \in 0 .. Len(h)
    BY BufSizes DEF Lines
  <2>2. Slice(r, v.cp, r.cp) = <<c>>
    BY <2>1, SlicePut DEF Puts
  <2>3. After(Append(h, c), Len(h)) = <<c>>
    BY <2>1, AfterGrows
  <2> QED BY <2>2, <2>3 DEF Holds
<1> QED BY <1>1, <1>2

(* A letter of the label that is being read.                               *)
LEMMA LabelGoesOn ==
  ASSUME NEW X, NEW h \in Seq(X), NEW c \in X, c # ".", NEW v, Mid(v), v.st = "slash3", LabelsIn(v, h),
         "dot" \notin v.flags, NEW r, Puts(v, r, c)
  PROVE  LabelsIn(r, Append(h, c))
<1> DEFINE u == Append(h, c)
<1>1. Dots(u) = Dots(h) /\ \A k \in Dots(h) : k \in 0 .. Len(h)
  <2>1. ~(h # <<>> /\ h[Len(h)] = ".")
    BY DEF LabelsIn
  <2>2. /\ Dots(u) = Dots(h) \cup (IF h # <<>> /\ h[Len(h)] = "." THEN {Len(h)} ELSE {})
        /\ \A k \in Dots(h) : k \in 0 .. Len(h)
    BY DotsGrow
  <2> QED BY <2>1, <2>2
<1>2. u # <<>> /\ u[Len(u)] # "." /\ 0 \in 0 .. Len(h)
  OBVIOUS
<1> HIDE DEF u
<1>3. r.punct = v.punct /\ r.flags = v.flags /\ r.start = v.start /\ r.tld = v.tld /\ r.sld = v.sld /\ r.dot1 = v.dot1 /\ r.dot2 = v.dot2
  BY DEF Puts, Fields1
<1>4. /\ v.start \in 0 .. v.cp
      /\ v.dot1 # 0 => v.tld \in 0 .. v.cp
      /\ v.dot2 # 0 => v.sld \in 0 .. v.cp
  <2>1. v.start \in 0 .. v.cp /\ v.cp \in Nat
    BY BufSizes DEF Mid, Lines, Offsets
  <2>2. v.dot1 # 0 => v.tld \in v.start .. v.cp
    BY DEF Mid, Offsets
  <2>3. v.dot2 # 0 => v.sld \in v.start .. v.tld /\ v.tld \in v.start .. v.cp
    BY DEF Mid, Offsets
  <2> QED BY <2>1, <2>2, <2>3
<1>5. \A i \in 0 .. v.cp, k \in 0 .. Len(h) : Holds(v, i, h, k) => Holds(r, i, u, k)
  BY HoldsPut DEF Mid, u
<1>6. Holds(r, r.start, u, 0)
  BY <1>2, <1>3, <1>4, <1>5 DEF LabelsIn
<1>7. CASE Dots(h) = {} /\ v.dot1 = 0 /\ v.dot2 = 0
  BY <1>1, <1>2, <1>3, <1>6, <1>7 DEF LabelsIn, u
<1>8. CASE v.dot1 # 0 /\ v.dot2 = 0 /\ \E k : Dots(h) = {k} /\ Holds(v, v.tld, h, k)
  <2>1. PICK k : Dots(h) = {k} /\ Holds(v, v.tld, h, k)
    BY <1>8
  <2>2. Holds(r, r.tld, u, k)
    BY <1>1, <1>3, <1>4, <1>5, <1>8, <2>1
  <2> QED BY <1>1, <1>2, <1>3, <1>6, <1>8, <2>1, <2>2 DEF LabelsIn, u
<1>9. CASE /\ v.dot1 # 0 /\ v.dot2 # 0
           /\ \E j, k \in Dots(h) :
                j < k /\ Dots(h) \ {k} \subseteq 1 .. j /\ Holds(v, v.sld, h, j) /\ Holds(v, v.tld, h, k)
  <2>1. PICK j, k \in Dots(h) : j < k /\ Dots(h) \ {k} \subseteq 1 .. j /\ Holds(v, v.sld, h, j) /\ Holds(v, v.tld, h, k)
    BY <1>9
  <2>2. Holds(r, r.sld, u, j) /\ Holds(r, r.tld, u, k)
    BY <1>1, <1>3, <1>4, <1>5, <1>9, <2>1
  <2> QED BY <1>1, <1>2, <1>3, <1>6, <1>9, <2>1, <2>2 DEF LabelsIn, u
<1> QED BY <1>7, <1>8, <1>9 DEF LabelsIn

(* The first letter of a label after a dot.                                *)
LEMMA LabelBegins ==
  ASSUME NEW X, NEW h \in Seq(X), NEW c \in X, c # ".", NEW e, Mid(e), e.st = "slash3", LabelsIn(e, h),
         "dot" \in e.flags, NEW v, Lines(v), v.cp = e.cp, v.buf = e.buf, Begins(e, v), NEW r, Puts(v, r, c)
  PROVE  LabelsIn(r, Append(h, c))
<1> DEFINE u == Append(h, c)
           n == Len(h)
<1>0. h # <<>> /\ h[n] = "."
  BY DEF LabelsIn
<1>1. /\ Dots(u) = Dots(h) \cup {n} /\ n \in Nat
      /\ \A k \in Dots(h) : k \in 0 .. n /\ k < n /\ k \in 1 .. n
  <2>1. \A k \in Dots(h) : k \in 1 .. n
    BY DEF Dots
  <2> QED BY <1>0, <2>1, DotsGrow
<1>2. u # <<>> /\ u[Len(u)] # "." /\ 0 \in 0 .. n /\ n \in 0 .. n
  <2>1. u # <<>> /\ u[Len(u)] = c
    OBVIOUS
  <2>2. n \in Nat
    OBVIOUS
  <2> HIDE DEF u, n
  <2> QED BY <2>1, <2>2
<1> HIDE DEF u, n
<1>3. /\ r.punct = 0 /\ "dot" \notin r.flags /\ r.start = e.start /\ r.tld = e.cp /\ r.sld = e.tld /\ r.dot1 # 0
      /\ r.dot2 = e.dot1
  BY DEF Puts, Begins, Fields1
<1>4. /\ e.start \in 0 .. e.cp
      /\ e.dot1 # 0 => e.tld \in 0 .. e.cp
  <2>1. e.start \in 0 .. e.cp /\ e.cp \in Nat
    BY BufSizes DEF Mid, Lines, Offsets
  <2>2. e.dot1 # 0 => e.tld \in e.start .. e.cp
    BY DEF Mid, Offsets
  <2> QED BY <2>1, <2>2
<1>5. /\ \A i \in 0 .. e.cp, k \in 0 .. n : Holds(e, i, h, k) => Holds(r, i, u, k)
      /\ Holds(r, r.tld, u, n)
  <2>1. \A i, k : Holds(e, i, h, k) => Holds(v, i, h, k)
    BY DEF Holds, Slice
  <2> QED BY <1>3, <2>1, HoldsPut DEF u, n
<1>6. Holds(r, r.start, u, 0)
  BY <1>2, <1>3, <1>4, <1>5 DEF LabelsIn
<1>7. CASE Dots(h) = {} /\ e.dot1 = 0 /\ e.dot2 = 0
  <2>1. Dots(u) = {n}
    BY <1>1, <1>7
  <2> QED BY <1>2, <1>3, <1>5, <1>6, <1>7, <2>1 DEF LabelsIn, u
<1>8. ASSUME e.dot1 # 0, NEW k \in Dots(h), Holds(e, e.tld, h, k), Dots(h) \subseteq 1 .. k PROVE LabelsIn(r, u)
  <2>1. Holds(r, r.sld, u, k)
    BY <1>1, <1>3, <1>4, <1>5, <1>8
  <2>2. k \in Dots(u) /\ n \in Dots(u) /\ k < n /\ Dots(u) \ {n} \subseteq 1 .. k
    BY <1>1, <1>8
  <2>3. r.dot1 # 0 /\ r.dot2 # 0
    BY <1>3, <1>8
  <2>4. \E j, m \in Dots(u) :
          j < m /\ Dots(u) \ {m} \subseteq 1 .. j /\ Holds(r, r.sld, u, j) /\ Holds(r, r.tld, u, m)
    BY <1>5, <2>1, <2>2
  <2> QED BY <1>2, <1>3, <1>6, <2>3, <2>4 DEF LabelsIn, u
<1>9. CASE e.dot1 # 0 /\ e.dot2 = 0 /\ \E k : Dots(h) = {k} /\ Holds(e, e.tld, h, k)
  <2>1. PICK k : Dots(h) = {k} /\ Holds(e, e.tld, h, k)
    BY <1>9
  <2>2. k \in Dots(h) /\ k \in 1 .. k
    BY <1>1, <2>1
  <2> QED BY <1>8, <1>9, <2>1, <2>2 DEF u
<1>10. CASE /\ e.dot1 # 0 /\ e.dot2 # 0
            /\ \E j, k \in Dots(h) :
                 j < k /\ Dots(h) \ {k} \subseteq 1 .. j /\ Holds(e, e.sld, h, j) /\ Holds(e, e.tld, h, k)
  <2>1. PICK j, k \in Dots(h) : j < k /\ Dots(h) \ {k} \subseteq 1 .. j /\ Holds(e, e.tld, h, k)
    BY <1>10
  <2>2. Dots(h) \subseteq 1 .. k
    <3>1. \A x \in Dots(h) : x \in Nat /\ (x = k \/ x \in 1 .. j) /\ j \in Nat /\ k \in Nat /\ k \in 1 .. n
      BY <1>1, <2>1
    <3>2. \A x \in Dots(h) : x \in 1 .. k
      BY <2>1, <3>1
    <3> QED BY <3>2
  <2> QED BY <1>8, <1>10, <2>1, <2>2 DEF u
<1> QED BY <1>7, <1>9, <1>10 DEF LabelsIn, u

(* A dot ends a label.                                                     *)
LEMMA LabelEnds ==
  ASSUME NEW X, NEW h \in Seq(X), NEW c \in X, c = ".", NEW e, LabelsIn(e, h), "dot" \notin e.flags,
         NEW r, DOMAIN e = Fields1, r = [e EXCEPT !.flags = @ \cup {"dot"}]
  PROVE  LabelsIn(r, Append(h, c))
<1> DEFINE u == Append(h, c)
<1>1. Dots(u) = Dots(h) /\ \A k \in Dots(h) : k \in 0 .. Len(h)
  <2>1. ~(h # <<>> /\ h[Len(h)] = ".")
    BY DEF LabelsIn
  <2>2. /\ Dots(u) = Dots(h) \cup (IF h # <<>> /\ h[Len(h)] = "." THEN {Len(h)} ELSE {})
        /\ \A k \in Dots(h) : k \in 0 .. Len(h)
    BY DotsGrow
  <2> QED BY <2>1, <2>2
<1>2. u # <<>> /\ u[Len(u)] = "." /\ 0 \in 0 .. Len(h)
  OBVIOUS
<1>3. \A i, k : k \in 0 .. Len(h) /\ Holds(e, i, h, k) => Holds(r, i, u, k)
  <2>1. \A k \in 0 .. Len(h) : After(u, k) = After(h, k)
    BY AfterGrows
  <2>2. r.cp = e.cp /\ r.buf = e.buf
    BY DEF Fields1
  <2> QED BY <2>1, <2>2 DEF Holds, Slice
<1>4. r.punct = e.punct /\ "dot" \in r.flags /\ r.start = e.start /\ r.tld = e.tld /\ r.sld = e.sld /\ r.dot1 = e.dot1 /\ r.dot2 = e.dot2
  BY DEF Fields1
<1> HIDE DEF u
<1>6. Holds(r, r.start, u, 0)
  BY <1>2, <1>3, <1>4 DEF LabelsIn
<1>7. CASE Dots(h) = {} /\ e.dot1 = 0 /\ e.dot2 = 0
  BY <1>1, <1>2, <1>4, <1>6, <1>7 DEF LabelsIn, u
<1>8. CASE e.dot1 # 0 /\ e.dot2 = 0 /\ \E k : Dots(h) = {k} /\ Holds(e, e.tld, h, k)
  <2>1. PICK k : Dots(h) = {k} /\ Holds(e, e.tld, h, k)
    BY <1>8
  <2>2. Holds(r, r.tld, u, k)
    BY <1>1, <1>3, <1>4, <2>1
  <2> QED BY <1>1, <1>2, <1>4, <1>6, <1>8, <2>1, <2>2 DEF LabelsIn, u
<1>9. CASE /\ e.dot1 # 0 /\ e.dot2 # 0
           /\ \E j, k \in Dots(h) :
                j < k /\ Dots(h) \ {k} \subseteq 1 .. j /\ Holds(e, e.sld, h, j) /\ Holds(e, e.tld, h, k)
  <2>1. PICK j, k \in Dots(h) : j < k /\ Dots(h) \ {k} \subseteq 1 .. j /\ Holds(e, e.sld, h, j) /\ Holds(e, e.tld, h, k)
    BY <1>9
  <2>2. Holds(r, r.sld, u, j) /\ Holds(r, r.tld, u, k)
    BY <1>1, <1>3, <1>4, <2>1
  <2> QED BY <1>1, <1>2, <1>4, <1>6, <1>9, <2>1, <2>2 DEF LabelsIn, u
<1> QED BY <1>7, <1>8, <1>9 DEF LabelsIn

(* Where the fields that LabelsIn speaks of are the same.                  *)
LEMMA LabelsFrame ==
  ASSUME NEW s, NEW t, NEW h, LabelsIn(s, h), t.punct = s.punct, t.flags = s.flags, t.start = s.start,
         t.tld = s.tld, t.sld = s.sld, t.dot1 = s.dot1, t.dot2 = s.dot2, t.cp = s.cp, t.buf = s.buf
  PROVE  LabelsIn(t, h)
<1>1. \A i, k : Holds(s, i, h, k) => Holds(t, i, h, k)
  BY DEF Holds, Slice
<1> QED BY <1>1 DEF LabelsIn

(* A letter or a dot of the host.                                          *)
LEMMA HostGrows ==
  ASSUME NEW X, NEW h \in Seq(X), NEW c \in X, PlainHost(Append(h, c)),
         NEW e, DomInv(e), Mid(e), e.st = "slash3", LabelsIn(e, h), NEW words \in BOOLEAN,
         NEW r, r = Collect(HostByte(e, c, words), c), r.st = "slash3"
  PROVE  LabelsIn(r, Append(h, c))
<1> DEFINE v == HostByte(e, c, words)
<1>1. c \in Letters \cup {"."} /\ (h # <<>> /\ c = "." => h[Len(h)] # ".")
  BY PlainGrows
<1>2. DOMAIN e = Fields1 /\ e.punct = 0
  BY DEF DomInv, DomTypes, LabelsIn
<1>3. DOMAIN v = Fields1
  BY HostByteIs DEF DomInv, DomTypes
<1>4. v.st = "slash3"
  <2> HIDE DEF v
  <2>1. r = Collect(v, c)
    BY DEF v
  <2> QED BY <1>3, <2>1, FrameCollect
<1>5. ~(e.urlTotal > Failsafe)
  <2> SUFFICES ASSUME e.urlTotal > Failsafe PROVE FALSE
    OBVIOUS
  <2>1. v = [e EXCEPT !.st = "idle"]
    BY DEF HostByte
  <2> HIDE DEF v
  <2> QED BY <1>2, <1>4, <2>1 DEF Fields1
<1>6. CASE c \in Letters
  <2>1. v = Save(e)
    BY <1>5, <1>6 DEF HostByte, Letters, Digits, Params
  <2>2. Goes(e, v)
    BY <2>1, SaveGoes
  <2> HIDE DEF v
  <2>3. Mid(v) /\ v.cp = e.cp /\ v.buf = e.buf /\ Lines(v)
    <3>1. Mid(v)
      BY <2>2, GoesLines
    <3> QED BY <2>2, <3>1 DEF Goes, Mid, Fields1, UrlFields
  <2>4. Puts(v, r, c)
    BY <1>6, <2>3, LetterPut DEF v
  <2>5. c # "."
    BY <1>6 DEF Letters
  <2>6. CASE "dot" \in e.flags
    <3>1. Begins(e, v)
      BY <1>2, <1>4, <2>1, <2>6, DomLabel
    <3> QED BY <2>3, <2>4, <2>5, <2>6, <3>1, LabelBegins
  <2>7. CASE "dot" \notin e.flags
    <3>1. v = HostSave(e)
      BY <1>2, <2>1, <2>7 DEF Save
    <3>2. Saved(e, v)
      BY <3>1, SaveHost
    <3>3. \A x \in Fields1 \ {"domEnd"} : v[x] = e[x]
      BY <1>4, <3>2 DEF Saved
    <3>4. /\ v.punct = e.punct /\ v.flags = e.flags /\ v.start = e.start
          /\ v.tld = e.tld /\ v.sld = e.sld /\ v.dot1 = e.dot1 /\ v.dot2 = e.dot2
      BY <3>3 DEF Fields1
    <3>5. LabelsIn(v, h)
      BY <2>3, <3>4, LabelsFrame
    <3> QED BY <1>4, <2>3, <2>4, <2>5, <2>7, <3>4, <3>5, LabelGoesOn
  <2> QED BY <2>6, <2>7
<1>7. CASE c = "."
  <2>1. "dot" \notin e.flags
    BY <1>1, <1>7 DEF LabelsIn
  <2>2. v = [e EXCEPT !.flags = @ \cup {"dot"}]
    BY <1>2, <1>5, <1>7, <2>1 DEF HostByte, Letters, Digits, Params
  <2>3. r = v
    BY <1>7, CollectOther DEF Letters
  <2> QED BY <1>2, <1>7, <2>1, <2>2, <2>3, LabelEnds
<1> QED BY <1>1, <1>6, <1>7

-----------------------------------------------------------------------------
(* The state before the first byte of a host, and between two of them.     *)
HostAt(s, h) ==
  \/ s.st = "slash3" /\ LabelsIn(s, h)
  \/ s.st = "slash3start" /\ h = <<>>

LEMMA HostEnters ==
  ASSUME NEW s, Mid(s), NEW h, Len(h) \in Nat, HostAt(s, h), NEW e, Enters(s, e) PROVE LabelsIn(e, h)
<1>0. e.cp = s.cp /\ e.buf = s.buf
  BY DEF Enters, Fields1, UrlFields
<1>1. CASE s.st = "slash3"
  <2>1. \A x \in Fields1 \ {"urlTotal"} : e[x] = s[x]
    BY <1>1 DEF Enters
  <2> QED BY <1>0, <1>1, <2>1, LabelsFrame DEF HostAt, Fields1
<1>2. CASE s.st = "slash3start"
  <2>1. e.start = s.cp /\ e.dot1 = 0 /\ e.dot2 = 0 /\ e.punct = 0 /\ "dot" \notin e.flags /\ h = <<>>
    BY <1>2 DEF Enters, HostAt
  <2>2. Dots(h) = {}
    BY <2>1 DEF Dots
  <2>3. Holds(e, e.start, h, 0)
    <3>1. After(h, 0) = <<>>
      <4>1. {i \in 0 + 1 .. Len(h) : h[i] # "."} = {}
        BY <2>1
      <4>2. Cardinality({}) = 0
        BY FS_EmptySet
      <4>3. After(h, 0) = Select(h, {})
        BY <4>1 DEF After
      <4>4. Select(h, {}) = [n \in 1 .. 0 |-> h[Nth({}, n)]]
        BY <4>2 DEF Select
      <4> QED BY <4>3, <4>4
    <3>2. Slice(e, e.start, e.cp) = <<>>
      <4>1. e.cp - e.start = 0
        BY <1>0, <2>1, BufSizes DEF Mid, Lines
      <4> QED BY <4>1 DEF Slice
    <3> QED BY <3>1, <3>2 DEF Holds
  <2> QED BY <2>1, <2>2, <2>3 DEF LabelsIn
<1> QED BY <1>1, <1>2 DEF HostAt

(* A byte of the host, or that ends it: it is read once.                   *)
HostTaken(s, r, c, words) ==
  /\ ~r.again
  /\ \E q, e : /\ q = [s EXCEPT !.cref = "idle"] /\ DomInv(q) /\ Mid(q) /\ Begun(q, Decoded)
               /\ \A x \in Fields1 : q[x] = s[x]
               /\ Enters(q, e) /\ r.f = Collect(HostByte(e, c, words), c)

LEMMA HostTurns ==
  ASSUME NEW s, Inv1(s), SchemeHasLetter, s.cref = "idle", InHost(s.st), NEW c, c # "&", NEW words \in BOOLEAN, NEW d
  PROVE  HostTaken(s, Turn1(s, c, words, d), c, words)
<1> DEFINE r   == Turn1(s, c, words, d)
           q   == [s EXCEPT !.cref = "idle"]
           url == UrlByte(q, c, words)
<1>1. s.cref \in RefStates /\ DOMAIN s = Fields1 /\ s.st \notin {"idle", "skip"} /\ s.st \notin SchemeStates
  BY States DEF Inv1, DomInv, DomTypes, InHost, RefStates
<1>2. TurnIs(s, r, c, words, d)
  BY <1>1, Turns
<1>3. DomInv(q) /\ Mid(q) /\ Begun(q, Decoded) /\ q.st = s.st
  BY WithRef DEF Inv1, RefStates
<1>4. \A x \in Fields1 : q[x] = s[x]
  BY <1>1 DEF Fields1
<1>5. ~url.panic
  BY RawBegun DEF Mid, Lines
<1>6. UrlOutcome(q, url, c, words)
  BY <1>3, UrlDoms
<1> HIDE DEF r, q, url
<1>7. ~r.again /\ r.f = Collect(url, c)
  BY <1>1, <1>2, <1>5 DEF TurnIs, q, url
<1>8. PICK e : Enters(q, e) /\ url = HostByte(e, c, words)
  BY <1>1, <1>3, <1>6 DEF UrlOutcome, InHost
<1> QED BY <1>3, <1>4, <1>7, <1>8 DEF HostTaken, r, q

LEMMA HostTurn ==
  ASSUME NEW X, NEW h \in Seq(X), NEW c \in X, PlainHost(Append(h, c)),
         NEW s, Inv1(s), SchemeHasLetter, s.cref = "idle", HostAt(s, h), NEW words \in BOOLEAN, NEW d
  PROVE  LET r == Turn1(s, c, words, d)
         IN  ~r.again /\ r.f.cref = "idle" /\ (r.f.st = "slash3" => LabelsIn(r.f, Append(h, c)))
<1> DEFINE r == Turn1(s, c, words, d)
<1>1. c # "&" /\ InHost(s.st) /\ Len(h) \in Nat
  <2>1. c \in Letters \cup {"."}
    BY PlainGrows
  <2> QED BY <2>1 DEF Letters, HostAt, InHost
<1>2. HostTaken(s, r, c, words)
  BY <1>1, HostTurns
<1> HIDE DEF r
<1>3. PICK q, e : /\ DomInv(q) /\ Mid(q) /\ (\A x \in Fields1 : q[x] = s[x])
                  /\ Enters(q, e) /\ r.f = Collect(HostByte(e, c, words), c)
  BY <1>2 DEF HostTaken
<1>4. HostAt(q, h)
  <2>1. /\ q.st = s.st /\ q.punct = s.punct /\ q.flags = s.flags /\ q.start = s.start /\ q.tld = s.tld /\ q.sld = s.sld
        /\ q.dot1 = s.dot1 /\ q.dot2 = s.dot2 /\ q.cp = s.cp /\ q.buf = s.buf
    BY <1>3 DEF Fields1
  <2> QED BY <2>1, LabelsFrame DEF HostAt
<1>5. LabelsIn(e, h) /\ DomInv(e) /\ Mid(e) /\ e.st = "slash3" /\ e.cref = "idle"
  <2>1. LabelsIn(e, h)
    BY <1>1, <1>3, <1>4, HostEnters
  <2>2. Mid(e)
    BY <1>3, EnterLines
  <2>3. q.cref = "idle"
    BY <1>3 DEF Fields1
  <2> QED BY <1>3, <2>1, <2>2, <2>3 DEF Enters, Fields1, UrlFields
<1>6. r.f.cref = "idle"
  <2> DEFINE v == HostByte(e, c, words)
  <2>1. DomInv(v) /\ (Goes(e, v) \/ Ends(e, v, words) \/ UserEnds(e, v))
    BY <1>5, HostByteIs
  <2>2. v.cref = e.cref
    <3>1. CASE Goes(e, v) \/ UserEnds(e, v)
      <4> HIDE DEF v
      <4> QED BY <3>1 DEF Goes, UserEnds, Fields1, UrlFields
    <3>2. CASE Ends(e, v, words)
      <4> DEFINE z == HostEnd(e, words)
      <4>0. /\ DOMAIN z = Fields1
            /\ \A x \in Fields1 \ {"cp", "eol", "buf", "panic", "domEnd", "ends", "doms", "flags"} : z[x] = e[x]
        BY <1>5, EndHost
      <4>1. DOMAIN z = Fields1 /\ z.cref = e.cref
        <5> HIDE DEF z
        <5> QED BY <4>0 DEF Fields1
      <4> HIDE DEF z
      <4>2. PICK next \in {"idle", "skip"} : v = [z EXCEPT !.st = next]
        BY <3>2 DEF Ends, z
      <4> QED BY <4>1, <4>2 DEF Fields1
    <3> QED BY <2>1, <3>1, <3>2
  <2> HIDE DEF v
  <2>3. Collect(v, c).cref = v.cref
    BY <2>1, CollectDoms
  <2> QED BY <1>3, <1>5, <2>2, <2>3 DEF v
<1>7. r.f.st = "slash3" => LabelsIn(r.f, Append(h, c))
  BY <1>3, <1>5, HostGrows
<1> QED BY <1>2, <1>6, <1>7 DEF HostTaken, r

(* The bytes of the host so far, as long as they are plain, are those that *)
(* Fuz1 has the labels of.                                                 *)
HostIs(s, h) ==
  /\ s.st = "slash3" /\ PlainHost(h) => s.cref = "idle" /\ LabelsIn(s, h)
  /\ s.st = "slash3start" => IF s.cref = "idle" THEN h = <<>> ELSE ~PlainHost(h)
  /\ ~InHost(s.st) => h = <<>>

(* No host begins before its "//", and no reference with a plain byte.     *)
LEMMA NotYet ==
  ASSUME NEW s, DomInv(s), ~InHost(s.st), NEW c, c # "&", NEW words \in BOOLEAN, NEW d
  PROVE  LET r == Turn1(s, c, words, d)
         IN  r.f.st # "slash3" /\ (r.f.st = "slash3start" => r.f.cref = "idle")
<1> DEFINE r   == Turn1(s, c, words, d)
           ref == RefStep(s.cref, c, d)
           q   == [s EXCEPT !.cref = "idle"]
           u   == IF c = "&" \/ s.cref # "idle" THEN ref.c ELSE c
           url == UrlByte(q, u, words)
           wait == [s EXCEPT !.cref = ref.st]
<1>1. s.cref \in RefStates /\ DOMAIN s = Fields1 /\ s.st # "slash3" /\ s.st # "slash3start"
  BY DEF DomInv, DomTypes, InHost
<1>2. TurnIs(s, r, c, words, d)
  BY <1>1, Turns
<1>3. DomInv(q) /\ q.st = s.st /\ q.cref = "idle"
  BY WithRef DEF RefStates
<1>4. DOMAIN wait = Fields1 /\ wait.st = s.st
  BY <1>1 DEF Fields1
<1>5. DomInv(url) /\ UrlOutcome(q, url, u, words) /\ url.cref = "idle"
  BY <1>3, UrlDoms, UrlRef
<1>6. url.st # "slash3"
  <2> HIDE DEF url, q
  <2>1. CASE q.st \in SchemeStates /\ Steps(q, url, u)
    BY <2>1 DEF Steps, Scheme
  <2>2. CASE \E t : DOMAIN t = Fields1 /\ t.st = "slash3start" /\ url = MakeRoom(t)
    <3>1. PICK t : DOMAIN t = Fields1 /\ t.st = "slash3start" /\ url = MakeRoom(t)
      BY <2>2
    <3>2. url.st = t.st
      BY <3>1, FrameRoom DEF Fields1
    <3> QED BY <3>1, <3>2
  <2>3. CASE url.st \in {"idle", "skip"}
    BY <2>3
  <2> QED BY <1>1, <1>3, <1>5, <2>1, <2>2, <2>3 DEF UrlOutcome, InHost
<1> HIDE DEF r, url, wait, q, u
<1>7. \/ r.f = Collect(s, c)
      \/ r.f = wait \/ r.f = Collect(wait, c)
      \/ r.f = url \/ r.f = Collect(url, c)
  BY <1>2 DEF TurnIs, url, wait, ref, q, u
<1>8. DOMAIN url = Fields1
  BY <1>5 DEF DomInv, DomTypes
<1>9. /\ Collect(s, c).st \in {s.st, "idle"} /\ Collect(wait, c).st \in {wait.st, "idle"} /\ Collect(url, c).st \in {url.st, "idle"}
      /\ Collect(url, c).cref = url.cref
  BY <1>1, <1>4, <1>5, <1>8, FrameCollect, CollectDoms
<1> QED BY <1>1, <1>4, <1>5, <1>6, <1>7, <1>9 DEF r

LEMMA HostStep ==
  ASSUME NEW X, NEW h \in Seq(X), NEW c \in X, NEW s, Inv1(s), SchemeHasLetter, HostIs(s, h),
         NEW d, Decoding(s, d), NEW words \in BOOLEAN, NEW r, r = Read1(s, c, words, d)
  PROVE  HostIs(r, IF ~InHost(r.st) \/ (r.st = "slash3start" /\ r.cref = "idle") THEN <<>> ELSE Append(h, c))
<1> DEFINE u    == Append(h, c)
           once == Turn1(s, c, words, d)
<1>1. r = IF once.again /\ ~once.f.panic THEN Turn1(once.f, c, words, d).f ELSE once.f
  BY DEF Read1
<1>2. SUFFICES ASSUME PlainHost(u)
               PROVE  (r.st = "slash3" => r.cref = "idle" /\ LabelsIn(r, u)) /\ (r.st = "slash3start" => r.cref = "idle")
  BY DEF HostIs, InHost
<1>3. PlainHost(h) /\ c # "&" /\ c # "nl" /\ DomInv(s)
  <2>1. PlainHost(h) /\ c \in Letters \cup {"."}
    BY <1>2, PlainGrows
  <2> QED BY <2>1 DEF Letters, Inv1
<1>4. ASSUME NEW t, Inv1(t), t.cref = "idle", HostAt(t, h)
      PROVE  LET q == Turn1(t, c, words, d)
             IN  ~q.again /\ q.f.cref = "idle" /\ (q.f.st = "slash3" => LabelsIn(q.f, u))
  BY <1>2, <1>4, HostTurn
<1> HIDE DEF once
<1>5. CASE InHost(s.st)
  <2>1. s.cref = "idle" /\ HostAt(s, h)
    BY <1>3, <1>5 DEF HostIs, HostAt, InHost
  <2>2. ~once.again /\ once.f.cref = "idle" /\ (once.f.st = "slash3" => LabelsIn(once.f, u))
    BY <1>4, <2>1 DEF once
  <2> QED BY <1>1, <2>2
<1>6. CASE ~InHost(s.st)
  <2>1. once.f.st # "slash3" /\ (once.f.st = "slash3start" => once.f.cref = "idle")
    BY <1>3, <1>6, NotYet DEF once
  <2>2. Inv1(once.f) /\ DomInv(once.f)
    BY <1>3, TurnBegun DEF once, Inv1
  <2>3. once.again => once.f.cref = "idle"
    BY <1>3, TurnDoms DEF once
  <2>4. h = <<>>
    BY <1>6 DEF HostIs
  <2> DEFINE twice == Turn1(once.f, c, words, d)
  <2>5. CASE once.f.st = "slash3start" /\ once.again
    <3>1. HostAt(once.f, h)
      BY <2>4, <2>5 DEF HostAt
    <3>2. twice.f.cref = "idle" /\ (twice.f.st = "slash3" => LabelsIn(twice.f, u))
      BY <1>4, <2>2, <2>3, <2>5, <3>1
    <3> HIDE DEF twice
    <3> QED BY <1>1, <2>1, <3>2 DEF twice
  <2>6. CASE once.f.st # "slash3start"
    <3>1. ~InHost(once.f.st)
      BY <2>1, <2>6 DEF InHost
    <3>2. twice.f.st # "slash3" /\ (twice.f.st = "slash3start" => twice.f.cref = "idle")
      BY <1>3, <2>2, <3>1, NotYet
    <3> HIDE DEF twice
    <3> QED BY <1>1, <2>1, <3>2 DEF twice
  <2>7. CASE ~once.again
    BY <1>1, <2>1, <2>7
  <2> QED BY <2>5, <2>6, <2>7
<1> QED BY <1>5, <1>6

-----------------------------------------------------------------------------
(* What the end of a chunk makes of the buffer.                            *)
LEMMA EndIs == ASSUME NEW s, DOMAIN s = Fields1 PROVE EndChunk(s) = s \/ EndChunk(s).cp = 0
<1>1. EndChunk(s) = s \/ EndChunk(s) = Flush(s)
  BY DEF EndChunk
<1>2. Flush(s).cp = 0
  BY FrameFlush
<1> QED BY <1>1, <1>2

(* A line end moves the end of the buffer back, or only notes it.          *)
LEMMA NlCollected ==
  ASSUME NEW s, DOMAIN s = Fields1, NEW r, r = Collect(s, "nl")
  PROVE  r.cp = s.eol \/ r.cp = 0 \/ (r.cp = s.cp /\ r.buf = s.buf)
<1> DEFINE greeting == s.eol # -1 /\ Len(Slice(s, s.eol, s.cp)) \in 1 .. MaxLine /\ IsGreeting(Slice(s, s.eol, s.cp))
<1>1. CASE greeting
  <2>1. r = [s EXCEPT !.cp = s.eol, !.st = "idle"]
    BY <1>1 DEF Collect, Letters
  <2> QED BY <2>1 DEF Fields1
<1>2. CASE ~greeting
  <2>1. r = IF s.cp >= BufSize - (MaxLine + HttpsLen) THEN [Flush(s) EXCEPT !.st = "idle"] ELSE [s EXCEPT !.eol = s.cp]
    BY <1>2 DEF Collect, Letters
  <2> DEFINE flushed == Flush(s)
  <2>2. DOMAIN flushed = Fields1 /\ flushed.cp = 0
    BY FrameFlush
  <2> HIDE DEF flushed
  <2>3. r = [flushed EXCEPT !.st = "idle"] \/ r = [s EXCEPT !.eol = s.cp]
    BY <2>1 DEF flushed
  <2> QED BY <2>2, <2>3 DEF Fields1
<1> QED BY <1>1, <1>2

(* When the host ends, the letters of its last labels stay.                *)
LEMMA LabelsStayAtEnd ==
  ASSUME NEW h, Len(h) \in Nat, NEW e, DomInv(e), Mid(e), e.st = "slash3", LabelsIn(e, h), e.eol # -1, e.eol < e.start,
         NEW c, NEW words \in BOOLEAN, NEW url, url = HostByte(e, c, words), url.doms > e.doms
  PROVE  /\ Slice(url, e.start, url.cp) = LastLabels(h) /\ url.eol = e.eol /\ c \notin Letters /\ DOMAIN url = Fields1
<1>1. DomInv(url) /\ (Goes(e, url) \/ Ends(e, url, words) \/ UserEnds(e, url))
  BY HostByteIs
<1>2. e.doms \in Nat /\ DOMAIN e = Fields1 /\ ~(e.doms > e.doms)
  BY DEF DomInv, DomTypes
<1>3. ASSUME Goes(e, url) \/ UserEnds(e, url) PROVE FALSE
  <2>1. url.doms = e.doms
    BY <1>3 DEF Goes, UserEnds, Fields1, UrlFields
  <2> QED BY <1>2, <2>1
<1>4. c \notin Letters
  <2> SUFFICES ASSUME c \in Letters PROVE FALSE
    OBVIOUS
  <2>1. url = [e EXCEPT !.st = "idle"] \/ url = Save(e)
    BY DEF HostByte, Letters, Digits, Params
  <2>2. Goes(e, Save(e))
    BY SaveGoes
  <2>3. url.doms = e.doms
    <3>1. CASE url = [e EXCEPT !.st = "idle"]
      BY <1>2, <3>1 DEF Fields1
    <3>2. CASE url = Save(e)
      BY <1>3, <2>2, <3>2
    <3> QED BY <2>1, <3>1, <3>2
  <2> QED BY <1>2, <2>3
<1> DEFINE z   == HostEnd(e, words)
           cut == IF e.dot2 # 0 THEN DropLabels(e) ELSE e
<1>5. PICK next \in {"idle", "skip"} : url = [z EXCEPT !.st = next]
  BY <1>1, <1>3 DEF Ends
<1>6. /\ DOMAIN z = Fields1
      /\ \/ \A x \in {"cp", "eol", "buf", "panic", "ends", "doms"} : z[x] = e[x]
         \/ \A x \in {"cp", "eol", "buf", "panic"} : z[x] = cut[x]
  BY EndHost
<1> HIDE DEF z, cut
<1>7. url.cp = z.cp /\ url.eol = z.eol /\ url.buf = z.buf /\ url.doms = z.doms /\ DOMAIN url = Fields1
  BY <1>5, <1>6 DEF Fields1
<1>8. url.cp = cut.cp /\ url.eol = cut.eol /\ url.buf = cut.buf
  <2>1. z.doms # e.doms
    BY <1>2, <1>7
  <2>2. \A x \in {"cp", "eol", "buf", "panic"} : z[x] = cut[x]
    BY <1>6, <2>1
  <2> QED BY <1>7, <2>2
<1>9. Slice(url, e.start, url.cp) = Slice(cut, e.start, cut.cp)
  BY <1>8 DEF Slice
<1>10. CASE e.dot2 # 0
  <2>1. Slice(cut, e.start, cut.cp) = Slice(e, e.sld, e.cp) /\ cut.eol = e.eol
    BY <1>10, SliceDrop DEF cut
  <2>2. PICK j, k \in Dots(h) : j < k /\ Dots(h) \ {k} \subseteq 1 .. j /\ Holds(e, e.sld, h, j)
    BY <1>10 DEF LabelsIn
  <2>3. LastLabels(h) = After(h, j)
    BY <2>2, LastLabelsAre
  <2> QED BY <1>4, <1>7, <1>8, <1>9, <2>1, <2>2, <2>3 DEF Holds
<1>11. CASE e.dot2 = 0
  <2>1. cut = e
    BY <1>11 DEF cut
  <2>2. PICK k : Dots(h) \subseteq {k}
    BY <1>11 DEF LabelsIn
  <2>3. LastLabels(h) = After(h, 0)
    BY <2>2, LastLabelsAre
  <2>4. Slice(e, e.start, e.cp) = After(h, 0)
    BY DEF LabelsIn, Holds
  <2> QED BY <1>4, <1>7, <1>8, <1>9, <2>1, <2>3, <2>4
<1> QED BY <1>10, <1>11

LEMMA LabelsStayStep ==
  ASSUME NEW h, Len(h) \in Nat, NEW s, Inv1(s), SchemeHasLetter, s.st = "slash3", s.cref = "idle", LabelsIn(s, h),
         s.eol # -1, NEW c, NEW words \in BOOLEAN, NEW d, NEW r, r \in {Read1(s, c, words, d), EndChunk(Read1(s, c, words, d))},
         r.doms > s.doms, r.cp >= s.start
  PROVE  Slice(r, s.start, r.cp) = LastLabels(h)
<1> DEFINE once == Turn1(s, c, words, d)
           all  == Read1(s, c, words, d)
<1>1. DomInv(s) /\ Mid(s) /\ s.doms \in Nat /\ ~(s.doms > s.doms) /\ s.cref \in RefStates /\ DOMAIN s = Fields1
  BY DEF Inv1, DomInv, DomTypes
<1>2. s.start \in Nat /\ s.eol \in Nat /\ s.eol < s.start /\ ~(0 >= s.start) /\ ~(s.eol >= s.start)
  <2>1. s.eol < s.start /\ s.start \in 0 .. s.cp /\ s.eol \in -1 .. s.cp /\ s.cp \in 0 .. BufSize - 1
    BY DEF Inv1, Begun, Mid, Lines, Offsets
  <2> QED BY <2>1, BufSizes
<1>3. DomInv(all)
  BY <1>1, ReadDoms
<1>4. r = all /\ all.doms > s.doms /\ all.cp >= s.start
  <2> HIDE DEF all
  <2>1. EndChunk(all).doms = all.doms /\ DOMAIN all = Fields1
    BY <1>3, EndDoms DEF DomInv, DomTypes
  <2> QED BY <1>2, <2>1, EndIs DEF all
<1>5. all = IF once.again /\ ~once.f.panic THEN Turn1(once.f, c, words, d).f ELSE once.f
  BY DEF Read1
<1>6. CASE c = "&"
  <2> DEFINE wait == [s EXCEPT !.cref = "start"]
  <2>1. TurnIs(s, once, c, words, d)
    BY <1>1, Turns
  <2>2. RefStep("idle", c, d).done = FALSE /\ RefStep("idle", c, d).st = "start"
    BY DEF RefStep
  <2> HIDE DEF once
  <2>3. once.again = FALSE /\ (once.f = wait \/ once.f = Collect(wait, c))
    BY <1>6, <2>1, <2>2 DEF TurnIs
  <2>4. DomInv(wait) /\ wait.doms = s.doms
    BY <1>1, WithRef DEF RefStates
  <2> HIDE DEF wait, all
  <2>5. once.f.doms = s.doms
    BY <2>3, <2>4, CollectDoms
  <2> QED BY <1>1, <1>4, <1>5, <2>3, <2>5
<1>7. CASE c # "&"
  <2>1. HostTaken(s, once, c, words)
    BY <1>7, HostTurns DEF InHost
  <2> HIDE DEF once, all
  <2>2. PICK q, e : /\ DomInv(q) /\ Mid(q) /\ Begun(q, Decoded) /\ (\A x \in Fields1 : q[x] = s[x])
                    /\ Enters(q, e) /\ once.f = Collect(HostByte(e, c, words), c)
    BY <2>1 DEF HostTaken
  <2>3. r = once.f
    BY <1>4, <1>5, <2>1 DEF HostTaken
  <2>4. \A x \in Fields1 \ {"urlTotal"} : e[x] = s[x]
    <3>1. q.st = "slash3"
      BY <2>2 DEF Fields1
    <3>2. \A x \in Fields1 \ {"urlTotal"} : e[x] = q[x]
      BY <2>2, <3>1 DEF Enters
    <3> QED BY <2>2, <3>2
  <2>5. /\ e.st = "slash3" /\ e.punct = s.punct /\ e.flags = s.flags /\ e.start = s.start /\ e.tld = s.tld /\ e.sld = s.sld
        /\ e.dot1 = s.dot1 /\ e.dot2 = s.dot2 /\ e.cp = s.cp /\ e.buf = s.buf /\ e.eol = s.eol /\ e.doms = s.doms
    BY <2>4 DEF Fields1
  <2>6. LabelsIn(e, h)
    BY <2>5, LabelsFrame
  <2>7. DomInv(e) /\ Mid(e)
    BY <2>2, EnterLines DEF Enters
  <2> DEFINE url == HostByte(e, c, words)
  <2>8. DomInv(url)
    BY <2>5, <2>7, HostByteIs
  <2> HIDE DEF url
  <2>9. r = Collect(url, c)
    BY <2>2, <2>3 DEF url
  <2>10. url.doms > e.doms
    BY <1>4, <2>5, <2>8, <2>9, CollectDoms
  <2>11. /\ Slice(url, e.start, url.cp) = LastLabels(h) /\ url.eol = e.eol /\ c \notin Letters /\ DOMAIN url = Fields1
    BY <1>2, <2>5, <2>6, <2>7, <2>10, LabelsStayAtEnd DEF url
  <2>12. CASE c = "nl"
    <3>1. r.cp = url.eol \/ r.cp = 0 \/ (r.cp = url.cp /\ r.buf = url.buf)
      BY <2>9, <2>11, <2>12, NlCollected
    <3>2. r.cp = url.cp /\ r.buf = url.buf
      BY <1>2, <2>5, <2>11, <3>1
    <3> QED BY <2>5, <2>11, <3>2 DEF Slice
  <2>13. CASE c # "nl"
    BY <2>5, <2>9, <2>11, <2>13, CollectOther
  <2> QED BY <2>12, <2>13
<1> QED BY <1>6, <1>7

(* A line end, read, leaves no host.                                       *)
LEMMA NlOnce ==
  ASSUME NEW s, DomInv(s), Mid(s), s.cref = "idle", NEW d, NEW words \in BOOLEAN
  PROVE  ~InHost(Turn1(s, "nl", words, d).f.st) /\ ~Turn1(s, "nl", words, d).again
<1> DEFINE r   == Turn1(s, "nl", words, d)
           q   == [s EXCEPT !.cref = "idle"]
           url == UrlByte(q, "nl", words)
<1>1. TurnIs(s, r, "nl", words, d) /\ DOMAIN s = Fields1
  BY Turns DEF RefStates, DomInv, DomTypes
<1>2. DomInv(q) /\ Mid(q)
  BY WithRef DEF RefStates
<1>3. Lines(url) /\ url.st \in {"idle", "skip"}
  BY <1>2, NlEnds
<1> HIDE DEF r, url, q
<1>4. Collect(url, "nl").st \in {url.st, "idle"} /\ (s.st = "idle" => Collect(s, "nl").st \in {s.st, "idle"})
  BY <1>1, <1>3, FrameCollect DEF Lines
<1>5. ~r.again /\ ((s.st = "idle" /\ r.f = Collect(s, "nl")) \/ r.f = url \/ r.f = Collect(url, "nl"))
  <2> DEFINE refs == "nl" = "&" \/ s.cref # "idle"
             ref  == RefStep(s.cref, "nl", d)
             u    == IF refs THEN ref.c ELSE "nl"
  <2>1. ~refs
    OBVIOUS
  <2>2. UrlByte(q, u, words) = url
    BY <2>1 DEF url
  <2> HIDE DEF refs, ref, u
  <2>3. \/ s.st = "idle" /\ r = [f |-> Collect(s, "nl"), again |-> FALSE]
        \/ r.again = (refs /\ ref.again) /\ (r.f = UrlByte(q, u, words) \/ r.f = Collect(UrlByte(q, u, words), "nl"))
    BY <1>1, <2>1 DEF TurnIs, q, refs, ref, u
  <2>4. CASE s.st = "idle" /\ r = [f |-> Collect(s, "nl"), again |-> FALSE]
    BY <2>4
  <2>5. CASE r.again = (refs /\ ref.again) /\ (r.f = url \/ r.f = Collect(url, "nl"))
    BY <2>1, <2>5
  <2> QED BY <2>2, <2>3, <2>4, <2>5
<1> QED BY <1>3, <1>4, <1>5 DEF InHost, r

LEMMA NlOut ==
  ASSUME NEW s, Inv1(s), SchemeHasLetter, s.cref # "start", NEW d, Decoding(s, d), NEW words \in BOOLEAN
  PROVE  ~InHost(Read1(s, "nl", words, d).st)
<1> DEFINE once  == Turn1(s, "nl", words, d)
           twice == Turn1(once.f, "nl", words, d)
<1>1. Read1(s, "nl", words, d) = IF once.again /\ ~once.f.panic THEN twice.f ELSE once.f
  BY DEF Read1
<1>2. DomInv(s) /\ Mid(s) /\ s.cref \in RefStates
  BY DEF Inv1, DomInv, DomTypes
<1>3. CASE s.cref = "idle"
  BY <1>1, <1>2, <1>3, NlOnce
<1>4. CASE s.cref # "idle"
  <2>1. DomInv(once.f) /\ Mid(once.f)
    BY NlFirst DEF Inv1
  <2>2. TurnIs(s, once, "nl", words, d)
    BY <1>2, Turns
  <2>3. RefStep(s.cref, "nl", d).done /\ RefStep(s.cref, "nl", d).again
    BY <1>2, <1>4, RefSteps DEF RefStates
  <2>4. once.again => once.f.cref = "idle"
    BY <1>2, TurnDoms
  <2> HIDE DEF once
  <2>5. CASE once.again
    <3>1. ~InHost(twice.f.st)
      BY <2>1, <2>4, <2>5, NlOnce
    <3>2. ~once.f.panic
      BY <2>1 DEF Mid, Lines
    <3> HIDE DEF twice
    <3> QED BY <1>1, <2>5, <3>1, <3>2
  <2>6. CASE ~once.again
    <3>1. s.st = "idle" /\ once.f = Collect(s, "nl")
      <4>1. CASE s.st = "idle" /\ once = [f |-> Collect(s, "nl"), again |-> FALSE]
        BY <4>1
      <4>2. CASE once.again = ((("nl" = "&") \/ s.cref # "idle") /\ RefStep(s.cref, "nl", d).again)
        BY <1>4, <2>3, <2>6, <4>2
      <4> QED BY <2>2, <2>3, <4>1, <4>2 DEF TurnIs
    <3>2. once.f.st = "idle"
      BY <1>2, <3>1, FrameCollect DEF DomInv, DomTypes
    <3> QED BY <1>1, <2>6, <3>2 DEF InHost
  <2> QED BY <2>5, <2>6
<1> QED BY <1>3, <1>4

-----------------------------------------------------------------------------
(* The invariant of the host that is being read.                           *)
LabelInv == BufferInv /\ host \in Seq(AbcOf(kind)) /\ HostIs(f, host)

LEMMA InitLabels == Init => LabelInv
<1> SUFFICES ASSUME Init PROVE LabelInv
  OBVIOUS
<1>1. BufferInv
  BY InitBuffer
<1>2. f.st = "idle" /\ host = <<>>
  BY DEF Init, Fresh1
<1> QED BY <1>1, <1>2 DEF LabelInv, HostIs

LEMMA NextLabels == ~NlInRef /\ SchemeHasLetter /\ LabelInv /\ [Next]_vars => LabelInv'
<1> SUFFICES ASSUME ~NlInRef, SchemeHasLetter, LabelInv, [Next]_vars PROVE LabelInv'
  OBVIOUS
<1>1. BufferInv'
  BY NextBuffer DEF LabelInv
<1>2. kind' = kind /\ Words \in BOOLEAN /\ Inv1(f) /\ DOMAIN f = Fields1
  BY WordsType DEF Next, Byte, Chunk, Boundary, Finish, LineEnd, vars, LabelInv, BufferInv, Inv1, DomInv, DomTypes
<1>3. SUFFICES host' \in Seq(AbcOf(kind)) /\ HostIs(f', host')
  BY <1>1, <1>2 DEF LabelInv, HostIs, LabelsIn, Holds, After, Slice, PlainHost, Dots, InHost, Select, Nth, UpTo, AbcOf
<1>4. CASE Byte
  <2>1. PICK c \in NextBytes : /\ \E d \in Decodes(f.cref, Decoded) : f' = Read1(f, c, Words, d)
                               /\ host' = IF ~InHost(f'.st) \/ (f'.st = "slash3start" /\ f'.cref = "idle")
                                          THEN <<>> ELSE Append(host, c)
    BY <1>4 DEF Byte
  <2>2. PICK d \in Decodes(f.cref, Decoded) : f' = Read1(f, c, Words, d)
    BY <2>1
  <2>3. Decoding(f, d)
    BY DEF Decoding, Decodes
  <2>4. host \in Seq(AbcOf(kind)) /\ c \in AbcOf(kind) /\ HostIs(f, host)
    BY NextAbc DEF LabelInv
  <2>5. HostIs(f', host')
    BY <1>2, <2>1, <2>2, <2>3, <2>4, HostStep
  <2>6. host' \in Seq(AbcOf(kind))
    BY <2>1, <2>4
  <2> QED BY <2>5, <2>6
<1>5. CASE LineEnd
  <2>1. PICK d \in Decodes(f.cref, Decoded) : f' = EndChunk(Read1(f, "nl", Words, d))
    BY <1>5 DEF LineEnd
  <2>2. f.cref # "start" /\ Decoding(f, d) /\ host' = <<>>
    BY <1>5 DEF LineEnd, Decoding, Decodes
  <2> DEFINE all == Read1(f, "nl", Words, d)
  <2>3. ~InHost(all.st) /\ DOMAIN all = Fields1
    BY <1>2, <2>2, NlOut, ReadDoms DEF Inv1, DomInv, DomTypes
  <2> HIDE DEF all
  <2>4. f'.st = all.st
    BY <2>1, <2>3, FrameEnd DEF all, Fields1
  <2>5. <<>> \in Seq(AbcOf(kind))
    OBVIOUS
  <2> QED BY <2>2, <2>3, <2>4, <2>5 DEF HostIs, InHost
<1>6. CASE Chunk
  <2>1. f' = EndChunk(f) /\ host' = host
    BY <1>6 DEF Chunk
  <2>2. f'.st = f.st /\ f'.cref = f.cref
    BY <1>2, <2>1, FrameEnd DEF Fields1
  <2>3. f.st = "slash3" => f' = f
    <3>1. f.st = "slash3" => f.eol < f.start /\ f.start \in 0 .. f.cp /\ f.eol # f.cp
      BY <1>2, BufSizes DEF Inv1, Begun, Mid, Lines, Offsets
    <3> QED BY <2>1, <3>1 DEF EndChunk
  <2>4. HostIs(f', host)
    <3>1. CASE f.st = "slash3"
      BY <2>3, <3>1 DEF LabelInv
    <3>2. CASE f.st # "slash3"
      BY <2>2, <3>2 DEF LabelInv, HostIs
    <3> QED BY <3>1, <3>2
  <2> QED BY <2>1, <2>4 DEF LabelInv
<1>7. CASE UNCHANGED vars
  BY <1>7 DEF vars, LabelInv
<1> QED BY <1>4, <1>5, <1>6, <1>7 DEF Next, Boundary, Finish

LEMMA LabelsKept ==
  ASSUME SchemeHasLetter, LabelInv, [Next]_vars, f.st = "slash3", f'.doms > f.doms, PlainHost(host), f.eol # -1,
         f'.cp >= f.start
  PROVE  Slice(f', f.start, f'.cp) = LastLabels(host)
<1>1. Inv1(f) /\ Words \in BOOLEAN /\ Len(host) \in Nat /\ f.cref = "idle" /\ LabelsIn(f, host)
      /\ DOMAIN f = Fields1 /\ ~(f.doms > f.doms)
  BY WordsType DEF LabelInv, BufferInv, HostIs, Inv1, DomInv, DomTypes
<1>2. ASSUME NEW c, NEW d, f' \in {Read1(f, c, Words, d), EndChunk(Read1(f, c, Words, d))}
      PROVE  Slice(f', f.start, f'.cp) = LastLabels(host)
  BY <1>1, <1>2, LabelsStayStep
<1>3. CASE Byte
  <2>1. PICK c, d : f' = Read1(f, c, Words, d)
    BY <1>3 DEF Byte
  <2> QED BY <1>2, <2>1
<1>4. CASE LineEnd
  <2>1. PICK d : f' = EndChunk(Read1(f, "nl", Words, d))
    BY <1>4 DEF LineEnd
  <2> QED BY <1>2, <2>1
<1>5. CASE Chunk
  <2>1. f'.doms = f.doms
    BY <1>1, <1>5, FrameEnd DEF Chunk, Fields1
  <2> QED BY <1>1, <2>1
<1>6. CASE UNCHANGED vars
  BY <1>1, <1>6 DEF vars
<1> QED BY <1>3, <1>4, <1>5, <1>6 DEF Next, Boundary, Finish

(* When a URL's host ends, its last two labels stay in the line buffer,    *)
(* for any host, text, chunks and sizes of the buffer (urlHostEnd).        *)
THEOREM LabelsStay ==
  ASSUME ~NlInRef, SchemeHasLetter PROVE Spec => LastTwoLabelsStay
<1>1. LabelInv /\ [Next]_vars =>
        [(/\ f.st = "slash3" /\ f'.doms > f.doms /\ PlainHost(host)
          /\ f.eol # -1 /\ f'.cp >= f.start)
         => Slice(f', f.start, f'.cp) = LastLabels(host)]_vars
  BY LabelsKept
<1> QED BY InitLabels, NextLabels, <1>1, PTL DEF Spec, LastTwoLabelsStay
=============================================================================
