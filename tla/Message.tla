------------------------------- MODULE Message -------------------------------
(***************************************************************************)
(* From a raw message to its checksums (dcc/message.go, dcc/header.go):    *)
(* the header is split into unfolded fields, and one checksum is computed  *)
(* of each field of interest.  Which body checksums are valid is a         *)
(* parameter here; Mime and Fuzzy are about them.                          *)
(*                                                                         *)
(* A message is a sequence of lines, a line one of tokens: a field's name  *)
(* with its colon ("from:") or the separator of mailboxes ("From ") is one *)
(* token, and "A" is the capital of "a".  An MD5 sum is here the sequence  *)
(* that is hashed, MD5 being taken to be injective.                        *)
(***************************************************************************)
EXTENDS Integers, Sequences, SequencesExt

CONSTANT HdrCkMax    \* hdrCkMax, the bytes of a field that count

ASSUME HdrCkMaxAssumption == HdrCkMax \in Nat \ {0}

White   == {"sp", "tab", "cr", "nl"}
Ignored == White \cup {"<", ">", "sq", "dq", ","}

BodyTypes == {"Body", "Fuz1", "Fuz2"}
Lines     == Seq(STRING) \ {<<>>}

SkipLeft(s, set) ==
  LET i == SelectInSeq(s, LAMBDA t : t \notin set)
  IN  SubSeq(s, IF i = 0 THEN Len(s) + 1 ELSE i, Len(s))

SkipRight(s, set) == SubSeq(s, 1, SelectLastInSeq(s, LAMBDA t : t \notin set))

IsBlankLine(line) == line \in {<<"nl">>, <<"cr", "nl">>}

(* splitHeadersBody: the header ends before the first blank line.  A line  *)
(* that starts with a blank goes on with the field before it, if any.      *)
HeaderEnd(msg) ==
  LET blank == SelectInSeq(msg, IsBlankLine)
  IN  IF blank = 0 THEN Len(msg) ELSE blank - 1

AddLine(fields, line) ==
  IF fields # <<>> /\ line[1] \in {"sp", "tab"}
  THEN [fields EXCEPT ![Len(fields)] = @ \o line]
  ELSE Append(fields, line)

SplitHeaders(msg) ==
  LET after[n \in 0 .. HeaderEnd(msg)] == IF n = 0 THEN <<>> ELSE AddLine(after[n - 1], msg[n])
  IN  after[HeaderEnd(msg)]

(* str2ck: what is hashed of a field.                                      *)
Str2ck(value) ==
  LET kept  == SelectSeq(value, LAMBDA t : t \notin Ignored)
      short == SubSeq(kept, 1, IF Len(kept) > HdrCkMax THEN HdrCkMax ELSE Len(kept))
      lower == [i \in DOMAIN short |-> IF short[i] = "A" THEN "a" ELSE short[i]]
  IN  SkipRight(lower, {"."})

(* The sender that a field names, as a sequence of none or one.            *)
ParseReturnPath(f) ==
  LET value == SkipRight(SkipLeft(Tail(f), {"sp", "tab"}), {"cr", "nl"})
  IN  IF f[1] = "return-path:" /\ value # <<>> THEN <<value>> ELSE <<>>

ParseUnixFrom(f) ==
  LET value == SkipLeft(Tail(f), {"sp"})
      sp    == SelectInSeq(value, LAMBDA t : t = "sp")
  IN  IF f[1] = "From " /\ sp > 1 THEN <<SubSeq(value, 1, sp - 1)>> ELSE <<>>

NoSums == [env |-> <<>>, from |-> <<>>, msgid |-> <<>>, recv |-> <<>>]

(* Slip: the last of several senders counts.                               *)
NoticeLastSender(sums, f, i) ==
  LET sum    == <<Str2ck(Tail(f))>>
      sender == IF i = 1 /\ ParseUnixFrom(f) # <<>> THEN ParseUnixFrom(f) ELSE ParseReturnPath(f)
  IN  [env   |-> IF sender = <<>> THEN sums.env ELSE <<Str2ck(sender[1])>>,
       from  |-> IF f[1] = "from:" THEN sum ELSE sums.from,
       msgid |-> IF f[1] = "message-id:" THEN sum ELSE sums.msgid,
       recv  |-> IF f[1] = "received:" THEN sum ELSE sums.recv]

(* The loop of Checksums on field i: of fields with one name the last      *)
(* counts, of the senders the first.                                       *)
Notice(sums, f, i) ==
  LET sum    == <<Str2ck(Tail(f))>>
      sender == IF i = 1 /\ ParseUnixFrom(f) # <<>> THEN ParseUnixFrom(f) ELSE ParseReturnPath(f)
  IN  [env   |-> IF sums.env # <<>> \/ sender = <<>> THEN sums.env ELSE <<Str2ck(sender[1])>>,
       from  |-> IF f[1] = "from:" THEN sum ELSE sums.from,
       msgid |-> IF f[1] = "message-id:" THEN sum ELSE sums.msgid,
       recv  |-> IF f[1] = "received:" THEN sum ELSE sums.recv]

(* Checksums: in the order of their types.  A missing Message-ID gets the  *)
(* sum of nothing, which is not for a server.                              *)
Checksums(msg, valid) ==
  LET fields == SplitHeaders(msg)
      after[n \in 0 .. Len(fields)] == IF n = 0 THEN NoSums ELSE Notice(after[n - 1], fields[n], n)
      s == after[Len(fields)]
      Ck(type, sum) == [type |-> type, sum |-> sum, report |-> TRUE]
      Some(type, opt) == [i \in DOMAIN opt |-> Ck(type, opt[i])]
      BodyCk(type) == IF type \in valid THEN <<Ck(type, type)>> ELSE <<>>
  IN  Some("env_From", s.env) \o Some("From", s.from)
      \o (IF s.msgid # <<>> THEN Some("Message-ID", s.msgid)
          ELSE <<[Ck("Message-ID", <<>>) EXCEPT !.report = FALSE]>>)
      \o Some("Received", s.recv) \o BodyCk("Body") \o BodyCk("Fuz1") \o BodyCk("Fuz2")

-----------------------------------------------------------------------------
(* The reference for Checksums: what is to be reported of a message, one   *)
(* field at a time.                                                        *)
Starts(msg, i) ==
  /\ \A j \in 1 .. i : ~IsBlankLine(msg[j])
  /\ i = 1 \/ msg[i][1] \notin {"sp", "tab"}

Field(msg, i) ==
  LET ends == {j \in i + 1 .. Len(msg) : Starts(msg, j) \/ IsBlankLine(msg[j])}
      unfolded[j \in i .. Len(msg)] == IF j = i THEN msg[i] ELSE unfolded[j - 1] \o msg[j]
  IN  unfolded[IF ends = {} THEN Len(msg) ELSE Min(ends) - 1]

Sender(msg, i) ==
  ParseReturnPath(Field(msg, i)) \o (IF i = 1 THEN ParseUnixFrom(Field(msg, i)) ELSE <<>>)

SumsToReport(msg, valid) ==
  LET fields     == {i \in DOMAIN msg : Starts(msg, i)}
      senders    == {i \in fields : Sender(msg, i) # <<>>}
      named(n)   == {i \in fields : Field(msg, i)[1] = n}
      last(t, n) == {<<t, Str2ck(Tail(Field(msg, Max(named(n)))))>> : i \in named(n)}
  IN  {<<"env_From", Str2ck(Sender(msg, Min(senders))[1])>> : i \in senders}
      \cup last("From", "from:") \cup last("Message-ID", "message-id:") \cup last("Received", "received:")
      \cup {<<t, t>> : t \in valid}
=============================================================================
