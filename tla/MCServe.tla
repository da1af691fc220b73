------------------------------- MODULE MCServe -------------------------------
(* Small instances of Serve for TLC: messages and what a server holds.     *)
EXTENDS Serve

Symmetry == Permutations(Handlers)

Mbox    == <<<<"From ", "a", "sp", "x", "nl">>, <<"return-path:", "b", "nl">>, <<"message-id:", "sp", "a", "nl">>,
             <<"nl">>, <<"from:", "x", "nl">>>>
Folded2 == <<<<"return-path:", "sp", "nl">>, <<"from:", "sp", "nl">>, <<"tab", "<", "A", ">", ".", "nl">>,
             <<"return-path:", "sp", "<", "a", ">", "cr", "nl">>, <<"return-path:", "b", "nl">>, <<"cr", "nl">>>>
Headed  == <<<<"sp", "x", "nl">>, <<"received:", "x", "nl">>, <<"From ", "b", "sp", "nl">>,
             <<"received:", "a", "nl">>, <<"sp", "b", "a", "b", "b", "nl">>>>
Bare    == <<<<"nl">>, <<"message-id:", "x", "nl">>>>

Types == {"env_From", "From", "Message-ID", "Received"} \cup BodyTypes
Held(n)  == [t \in Types |-> n]
Unknown  == Held(0)
Spam     == [Held(0) EXCEPT !["Fuz2"] = Many]
Mixed    == [Held(Many) EXCEPT !["Fuz1"] = OK2]
Sender2  == [Held(Many - 1) EXCEPT !["From"] = OK, !["Message-ID"] = Many, !["env_From"] = Many, !["Received"] = Many]

Sample(m, v, c) == [msg |-> m, valid |-> v, held |-> c]
MCSamples ==
  {Sample(m, BodyTypes, c) : m \in {Mbox, Folded2}, c \in {Spam, Mixed, Sender2}}
  \cup {Sample(Headed, {}, Held(Many)), Sample(Bare, {}, Unknown), Sample(Bare, {"Body"}, Held(OK))}
MCSample == {Sample(Mbox, BodyTypes, Spam)}
=============================================================================
