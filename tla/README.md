# gdcc in TLA+

gdcc is a DCC (Distributed Checksum Clearinghouses) client in Go: it computes
checksums of a mail message, asks DCC servers over UDP how often they have been
seen (`check`) or tells them of one more (`report`), runs as a command or as an
HTTP daemon, and keeps its credentials in a small file. This directory holds a
TLA+ specification of its concurrent parts and of the automata that read a
message, the TLC configurations that check them on small instances, and proofs
that TLAPS checks for every value of the constants. Paths below are relative to `src/`.

## 1. Inventory

### Transaction engine (`dcc/client.go`: send, parallelQuery, exchange, readAnswer)
*State*: the transaction counter `Client.rid`; per call its id, deadline and
result channel; per exchange ("leg") its socket, transmission count and position.
*Operations*: take an id, race a query over all servers or go through them one
by one, transmit, retransmit with backoff, read datagrams, classify them, post
the result, take results until the first success.
*Interactions*: calls of one `Client` run in any number of goroutines and share
`rid`, the address cache and the servers; legs of one call share the result
channel and the `stop` channel; all of them share a network that loses,
duplicates, delays and corrupts, and ports that are reused.
*Correct when*: counts returned were computed for this call; a report is never
offered to two servers at a time; an answer that arrived is not dropped; a leg
nobody needs falls silent and ends; every call returns.

### Wall-clock budget of a call (`dcc/client.go:225-268, 302-419`)
*State*: the total deadline, the share of the server at hand, the end of the
current wait, the socket's read deadline, the watcher goroutine of the context.
*Hard*: the watcher moves the read deadline of a socket that readAnswer is about
to set; the name resolution knows no deadline; the shares come from an integer
division. *Correct when*: waits and failovers stay within the deadline, no
server is starved, cancelling ends the wait at hand.

### Address cache (`dcc/client.go:65-108`)
*State*: a map from server to address and expiry, under a mutex. *Operations*:
resolve (two critical sections around an unlocked lookup), invalidateAddr.
*Hard*: a lookup in flight stores after others stored or invalidated.
*Correct when*: no address is used that was given up longer than the TTL ago.

### Identity store (`dcc/identity.go`, `cmd/gdcc/register.go`)
*State*: the ids files, and temporary files beside them. *Operations*: register
(choose the file, read, edit, write a temporary file, rename), parse, and resolve
an identity from flags, environment and files. *Hard*: crashes and failing
system calls between any two steps, several processes, lines that read back
differently from how they were written, half an identity in front of a whole
one. *Correct when*: the file is always whole, clients find what was registered,
re-registering replaces, lines of others survive.

### HTTP daemon (`cmd/gdcc/serve.go`, `cmd/gdcc/metrics.go`)
*State*: the channel of slots, the counters, the histogram and its mutex, the
listeners' goroutines and their error channel. *Operations*: token check, gate,
check and report handlers, observe, the `/metrics` page, shutdown. *Hard*:
panics, scrapes beside observations, a listener failing. *Correct when*: no slot
is lost, requests are counted once, a scrape is consistent, everything ends.

### Message and verdict (`dcc/message.go`, `header.go`, `sum.go`, `proto.go`, `result.go`)
*State*: none beyond one call. *Operations*: split the header into unfolded
fields, compute the checksum of each field of interest, pack those that a server
may see, put the counts of the answer back to them by position, and judge.
*Interactions*: both handlers of the daemon, and the command, run them around
the engine. *Hard*: a made-up Message-ID that is not sent shifts the positions;
duplicated, folded, empty and mbox fields; whitelisting beside bulk counts.
*Correct when*: what is sent is what stands in the message, and the verdict is
the one that the server's counts of this message's body call for.

### MIME decoder (`dcc/mime.go`, `mime_multipart.go`, with `struct cks` of `cks.go`)
*State*: the stack of boundaries of the open containers, the header automaton,
content type, charset and transfer encoding of the entity, the quoted-printable
and base64 automata. *Operations*: walk the lines of a body, match each against
every open boundary, read an entity's header, decode its text, reset at the next
boundary. *Interactions*: gives decoded chunks to the body checksums, which read
content type and charset from it. *Hard*: folds inside a parameter, quoted
boundaries, one boundary a prefix of another, decoder state carried over chunks
and entities. *Correct when*: each section is decoded as its own header says and
nothing leaks into the next.

### Body checksums (`dcc/body.go`, `fuz1.go`, `puny.go`, `fuz2.go`, `cref.go`, `cref_lookup.go`, `cks.go`)
*State*: the part of ">From" that was matched; a line buffer with its last line
end, a URL automaton with offsets into that buffer, and a buffer of host names;
a word, a tag, counters of words per language; two character references in
progress. *Operations*: one loop over the bytes of a chunk for each of the
three, and `final`. *Interactions*: fuzzy checksum 1 asks fuzzy checksum 2 for
its number of words, which in turn falls back on the host names of the former;
the tag `<html` changes the entity's type. *Hard*: chunks end anywhere while
offsets into a buffer are kept that is flushed, moved and cut under them; limits
on words, tags, hosts and the sum; what is undone when a match fails.
*Correct when*: no index leaves its array, only letters are summed, the last two
labels of a host stay, words are counted whole, counts add up.

### Not modelled
The command line (`cmd/gdcc/main.go`) is flag parsing and output around one
call. The tables (`dcc/cref_table.go`, `fuz2_tables.go`, `cset_tables.go`) are
generated data; the models take small tables as constants instead.

## 2. Plan

Built, in this order: `DccCall`, `DccClient` and its proofs; `CallClock` and its
proofs; `AddrCache` and its proofs; `IdsFile`; `Serve`; `MimeDecode`,
`MimeHeader`, `Entities` and `Mime`; `BodySum`, `CharRef`, `Fuz1`, `Fuz2` and
`Fuzzy`; `Message` and `Verdict`, and `Serve` with them; the proofs of `Serve`, of
`Fuzzy`'s counts, of the race in `DccClient` and of the saves in `IdsFile`; those of
the buffers of `Fuz1`, of registration in `IdsFile`, of the shares in `CallClock`
and of the verdicts in `Serve`; those of the sums that `Message` computes, of the
words and the text that `Fuz2` and `BodySum` read, and of the labels that `Fuz1` keeps.

Next, in this order:

1. More proofs: `Mime`, once its automata are recursive functions.
2. `Daemon`: `Serve` composed with `DccCall`, so that an HTTP answer is traced
   to one server's counts.
3. The HTTP time limits beside `CallClock`.

Modules meant for proofs declare no RECURSIVE operator. Where a loop computes
something that a proof speaks of, it is a recursive function over the places of its
input (`Message!SplitHeaders`, `BodySum!Body0`); elsewhere it is a fold, or the part
of a sequence at a set of places (`Select`). `MimeHeader`, `MimeDecode` and
`Entities`, and with them `Mime`, recurse over a line or a text and are for TLC only.

## 3. The modules

| module | models |
|---|---|
| `DccCall` | what one call promises, with no network |
| `DccClient` | the engine; shown to implement `DccCall` |
| `CallClock` | one sequential call against an integer clock |
| `AddrCache` | the cache entry of one server |
| `IdsFile` | registration on one ids file |
| `Message` | the checksums of a message, and by reference what is to be reported |
| `Verdict` | the packet, the counts of its answer, the verdict, and by reference the true one |
| `Serve` | the daemon, with `Message` and `Verdict` |
| `MimeHeader` | the containers, and the automaton that reads MIME fields |
| `MimeDecode` | quoted-printable and base64 as automata |
| `Mime` | the walk over the lines of a body |
| `Entities` | what that walk promises, declaratively |
| `CharRef` | character references, and the classes of bytes |
| `BodySum`, `Fuz1`, `Fuz2` | the three body checksums, one operator per function |
| `Fuzzy` | the three fed with one body, in chunks and entities |
| `Select` | the part of a sequence at some of its places |
| `MC*` | the instances TLC runs |
| `*Proofs` | the proofs TLAPS checks |
| `Least` | lemmas: the least of a set of numbers, what `Select` keeps, and parts of sequences |

The operators named "Slip" in the modules are not part of any specification:
each is a definition as a plausible mistake would have it, used to make sure
that a property can fail.

### DccClient and DccCall
A leg is a pair of call and server; `pc[l]` is the place in `exchange` or
`readAnswer` ("wait" is the head of readAnswer's loop, "read" the blocked Read).
One action is the code between two points where another goroutine can be
noticed: `Top` is the select, `Write` the transmission, `Wait` the select of
readAnswer, `Read` takes any datagram of the server, `Timeout` ends the wait.
`Start` covers `send` up to the choice between racing and failing over;
`SeqPick`/`SeqReturn` are the loop of `send`, `ParTake` that of `parallelQuery`,
`Post` the goroutine's `out <- res`. `resolve` may fail (`Dial`); its cache is
`AddrCache`. Time is abstract: `late` and `due` say which deadlines have passed
and may grow at any moment; how they are computed is `CallClock`.
The network is a growing set of datagrams: any of them may be read at any
later time, any number of times, or never, by any socket connected to the
server that sent it. A server answers a request it was sent; corruption may
change op, length or signature state. `served` holds the calls a server
processed; `tail` counts the transmissions of a leg after it was told to end.

`DccCall` has one status per call and the set of calls handled by each server.
The refinement maps "seq" and "par" to "open", and `served` to `handled`.

### CallClock
Ticks since `send` took its deadline. Code takes no time; the clock moves in
`resolve` (at most `MaxSlow` ticks in all) and while a Read blocks, and not
while the watcher has something to do, so that what a lost wake-up costs is not
confused with slow scheduling. `Check`, `Arm` and the Read are separate steps,
as the watcher runs between them. `share` and `stopBy` are history.

### AddrCache
`Begin`, `Look`, `Resolve`, `Store` are the four stretches of `resolve` between
lock operations; `Drop` is invalidateAddr. `Move` is the operator of the server
changing its address. `seenAt` remembers when the name service last gave an
address; `failed` and `condemned`, kept only if `Remember` is set, which
addresses have failed. The entries of
the map do not interact, so one server is enough.

### IdsFile
Lines are records; what distinguishes passwords is what is read back of them
(`ReadsAs`: a '#' cuts, a space ends). `ReadFile` includes the edit, `WriteTemp`
Write and Close, `End` the deferred Remove. With `Faults` every system call may
fail and a process may crash between any two of them. `overtaken` is history:
registrations whose copy is older than the file they will replace.
`ResolveIdentity` is an operator on the credentials given (flags, then
environment), DCC_IDS, and what each path holds; an environment's id and password
count as given when the id is a number. A file that cannot be opened is one that
names nobody.

### Serve, Message and Verdict
A handler goroutine per request: `Accept` (token check), `Gate` (slot or 503),
`Body`, then in the DCC client ("check" or "report"), `Answer` or `Panic`, the
three parts of `observe`, `Release` (the deferred receive). A scrape takes the
mutex and reads line by line. `ServeReturn`, `Post`, `CloseAll`, `Exit` are the
end of `runServe`; in-flight handlers end with the process, as in the code.
`Body` chooses the message, one of `Samples`: lines of tokens, the body sums
that are valid, and what the server holds of each sum. `Answer` computes
`Checksums`, `Packet`, `Reply` and `VerdictThreshold` of it. An MD5 sum is the
sequence that is hashed. `SumsToReport` and `TrueVerdict` are the references,
written from the message as a set of fields, not from the code's loops.

### Mime, MimeHeader, MimeDecode and Entities
Tokens are what the automata can tell apart: the names and words they look for
("ct", "charset="), "ws", "nl", ";", quotes, digits, other bytes. A step of
`Mime` is one line, read together with what the code does up to the next one;
the last line may lack its end. `held` is `bp[sum:cmp]`, `fresh` says that the
line follows a boundary, where the code does not compare (`mime_multipart.go:21`).
`Entities` says the same with no automaton: fields are unfolded, parameters
found in the whole field, a section is decoded all at once. The refinement
hides an entity's type while its header is being read; of quoted-printable text
that ends in a false escape two bytes may be missing, and of what follows base64
padding nothing is promised, as the code does neither (section 5).

### Fuzzy, BodySum, Fuz1, Fuz2 and CharRef
A byte stands for its class (`CharRef!Bytes`). Each state struct of the source is
a record and each function of its loops an operator from a record and a byte to
a record; `Byte` feeds one byte to all three, `Chunk` ends a chunk, `Boundary` is
the boundary line and `decodersInit`, `Finish` is the end of `computeBody`. The
line buffer of `Fuz1` is kept byte for byte, since URLs move parts of it; of the
buffer of host names only `ends`, where each name in it ends. A slice out of range sets `panic`,
and a byte that is summed and is no letter sets `dirty`. What a reference stands
for is chosen from `Decoded` when it ends. `chunk` keeps the answer of
`fz2WordCount` from the start of a chunk, as `Fuz1` reads a chunk before `Fuz2`.
`punyencode` only clears a flag: it replaces labels that decode as UTF-8, and a
continuation byte ends the host before it gets into a label.
A body is of one kind, with an alphabet for text, one for URLs and the bytes
that may break an "http://", so that a URL is a few steps of choice in a long
input. `Alphabet[k].follow` says of which checksum the text it was given is
remembered, for the comparison with a reference.

## 4. What the runs check

| run | shows | bounds |
|---|---|---|
| client_cross | counts are genuine and the engine implements DccCall, with stale, duplicate and corrupted datagrams crossing between calls | a query and a report of one signing client, one server, one transmission, one corruption |
| client_race | types; no answer dropped; silence once told; the call returns and all legs quit | two servers raced, two transmissions |
| client_report | a report is in one exchange at a time, and returns | three servers, anonymous |
| clock_call | the budget holds, shares are fair, cancelling ends the wait, the call returns | budget 18 ticks (first backoff 1, as 312 ms to 5 s), three servers, 2 ticks of resolution, one stray datagram |
| clock_cancel_read | finding 1 | one server |
| addr_shared | bounded staleness | two exchanges, two addresses, TTL 2, 4 ticks |
| ids_shared | whole file, an identity for every client that may look for it, idempotence, other lines kept unless overtaken | two processes, three registrations of two ids, passwords that read back as written or cut, faults and crashes; DCC_IDS set or not, the other file empty, anonymous or naming another, half identities in flags and environment |
| serve_gate | 503 only when full, every request counted once, a scrape is a histogram that existed, the sums sent are the message's and the verdict is the true one | three handlers, two slots, three requests, two buckets, one scrape, nine messages with their counts |
| serve_live | handlers end, one failing listener ends all | two handlers, two listeners, one scrape |
| mime_body | the decoder implements `Entities`; containers and names within their arrays | two levels of boundaries "a" and "a;", names below 4, at most two lines between boundaries, 4 headers of messages, 15 header lines, 12 text lines, 5 unfinished lines; chunks of 4 |
| fuzzy | indices in range, only letters summed, last two labels stay, words whole, the body sum exact, counts add up, a name behind every fallback | seven kinds of bodies of 6 to 29 bytes, line buffer of 14, hosts of 5, sum of 10, words of 4 |
| fuzzy_letters | finding 2 | URLs of the kind "hosts", with line ends after "&" |

Why the bounds are enough: every hazard above needs at most two calls that
cross, two legs that race, or three servers for a failover in the middle of the
list; a third adds interleavings of the same kind. Corruption is bounded by one
datagram because the properties speak of one datagram accepted or not.
`Samples` holds what the splitter can stumble over: an mbox line, a sender
folded over blanks, a first line that is a continuation, repeated fields, no
header at all, and counts in which whitelisted and bulky sums of body and header
disagree. The sizes of `Fuzzy` keep the order of the real ones (host below
buffer, line and "https://" below buffer, word below tag), and each kind of body is
long enough to go over its limits: "links" and "hosts" fill the line buffer
within a URL, "list" fills the buffer of host names, "words" and "tags" go one
over the longest word and tag. `MaxBytes` bounds a body. `BndMax` 4 lets one
name fit and one not, and `MaxHeld` 2 gives a section an end that lies in
another line than its start.
Two inputs are left out on purpose: `NlInRef` FALSE keeps "&" at the end of a
line out of URLs in the run fuzzy (with it, finding 2), and `Adjacent` FALSE
keeps boundaries right after boundaries, and headers that start with a fold, out
of mime_body, as the decoder promises nothing of them.
The constants `RidBound`, `MaxGarbled`, `MaxSlow`, `MaxStray`, `MaxTime`,
`MaxRuns`, `MaxRequests` and `MaxScrapes` bound what is unbounded in the code;
where a theorem exists it holds for all their values. `Quiet` and `Returned` are
stuttering steps of finished systems, so that TLC's deadlock check stays on; in
`Mime` and `Fuzzy` a body ends and the runs say CHECK_DEADLOCK FALSE.

### Fairness
`DccClient`: goroutines run and a wait has an end, because every Read has a
deadline; neither an answer nor a cancellation nor the passing of the total
deadline is assumed. `CallClock`: code and watcher run and the clock ticks.
`Serve`: handlers, scraper and runServe's goroutines run, the DCC client returns
(that is `DccClient!Returns`), and a free mutex is taken by somebody who waits;
as the requests are bounded, weak fairness is enough for every waiter to have
its turn (Go's mutex also hands over to a waiter that has starved). No fairness is assumed of
users, servers, the network, listeners or new requests.

## 5. Findings

Each is a statement of a comment in the source that the code does not keep; the
run named shows the behaviour.

1. clock_cancel_read: the watcher's wake-up is lost if it comes between the
   check of the context and `SetReadDeadline(until)`; the read waits out its time
   (`dcc/client.go:316`). What does hold is `CancelEndsWithTheWait`.
2. fuzzy_letters: a newline right after "&" in a URL's host is swallowed by the
   character reference, so the URL goes on while the newline ends a line; a chunk
   that ends there flushes and clears the line buffer under the URL, and bytes
   of the cleared part are summed (`dcc/fuz1.go:408`, against
   `dcc/fuz1.go:10-13`). The run shows this trigger. There is one more: what keeps
   a flush from reaching under a host is that a letter of "http" was collected
   after the last line end; a URL at the start of a line ("=http://...") whose
   "h", "t" and "p" are all written as numeric references has none, and a chunk that
   ends in its host has the same effect. To see it, run `Fuzzy` with `NlInRef`
   FALSE and `Decoded` {"h", "t", "p"} on bodies of that kind. Without either,
   `OnlyLettersSummed` and `BufferBounds` hold: that is proved (section 6).

Three more statements of comments have a configuration that shows the code at
odds with them, to be run by hand: `ClientSilence.cfg` (a report fails over also
after a server answered with an error, not only when "a server gives no answer at
all", `dcc/client.go:237`; what holds is `ReportFailsOverInOrder`),
`AddrRace.cfg` (an address that was invalidated is put back by a resolution in
flight, `dcc/client.go:101`; what holds is `BoundedStaleness`) and `IdsLost.cfg`
(two registrations at a time lose one of the lines, `dcc/identity.go:103`; what
holds is `OthersPreservedAlone`).

Some comments are at odds with the code in ways that need no model checker, and
the models follow the code: `Client.Timeout` is called a "per-server budget"
(`dcc/client.go:52`) and is split among the servers (`Pick`); resolution stops
neither at the deadline nor when the context is cancelled (`Dial`, `Tick`),
though `dcc/client.go:177` and `227` say so; a failing Read does not invalidate
the address (`RecvFailure`, `dcc/client.go:101`); an unsigned datagram with
another op or length ends an authenticated exchange, since the signature is
looked at last (`Classify`, `dcc/client.go:410`); a password that begins with
'#' is written but not recognised when the id is registered again (`ReadsAs`,
`dcc/identity.go:102`).

What the body's code does at its edges, and the models follow:

- Non-ASCII host names are never turned into punycode, against
  `dcc/puny.go:3-6`: the second byte of every UTF-8 character ends the host.
- When no line end is in the line buffer, the whole host is dropped from the
  sum, not only its third-level labels (`dcc/fuz1.go:158`).
- A greeting on the first line of a body is not dropped, as only a line after a
  noted line end is compared. A line end in the skipped rest of a URL is not noted.
- A tag or comment that is open, and a character reference, go on across the
  boundary of an entity.
- Base64 after padding within one entity is decoded out of step; of a false
  quoted-printable escape at the end up to two bytes are lost; a last line
  without end that is the beginning of a boundary is dropped.
- A Return-Path that is folded with a blank value counts as a sender, with the
  sum of nothing.

## 6. What is proved

The theorems are of the form `Spec => []P`, an action property or the refinement,
for every value of the constants that satisfies the named assumptions of the
module. Some need a hypothesis beside `Spec`, which their statement names:
`Trusted` (DccClientProofs), `Readable` (IdsFileProofs), `~NlInRef` and
`SchemeHasLetter` (FuzzyProofs, TextProofs), `PlainWords` (TextProofs). Each holds in
the runs that check the property, and is explained below. What the modules assume of
tables and samples is what the code's have: the first language's words are of
letters and for any charset (`EnglishAssumption`), `fromSeq` begins with a line end
and `>` and has no other white space (`FromAssumption`), and lines are not empty,
sums valid are of the body, counts are naturals (`SamplesAssumption`).

**DccClientProofs.** `TypeCorrect` rests on `IndType`: the types, plus that a leg
about to transmit has transmissions left, that `at` stays within the loop, and
that only legs of started calls move (without the first the bound on `xmit`,
without the second the bound on `at`, would not be inductive).
`CountsAreGenuine` rests on `IndGenuine`: ids of started calls are distinct and
not above `rid`; a request bears the id of its call; a signed (or, without
corruption, any) answer bears the id and the value of one request that was
served; what a leg accepted is such an answer. `ReportsInOrder` rests on
`IndOrder`, the shape of a sequential call: legs before `at` are gone without
success, legs after it do not exist, and a leg that stopped because it was told
belongs to a cancelled call. `ToldLegsAreQuiet` rests on `IndQuiet`, which says
where a leg with one late transmission can be. `EngineImplementsCall` maps each
action to a step or a stutter of `DccCall`; it needs `IndGenuine` for the step
that succeeds, and is therefore stated under `Trusted`: the client checks
signatures, or nothing is corrupted.

`FailureMeansNoAnswer` rests on `IndRace`: in a race the results
taken, those in the channel and the legs that have not posted are together as many
as there are servers, and an answer that was posted is still in the channel. So
when the last result is taken the channel and the set of unposted legs are empty,
and none of the results was an answer. A sequential call needs `IndOrder` instead;
and a call that failed has no leg left that could still get an answer.

**CallClockProofs.** The invariant adds to the types that deadlines nest (wait
within attempt within total), that a blocked Read has a read deadline not
beyond the total one plus the time spent resolving, and that after a
cancellation both ends lie before `stopBy`. From it follow `CallsKeepTheBudget`
and `CancellingEndsTheWait`. `SharesAreEven` rests on `SharesInv`: while names resolve
at once, the time left per server left never falls below the even share. With
T the budget and N servers, `T * (N - srv + 1) <= (T - now) * N` whenever a server
is picked; the quotient `Pick` then takes is at least `T \div N` (lemma
`Shares`), and what the exchange may use up leaves the same inequality for the
next. The inequality is on products because one on quotients would lose a
remainder with every server and is not inductive.

**AddrCacheProofs.** `StalenessIsBounded` needs that an entry was seen no earlier
than its expiry less the TTL, which in turn needs that an answer about to be
stored was seen after its `resolve` began.

**IdsFileProofs.** `SavesAreWhole`: what a registration has on disk is determined by
where it is, so that what it renames is complete; it needs the guard that a failed
Write or Close ends the registration. `StoreTypes`, `RegisteringReplaces` and
`OthersStay` rest on `IndIds`: the types, plus that what a registration is about to
rename is the edit of the file it read, unless it was overtaken, and in any case
the edit of some whole file (`CopyEdited`). What an edit does to a file is stated
once: `EditedOwn` (one line of the id registered, with its password) and
`EditedOthers` (what every other id and every comment reads back as, in order), from
the lemmas on `Select` in `Least`. `ClientsAuthenticate` adds `Named`: after the first
rename some line of the file has a registered id and a password; `ParseNames`
says that the parser then finds one. The last three hold under `Readable`: no
password begins with '#'. Such a password is written, but read back as a comment
(section 5); the runs' passwords include those that read back cut, and none of these.

**ServeProofs.** The invariant says that the tokens in `sem` are as many as the
handlers behind the gate, that the requests counted and those still to be counted
(and likewise the observations) are not more than those accepted, that the mutex is
held exactly between its lock and unlock, that buckets are cumulative and ahead
of the count by at most the one observation that is half done, and that what a
scrape has read under the mutex is what still stands. The numbers of handlers in
a set of places change by one lemma, `Moves`. From it follow `DaemonTypes` (no
counter outgrows the requests, since each outcome belongs to a request),
`RequestsAreCounted`, `ScrapesAreConsistent` and `BusyMeansFull`.
`SumsSentAreOfTheMessage` is the first half of what a check is worth: for any message,
the sums in the packet are those that `SumsToReport` finds by looking at the fields
one by one. `SplitUpTo` is what splitting line by line has after n lines: as many
fields as have started, each of them what stands between its start and the next one, or
line n; so at the end these are the reference's fields (`FieldsAre`). `Known` is what
the loop over the fields has after k of them: of each name the last, of the senders
the first. `ChecksumsAre` puts the packet's sums together, type by type; a made-up
Message-ID is not among them.
`VerdictsFollowSums` is the other half: the verdict counted is the one that
what the server holds of this message calls for. Its core is `VerdictIsTrue`: the
counts of the answer come back by position to the sums they were asked for, also
when a sum was left out of the packet, and the maximum the code takes in its loop is
the maximum over the body's sums.

**TextProofs.** `BodyIsSummedWhole` rests on `SumOf`, which relates the state of
`BodySum` to the whole text: what is matched is the longest end of the text that may
yet become a line's start with `>From` (for each length, the state is at it exactly if
the text ends so: `Opens`), and what was given to the sum is what should be summed
of the text before that (`Decided`). So a match that fails gives back all of what was
held, and the byte that ended it is judged anew.
`WordsAreCountedWhole` rests on `WordInv`: what is being read is either the
letters since the last white space (`OpenRun`), or no word, because a byte that
is no letter came, or too many, since then (`ShutRun`); and the words counted are
those of the text up to the last white space. It holds under `PlainWords`: a body whose
words are followed has no tags and no references. The code skips a tag and reads on
with the byte that a reference stands for, and the reference `WordsOf` looks at
bytes only. Tags and references are in the run's other kinds of bodies, and in
`CountsAddUp`.
`LabelsStay` rests on `LabelInv`: as long as the host read so far is plain (`HostIs`),
what the line buffer holds from `start` on are its letters, and what it holds from
`tld` and `sld` on are those after its last dot and after the one before
(`LabelsIn`; a dot counts once a letter follows, as the code holds it back). A
letter keeps that (`LabelGoesOn`), or begins a label when a dot was held back
(`LabelBegins`); what `DropLabels` moves to `start` is then the part from `sld` on
(`SliceDrop`), which the reference finds by the dots (`LastLabelsAre`). The text
before the host may be flushed or moved only before the host begins, since the
last line end lies before it: that is `Begun` of `BufferInv`, hence the
same two hypotheses as there.

**FuzzyProofs.** `WordsAndFillerAreText` adds to the left side of `CountsAddUp` the
bytes that were read and may yet be counted, those of the word and of the tag that
are open; without them a word that is completed would break it. Each function
of `fuz2`'s loop keeps that sum.
`BufferStaysInBounds` and `LettersAreSummed` rest on `BufferInv`, which has for `Fuz1`
three parts. `DomInv`: the names in the buffer of hosts lie one after the other,
each no longer than a name may be, and the one being read fits behind them. `Mid`:
the line buffer holds nothing but letters below its end, its last line end lies
within it, and so do the offsets of the host that is being read, in order. `Begun`:
the last line end lies before the host, as a letter of "http" came after it. The last is what finding 2 breaks, twice: hence the hypotheses
`~NlInRef` (a line end does not end a character reference that has just begun) and
`SchemeHasLetter` (not all of "h", "t", "p" are written as references). Both
are needed, as TLC shows for each alone, and the proof shows that nothing else is.
`NamesAreThereForFallback` needs neither: it rests on `NamesInv`, by which making room
for a name keeps at least one, and only words that suffice without the names let
one be given up.

**Least.** The library's induction theorems cannot be instantiated here, so where a
sequence or a search needs one, `LeastNat` is used: a set of naturals that is not
empty has a least element, and the least counterexample is refuted. The lemmas on
`Select` (its type, its elements, appending, a part of one place) are proved from it,
and, where they are used, that each recursive function exists and what holds at all
of its places (`LoopRuns` and `IsSplitRuns` are of this kind).

**Only model-checked**: liveness (`Returns`, `LegsQuit`, `CallReturns`, `RequestsEnd`,
`OneFailureEndsAll`), which needs ENABLED; and `Mime`, its types and its refinement of
`Entities`, as its modules recurse over lines.

## 7. What is not modelled

The command line and the generated tables (section 1), and the tables of
punycode with the conversion itself, which never happens. Of the modelled parts:
logging; the offsets of packets and the bytes of MD5 and of signatures
(`DccClient`, `Verdict`); the counts of before a message, which are only shown;
the safety check of the configuration, opening the listeners and the HTTP time
limits (`Serve`), so nothing is said of an answer cut off by WriteTimeout
(`cmd/gdcc/serve.go:122`); words that the header automaton has half matched when
a line ends, as a word is one token (`MimeHeader`); how emitted bytes are batched
before MD5 (`BodySum`); the validity of a body sum by its length, a parameter of
`Message`; and the 32-bit wrap of `rid`.
