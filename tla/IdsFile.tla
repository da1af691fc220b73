------------------------------- MODULE IdsFile -------------------------------
(***************************************************************************)
(* The identity store: gdcc register (WriteIdentityFile, writeFileAtomic   *)
(* in dcc/identity.go) run by several processes on one ids file, with      *)
(* failing system calls and crashes, and what later clients read from it   *)
(* (ParseIdentityFile).                                                    *)
(*                                                                         *)
(* A file is a sequence of lines; a line is a comment or "<id> <password>".*)
(* Nothing is locked: a registration reads the file, and later renames a   *)
(* temporary file with the edited copy over it.                            *)
(***************************************************************************)
EXTENDS Select, FiniteSetsExt

CONSTANTS
  Registrars,   \* processes that register, each again and again
  Ids,          \* the client-ids they register, all above the anonymous one
  Passwords,    \* the passwords they register, a subset of AllPasswords
  MaxRuns,      \* BOUND: registrations started
  Faults        \* whether system calls fail and processes crash

AnonId  == 1    \* dccIDAnon
OtherId == 99   \* a client that another ids file names
DefaultIDsPath == "/var/dcc/ids"

(* A comment is cut at '#' and the rest is split at spaces, so what is     *)
(* read back of a password need not be what was written.                   *)
AllPasswords == {"plain", "other", "#led", "two words", "in#side"}
Empty == ""   \* no password, or a variable that is not set
ReadsAs(pw) == CASE pw = "#led"      -> Empty
                 [] pw = "two words" -> "two"
                 [] pw = "in#side"   -> "in"
                 [] OTHER            -> pw

ASSUME IdsAssumption ==
  /\ Ids \subseteq Nat \ ((0 .. AnonId) \cup {OtherId}) /\ Passwords \subseteq AllPasswords
  /\ MaxRuns \in Nat /\ Faults \in BOOLEAN

Comment == [id |-> 0, pw |-> Empty]
NoFile  == <<>>

VARIABLES
  file,         \* the lines of the ids file (an absent file has none)
  whole,        \* the file is not cut short
  pc,           \* pc[w]: where the registration is
  job,          \* job[w]: the [id, pw] being registered
  copy,         \* copy[w]: the edited copy
  temp,         \* temp[w]: the temporary file: "none", "part" or "full"
  dead,         \* processes that crashed
  overtaken,    \* those that will overwrite what another has renamed
  runs,         \* registrations started
  registered    \* one has completed

vars == <<file, whole, pc, job, copy, temp, dead, overtaken, runs, registered>>

(* idOfLine: the id of a line, 0 of a comment or a line without password.  *)
IdOfLine(line) == IF ReadsAs(line.pw) = Empty THEN 0 ELSE line.id

(* ParseIdentityFile: the first usable line that is not the anonymous one. *)
Usable(line) == IdOfLine(line) > AnonId
Parse(f) ==
  LET usable == {k \in DOMAIN f : Usable(f[k])}
  IN  IF usable = {} THEN [id |-> AnonId, pw |-> Empty]
      ELSE [id |-> f[Min(usable)].id, pw |-> ReadsAs(f[Min(usable)].pw)]

(* registerPath: the ids file that a registration writes.                  *)
RegisterPath(out, dccIds) ==
  CASE out # Empty -> out [] out = Empty /\ dccIds # Empty -> dccIds [] OTHER -> DefaultIDsPath

(* Slip: the default path is tried first.                                  *)
PathsDefaultFirst(dccIds) == IF dccIds = Empty THEN <<DefaultIDsPath>> ELSE <<DefaultIDsPath, dccIds>>

(* The ids files of ResolveIdentity, in the order in which they are tried. *)
Paths(dccIds) == IF dccIds = Empty THEN <<DefaultIDsPath>> ELSE <<dccIds, DefaultIDsPath>>

(* ResolveIdentity: the flags, then the environment, if they hold an id    *)
(* and a password, then the first of the files that names an identity.     *)
ResolveIdentity(credentials, dccIds, contents) ==
  LET Identity(i) == Parse(contents[Paths(dccIds)[i]])
      given == {i \in DOMAIN credentials : credentials[i].id > AnonId /\ credentials[i].pw # Empty}
      named == {i \in DOMAIN Paths(dccIds) : Identity(i).id # AnonId}
  IN  CASE given # {} -> credentials[Min(given)]
        [] given = {} /\ named # {} -> Identity(Min(named))
        [] OTHER -> [id |-> AnonId, pw |-> Empty]

(* Where the lines of id i stand, and the passwords they hold as they read *)
(* back, in file order.                                                    *)
LinesOf(f, i) == {k \in DOMAIN f : IdOfLine(f[k]) = i}
Entries(f, i) == LET mine == Select(f, LinesOf(f, i)) IN [k \in DOMAIN mine |-> ReadsAs(mine[k].pw)]

(* Files an operator may have written: a comment, the anonymous id; and    *)
(* the other of the two files, which may name another client.              *)
InitialFiles == {NoFile, <<Comment, [id |-> AnonId, pw |-> "other"]>>}
OtherFiles == InitialFiles \cup {<<[id |-> OtherId, pw |-> "other"]>>}

(* What flags and environment give of an identity, if it is not whole.     *)
Halves == {[id |-> 0, pw |-> Empty], [id |-> AnonId, pw |-> "other"], [id |-> OtherId, pw |-> Empty]}

Init ==
  /\ file \in InitialFiles /\ whole = TRUE
  /\ pc = [w \in Registrars |-> "idle"]
  /\ job = [w \in Registrars |-> Comment]
  /\ copy = [w \in Registrars |-> <<>>]
  /\ temp = [w \in Registrars |-> "none"]
  /\ dead = {} /\ overtaken = {} /\ runs = 0 /\ registered = FALSE

Goto(w, where) == w \notin dead /\ pc' = [pc EXCEPT ![w] = where]

(* The deferred Remove: the registration ends and leaves no temporary file.*)
End(w) == Goto(w, "idle") /\ temp' = [temp EXCEPT ![w] = "none"]

(* Slip: any id is accepted.                                               *)
BeginAnyId(w) ==
  /\ pc[w] = "idle" /\ runs < MaxRuns
  /\ Goto(w, "read")
  /\ \E i \in Ids \cup {AnonId}, p \in Passwords \cup {Empty} :
       p # Empty /\ job' = [job EXCEPT ![w] = [id |-> i, pw |-> p]]
  /\ runs' = runs + 1
  /\ UNCHANGED <<file, whole, copy, temp, dead, overtaken, registered>>

(* WriteIdentityFile is called; the anonymous id and an empty password are *)
(* refused and change nothing.                                             *)
Begin(w) ==
  /\ pc[w] = "idle" /\ runs < MaxRuns
  /\ Goto(w, "read")
  /\ \E i \in Ids \cup {AnonId}, p \in Passwords \cup {Empty} :
       i > AnonId /\ p # Empty /\ job' = [job EXCEPT ![w] = [id |-> i, pw |-> p]]
  /\ runs' = runs + 1
  /\ UNCHANGED <<file, whole, copy, temp, dead, overtaken, registered>>

(* Slip: the old line stays.                                               *)
EditedKeepingOld(f, j) == Append(f, j)

(* The lines of other ids, comments included, and the new one at the end.  *)
Edited(f, j) == Append(Select(f, DOMAIN f \ LinesOf(f, j.id)), j)

(* Slip: an unreadable file counts as an absent one.                       *)
ReadFileLenient(w) ==
  /\ pc[w] = "read"
  /\ Goto(w, "create")
  /\ \/ copy' = [copy EXCEPT ![w] = Edited(file, job[w])]
     \/ Faults /\ copy' = [copy EXCEPT ![w] = Edited(NoFile, job[w])]
  /\ overtaken' = overtaken \ {w}
  /\ UNCHANGED <<file, whole, job, temp, dead, runs, registered>>

(* ReadFile; an error other than absence ends the registration.            *)
ReadFile(w) ==
  /\ pc[w] = "read"
  /\ \/ Goto(w, "create") /\ copy' = [copy EXCEPT ![w] = Edited(file, job[w])]
     \/ Faults /\ Goto(w, "idle") /\ UNCHANGED copy
  /\ overtaken' = overtaken \ {w}
  /\ UNCHANGED <<file, whole, job, temp, dead, runs, registered>>

(* CreateTemp and Chmod.                                                   *)
Create(w) ==
  /\ pc[w] = "create"
  /\ \/ Goto(w, "write") /\ temp' = [temp EXCEPT ![w] = "part"]
     \/ Faults /\ End(w)
  /\ UNCHANGED <<file, whole, job, copy, dead, overtaken, runs, registered>>

(* Slip: the result of Write and Close is not looked at.                   *)
WriteTempBlind(w) ==
  /\ pc[w] = "write"
  /\ Goto(w, "rename")
  /\ \/ temp' = [temp EXCEPT ![w] = "full"]
     \/ Faults /\ UNCHANGED temp
  /\ UNCHANGED <<file, whole, job, copy, dead, overtaken, runs, registered>>

(* Write and Close.                                                        *)
WriteTemp(w) ==
  /\ pc[w] = "write"
  /\ \/ Goto(w, "rename") /\ temp' = [temp EXCEPT ![w] = "full"]
     \/ Faults /\ End(w)
  /\ UNCHANGED <<file, whole, job, copy, dead, overtaken, runs, registered>>

(* Rename replaces the file in one step, or fails.                         *)
Rename(w) ==
  /\ pc[w] = "rename"
  /\ End(w)
  /\ \/ /\ file' = copy[w]
        /\ whole' = (temp[w] = "full")
        /\ registered' = TRUE
        /\ overtaken' = {v \in Registrars \ {w} : pc[v] \in {"create", "write", "rename"}}
     \/ Faults /\ UNCHANGED <<file, whole, registered, overtaken>>
  /\ UNCHANGED <<job, copy, dead, runs>>

Crash(w) ==
  /\ Faults /\ w \notin dead /\ pc[w] # "idle"
  /\ dead' = dead \cup {w}
  /\ UNCHANGED <<file, whole, pc, job, copy, temp, overtaken, runs, registered>>

Quiet == /\ \A w \in Registrars : w \in dead \/ (pc[w] = "idle" /\ runs = MaxRuns)
         /\ UNCHANGED vars

Step(w) == Begin(w) \/ ReadFile(w) \/ Create(w) \/ WriteTemp(w) \/ Rename(w) \/ Crash(w)
Next == (\E w \in Registrars : Step(w)) \/ Quiet

Spec == Init /\ [][Next]_vars

-----------------------------------------------------------------------------
Lines == [id : Ids \cup {0, AnonId}, pw : AllPasswords \cup {Empty}]

TypeOK ==
  /\ file \in Seq(Lines) /\ whole \in BOOLEAN
  /\ pc \in [Registrars -> {"idle", "read", "create", "write", "rename"}]
  /\ job \in [Registrars -> Lines]
  /\ copy \in [Registrars -> Seq(Lines)]
  /\ temp \in [Registrars -> {"none", "part", "full"}]
  /\ \A w \in Registrars : pc[w] # "idle" => job[w].id \in Ids /\ job[w].pw \in Passwords
  /\ dead \subseteq Registrars /\ overtaken \subseteq Registrars /\ runs \in 0 .. MaxRuns /\ registered \in BOOLEAN

(* An interrupted or failed save never truncates the ids file, and only a  *)
(* crash leaves a temporary file behind (writeFileAtomic).                 *)
NeverTorn ==
  /\ whole
  /\ \A w \in Registrars : pc[w] = "idle" => temp[w] = "none"

(* Once a registration has completed, a client in the same environment    *)
(* authenticates with what the file names, whatever other registrations    *)
(* do, fail or crash, whatever another ids file holds, and though flags    *)
(* and variables give half of an identity (runRegister's promise,          *)
(* registerPath, ResolveIdentity).                                         *)
Authenticates ==
  registered => \A dccIds \in {Empty, "/etc/ids"}, other \in OtherFiles, credentials \in Halves \X Halves :
    LET contents == [p \in {DefaultIDsPath, "/etc/ids"} |->
                      IF p = RegisterPath(Empty, dccIds) THEN file ELSE other]
        identity == ResolveIdentity(credentials, dccIds, contents)
    IN  identity = Parse(file) /\ identity.id \in Ids

(* A registration leaves exactly one line for its id, with its password    *)
(* ("idempotent re-register").                                             *)
RegisterIsIdempotent ==
  [][\A w \in Registrars : Rename(w) /\ file' # file =>
       Entries(file', job[w].id) = <<ReadsAs(job[w].pw)>>]_vars

(* The lines of ids that w does not register, as they read back, stay.     *)
LeavesOthers(w) ==
  \A i \in (Ids \cup {0, AnonId}) \ {job[w].id} : Entries(file', i) = Entries(file, i)

(* A registration that is not overtaken changes no line of another id and  *)
(* no comment, though the file could not be read before, or other          *)
(* registrations failed or crashed (WriteIdentityFile).                    *)
OthersPreservedAlone ==
  [][\A w \in Registrars : Rename(w) /\ w \notin overtaken => LeavesOthers(w)]_vars

(* What the comment of WriteIdentityFile says: "comments and other ids are *)
(* preserved".                                                             *)
OthersPreserved ==
  [][\A w \in Registrars : Rename(w) => LeavesOthers(w)]_vars
=============================================================================
