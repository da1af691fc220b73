---------------------------- MODULE IdsFileProofs ----------------------------
(***************************************************************************)
(* That no save tears the ids file, that a registration replaces the line  *)
(* of its id, keeps those of others unless it is overtaken, and leaves a   *)
(* file that clients authenticate with: for any number of registrations    *)
(* and processes, whichever of their system calls fail and whoever         *)
(* crashes.                                                                *)
(***************************************************************************)
EXTENDS IdsFile, Least

Places == {"idle", "read", "create", "write", "rename"}

(* What a registration has on disk, by where it is: what it renames is     *)
(* complete, as the result of Write and Close was looked at.               *)
TempByPlace ==
  /\ pc \in [Registrars -> Places] /\ temp \in [Registrars -> {"none", "part", "full"}]
  /\ \A w \in Registrars :
       temp[w] = CASE pc[w] = "write"  -> "part"
                   [] pc[w] = "rename" -> "full"
                   [] OTHER            -> "none"

IndWhole == whole /\ TempByPlace

LEMMA InitWhole == Init => IndWhole
BY DEF Init, IndWhole, TempByPlace, Places

LEMMA NextWhole == IndWhole /\ [Next]_vars => IndWhole'
<1> SUFFICES ASSUME IndWhole, [Next]_vars PROVE IndWhole'
  OBVIOUS
<1> USE DEF IndWhole, TempByPlace, Places, Goto
<1>1. ASSUME NEW w \in Registrars, Step(w) PROVE IndWhole'
  <2>1. CASE Begin(w) \/ ReadFile(w)
    BY <2>1 DEF Begin, ReadFile
  <2>2. CASE Create(w)
    BY <2>2 DEF Create, End
  <2>3. CASE WriteTemp(w)
    BY <2>3 DEF WriteTemp, End
  <2>4. CASE Rename(w)
    BY <2>4 DEF Rename, End
  <2>5. CASE Crash(w)
    BY <2>5 DEF Crash
  <2> QED BY <1>1, <2>1, <2>2, <2>3, <2>4, <2>5 DEF Step
<1>2. CASE UNCHANGED vars
  BY <1>2 DEF vars
<1> QED BY <1>1, <1>2 DEF Next, Quiet

(* The ids file is never a part of what was to be written, and only a      *)
(* crash leaves a temporary file behind (writeFileAtomic).                 *)
THEOREM SavesAreWhole == Spec => []NeverTorn
<1>1. IndWhole => NeverTorn
  BY DEF IndWhole, TempByPlace, NeverTorn
<1> QED BY InitWhole, NextWhole, <1>1, PTL DEF Spec

-----------------------------------------------------------------------------
(* A password that does not begin with '#': the others are written, and    *)
(* read back as a comment, so that nothing below holds of them.            *)
Readable == \A p \in Passwords : ReadsAs(p) # Empty

LEMMA ConstantTypes ==
  /\ \A i \in Ids : i \in Nat /\ i > AnonId /\ i # 0 /\ i # AnonId
  /\ Passwords \subseteq AllPasswords /\ MaxRuns \in Nat
<1>1. ASSUME NEW i \in Ids PROVE i \in Nat /\ i > AnonId /\ i # 0 /\ i # AnonId
  <2>1. i \in Nat \ ((0 .. AnonId) \cup {OtherId})
    BY IdsAssumption
  <2> QED BY <2>1 DEF AnonId
<1>2. Passwords \subseteq AllPasswords
  BY IdsAssumption
<1>3. MaxRuns \in Nat
  BY IdsAssumption
<1> QED BY <1>1, <1>2, <1>3

(* What is written: all that is kept, and the new line.                    *)
LEMMA EditedType ==
  ASSUME NEW f \in Seq(Lines), NEW j \in Lines,
         NEW kept, kept = DOMAIN f \ LinesOf(f, j.id)
  PROVE  /\ kept \in SUBSET (DOMAIN f) /\ Cardinality(kept) \in Nat
         /\ Select(f, kept) \in Seq(Lines) /\ Edited(f, j) = Append(Select(f, kept), j)
         /\ Edited(f, j) \in Seq(Lines) /\ DOMAIN Edited(f, j) = 1 .. Cardinality(kept) + 1
         /\ Edited(f, j)[Cardinality(kept) + 1] = j
         /\ \A n \in 1 .. Cardinality(kept) : Nth(kept, n) \in kept /\ Edited(f, j)[n] = f[Nth(kept, n)]
<1> DEFINE g == Select(f, kept)
<1>1. kept \in SUBSET (DOMAIN f)
  OBVIOUS
<1>2. /\ g \in Seq(Lines) /\ Len(g) = Cardinality(kept) /\ Cardinality(kept) \in Nat
      /\ \A n \in 1 .. Cardinality(kept) : g[n] = f[Nth(kept, n)] /\ Nth(kept, n) \in kept
  BY <1>1, SelectType
<1>3. Edited(f, j) = Append(g, j)
  BY DEF Edited
<1> HIDE DEF g
<1>4. /\ Append(g, j) \in Seq(Lines) /\ DOMAIN Append(g, j) = 1 .. Cardinality(kept) + 1
      /\ Append(g, j)[Cardinality(kept) + 1] = j
      /\ \A n \in 1 .. Cardinality(kept) : Append(g, j)[n] = g[n]
  <2>1. g \in Seq(Lines) /\ Len(g) = Cardinality(kept) /\ Len(g) \in Nat
    BY <1>2
  <2>2. Append(g, j) \in Seq(Lines) /\ Len(Append(g, j)) = Len(g) + 1
    BY <2>1
  <2>3. DOMAIN Append(g, j) = 1 .. Len(g) + 1
    BY <2>2
  <2>4. Append(g, j)[Len(g) + 1] = j
    BY <2>1
  <2>5. \A n \in 1 .. Len(g) : Append(g, j)[n] = g[n]
    BY <2>1
  <2> QED BY <2>1, <2>2, <2>3, <2>4, <2>5
<1> QED BY <1>1, <1>2, <1>3, <1>4 DEF g

(* The new line is the only one of its id.                                 *)
LEMMA EditedOwn ==
  ASSUME NEW f \in Seq(Lines), NEW j \in Lines, ReadsAs(j.pw) # Empty
  PROVE  Entries(Edited(f, j), j.id) = <<ReadsAs(j.pw)>>
<1> DEFINE kept == DOMAIN f \ LinesOf(f, j.id)
           e    == Edited(f, j)
           last == Cardinality(kept) + 1
<1>1. /\ Cardinality(kept) \in Nat /\ e \in Seq(Lines) /\ DOMAIN e = 1 .. last /\ e[last] = j
      /\ \A n \in 1 .. Cardinality(kept) : Nth(kept, n) \in kept /\ e[n] = f[Nth(kept, n)]
  BY EditedType
<1>2. \A n \in 1 .. Cardinality(kept) : IdOfLine(e[n]) # j.id
  BY <1>1 DEF LinesOf
<1>3. IdOfLine(e[last]) = j.id
  BY <1>1 DEF IdOfLine
<1> HIDE DEF kept, e
<1>4. LinesOf(e, j.id) = {last}
  <2>1. \A n \in 1 .. last : n = last \/ n \in 1 .. Cardinality(kept)
    BY <1>1
  <2> QED BY <1>1, <1>2, <1>3, <2>1 DEF LinesOf
<1>5. Select(e, {last}) = <<j>>
  BY <1>1, SelectOne
<1>6. Entries(e, j.id) = [k \in DOMAIN <<j>> |-> ReadsAs(<<j>>[k].pw)]
  BY <1>4, <1>5 DEF Entries
<1>7. [k \in DOMAIN <<j>> |-> ReadsAs(<<j>>[k].pw)] = <<ReadsAs(j.pw)>>
  BY DOMAIN <<j>> = 1 .. 1
<1> QED BY <1>6, <1>7 DEF e

(* What is kept reads back in the order in which it stood.                 *)
LEMMA EditedOthers ==
  ASSUME NEW f \in Seq(Lines), NEW j \in Lines, ReadsAs(j.pw) # Empty, NEW i, i # j.id
  PROVE  Entries(Edited(f, j), i) = Entries(f, i)
<1> DEFINE kept == DOMAIN f \ LinesOf(f, j.id)
           e    == Edited(f, j)
           mine == LinesOf(f, i)
           now  == {UpTo(kept, k) : k \in mine}
<1>1. /\ kept \in SUBSET (DOMAIN f) /\ Cardinality(kept) \in Nat
      /\ Select(f, kept) \in Seq(Lines) /\ e = Append(Select(f, kept), j)
      /\ DOMAIN e = 1 .. Cardinality(kept) + 1 /\ e[Cardinality(kept) + 1] = j
      /\ \A n \in 1 .. Cardinality(kept) : Nth(kept, n) \in kept /\ e[n] = f[Nth(kept, n)]
  BY EditedType
<1>2. mine \in SUBSET kept
  BY DEF LinesOf
<1>3. /\ \A n \in 1 .. Cardinality(kept) : UpTo(kept, Nth(kept, n)) = n
      /\ \A k \in kept : UpTo(kept, k) \in 1 .. Cardinality(kept) /\ Nth(kept, UpTo(kept, k)) = k
  <2>1. kept \in SUBSET (1 .. Len(f)) /\ Len(f) \in Nat
    OBVIOUS
  <2> HIDE DEF kept
  <2> QED BY <2>1, NthElement
<1>4. IdOfLine(j) # i
  BY DEF IdOfLine
<1>5. \A k \in kept : IdOfLine(f[k]) = i <=> k \in mine
  BY DEF LinesOf
<1> HIDE DEF kept, e, mine
<1>6. LinesOf(e, i) = now
  <2>1. ASSUME NEW n \in DOMAIN e, IdOfLine(e[n]) = i PROVE n \in now
    <3>1. n \in 1 .. Cardinality(kept)
      BY <1>1, <1>4, <2>1
    <3>2. Nth(kept, n) \in mine
      BY <1>1, <1>5, <2>1, <3>1
    <3> QED BY <1>3, <3>1, <3>2
  <2>2. ASSUME NEW k \in mine PROVE UpTo(kept, k) \in DOMAIN e /\ IdOfLine(e[UpTo(kept, k)]) = i
    BY <1>1, <1>2, <1>3, <1>5
  <2> QED BY <2>1, <2>2 DEF LinesOf
<1>7. Select(Select(f, kept), now) = Select(f, mine) /\ now \in SUBSET (1 .. Cardinality(kept))
  <2>1. kept \in SUBSET (DOMAIN f) /\ mine \in SUBSET kept
    BY <1>1, <1>2
  <2> HIDE DEF now
  <2>2. ASSUME NEW U, U = {UpTo(kept, k) : k \in mine}
        PROVE  Select(Select(f, kept), U) = Select(f, mine) /\ U \in SUBSET (1 .. Cardinality(kept))
    BY <2>1, <2>2, SelectPart
  <2>3. now = {UpTo(kept, k) : k \in mine}
    BY DEF now
  <2> QED BY <2>2, <2>3
<1>8. Select(e, now) = Select(Select(f, kept), now)
  <2>1. DOMAIN Select(f, kept) = 1 .. Cardinality(kept)
    BY <1>1, SelectType
  <2> QED BY <1>1, <1>7, <2>1, SelectAppend
<1>9. Select(e, LinesOf(e, i)) = Select(f, LinesOf(f, i))
  BY <1>6, <1>7, <1>8 DEF mine
<1> QED BY <1>9 DEF Entries, e

-----------------------------------------------------------------------------
Working == {"create", "write", "rename"}

(* A copy is an edition of what the file once was, and of what it is, if   *)
(* no other registration was completed since it was read.                  *)
CopyEdited ==
  \A w \in Registrars : pc[w] \in Working =>
    /\ \E f \in Seq(Lines) : copy[w] = Edited(f, job[w])
    /\ w \notin overtaken => copy[w] = Edited(file, job[w])

IndIds == TypeOK /\ CopyEdited

(* A registered file names somebody.                                       *)
Named == registered => \E k \in DOMAIN file : Usable(file[k])

LEMMA InitIds == Init => IndIds /\ Named
<1> SUFFICES ASSUME Init PROVE IndIds /\ Named
  OBVIOUS
<1>1. InitialFiles \subseteq Seq(Lines) /\ Comment \in Lines
  <2>1. Comment \in Lines /\ [id |-> AnonId, pw |-> "other"] \in Lines
    BY DEF Comment, Lines, AllPasswords
  <2>2. <<Comment, [id |-> AnonId, pw |-> "other"]>> \in Seq(Lines)
    BY <2>1
  <2>3. NoFile \in Seq(Lines)
    BY DEF NoFile
  <2> QED BY <2>1, <2>2, <2>3 DEF InitialFiles
<1>2. TypeOK
  <2>1. file \in Seq(Lines) /\ job \in [Registrars -> Lines] /\ copy \in [Registrars -> Seq(Lines)]
    BY <1>1 DEF Init
  <2>2. runs \in 0 .. MaxRuns
    BY ConstantTypes DEF Init
  <2> QED BY <2>1, <2>2 DEF Init, TypeOK
<1>3. CopyEdited /\ Named
  BY DEF Init, CopyEdited, Named, Working
<1> QED BY <1>2, <1>3 DEF IndIds

(* What a step changes that is not on disk.                                *)
LEMMA StepTypes ==
  ASSUME TypeOK, NEW w \in Registrars, Step(w)
  PROVE  /\ pc' \in [Registrars -> {"idle", "read", "create", "write", "rename"}]
         /\ temp' \in [Registrars -> {"none", "part", "full"}]
         /\ whole' \in BOOLEAN /\ registered' \in BOOLEAN /\ runs' \in 0 .. MaxRuns
         /\ dead' \subseteq Registrars /\ overtaken' \subseteq Registrars
         /\ job' \in [Registrars -> Lines]
         /\ \A v \in Registrars : pc'[v] # "idle" => job'[v].id \in Ids /\ job'[v].pw \in Passwords
<1> USE DEF TypeOK
<1>1. CASE Begin(w)
  <2>1. PICK i \in Ids \cup {AnonId}, p \in Passwords \cup {Empty} :
          i > AnonId /\ p # Empty /\ job' = [job EXCEPT ![w] = [id |-> i, pw |-> p]]
    BY <1>1 DEF Begin
  <2>2. i \in Ids /\ p \in Passwords
    BY <2>1, ConstantTypes DEF AnonId
  <2>3. [id |-> i, pw |-> p] \in Lines
    BY <2>2, ConstantTypes DEF Lines
  <2>4. job' \in [Registrars -> Lines] /\ job'[w].id \in Ids /\ job'[w].pw \in Passwords
    BY <2>1, <2>2, <2>3
  <2>5. runs' \in 0 .. MaxRuns
    BY <1>1, ConstantTypes DEF Begin
  <2> QED BY <1>1, <2>1, <2>4, <2>5 DEF Begin, Goto
<1>2. CASE ReadFile(w)
  BY <1>2 DEF ReadFile, Goto
<1>3. CASE Create(w) \/ WriteTemp(w)
  BY <1>3 DEF Create, WriteTemp, Goto, End
<1>4. CASE Rename(w)
  BY <1>4 DEF Rename, Goto, End
<1>5. CASE Crash(w)
  BY <1>5 DEF Crash
<1> QED BY <1>1, <1>2, <1>3, <1>4, <1>5 DEF Step

(* A completed registration overtakes all that have read the file.         *)
LEMMA RenameKeeps == ASSUME IndIds, NEW w \in Registrars, Rename(w) PROVE IndIds'
<1> USE DEF IndIds
<1>1. /\ pc[w] = "rename" /\ pc' = [pc EXCEPT ![w] = "idle"] /\ UNCHANGED <<job, copy, dead, runs>>
  BY DEF Rename, End, Goto
<1>2. \A v \in Registrars : pc'[v] \in Working => v # w /\ pc[v] \in Working
  BY <1>1 DEF TypeOK, Working
<1>3. CASE file' = copy[w] /\ overtaken' = {v \in Registrars \ {w} : pc[v] \in {"create", "write", "rename"}}
  <2>1. file' \in Seq(Lines)
    BY <1>3 DEF TypeOK
  <2>2. CopyEdited'
    BY <1>1, <1>2, <1>3 DEF CopyEdited, Working
  <2> QED BY <1>1, <2>1, <2>2, StepTypes DEF TypeOK, Step
<1>4. CASE UNCHANGED <<file, overtaken>>
  <2>1. CopyEdited'
    BY <1>1, <1>2, <1>4 DEF CopyEdited
  <2> QED BY <1>1, <1>4, <2>1, StepTypes DEF TypeOK, Step
<1> QED BY <1>3, <1>4 DEF Rename

LEMMA ReadKeeps == ASSUME IndIds, NEW w \in Registrars, ReadFile(w) PROVE IndIds'
<1> USE DEF IndIds
<1>1. /\ overtaken' = overtaken \ {w} /\ UNCHANGED <<file, job>>
      /\ \/ copy' = [copy EXCEPT ![w] = Edited(file, job[w])] /\ pc' = [pc EXCEPT ![w] = "create"]
         \/ UNCHANGED copy /\ pc' = [pc EXCEPT ![w] = "idle"]
  BY DEF ReadFile, Goto
<1>2. Edited(file, job[w]) \in Seq(Lines)
  BY EditedType DEF TypeOK
<1>3. copy' \in [Registrars -> Seq(Lines)]
  BY <1>1, <1>2 DEF TypeOK
<1>4. CopyEdited'
  <2> SUFFICES ASSUME NEW v \in Registrars, pc'[v] \in Working
               PROVE  /\ \E f \in Seq(Lines) : copy'[v] = Edited(f, job[v])
                      /\ v \notin overtaken' => copy'[v] = Edited(file, job[v])
    BY <1>1 DEF CopyEdited
  <2>1. CASE v = w
    <3>1. copy'[w] = Edited(file, job[w]) /\ file \in Seq(Lines)
      BY <1>1, <2>1 DEF TypeOK, Working
    <3> QED BY <2>1, <3>1
  <2>2. CASE v # w
    <3>1. pc'[v] = pc[v] /\ copy'[v] = copy[v] /\ (v \in overtaken' <=> v \in overtaken)
      BY <1>1, <2>2 DEF TypeOK
    <3> QED BY <3>1 DEF CopyEdited
  <2> QED BY <2>1, <2>2
<1> QED BY <1>1, <1>3, <1>4, StepTypes DEF TypeOK, Step

LEMMA NextIds == IndIds /\ [Next]_vars => IndIds'
<1> SUFFICES ASSUME IndIds, [Next]_vars PROVE IndIds'
  OBVIOUS
<1>1. ASSUME NEW w \in Registrars, Step(w) PROVE IndIds'
  <2>1. CASE Begin(w)
    <3>1. UNCHANGED <<file, copy, overtaken>> /\ \A v \in Registrars : pc'[v] \in Working => pc[v] \in Working
                                                  /\ job'[v] = job[v]
      BY <2>1 DEF Begin, Goto, Working, IndIds, TypeOK
    <3>2. CopyEdited'
      BY <3>1 DEF CopyEdited, IndIds
    <3> QED BY <1>1, <3>1, <3>2, StepTypes DEF IndIds, TypeOK
  <2>2. CASE ReadFile(w)
    BY <2>2, ReadKeeps
  <2>3. CASE Create(w) \/ WriteTemp(w)
    <3>1. UNCHANGED <<file, copy, overtaken, job>> /\ \A v \in Registrars : pc'[v] \in Working => pc[v] \in Working
      BY <2>3 DEF Create, WriteTemp, End, Goto, Working, IndIds, TypeOK
    <3>2. CopyEdited'
      BY <3>1 DEF CopyEdited, IndIds
    <3> QED BY <1>1, <3>1, <3>2, StepTypes DEF IndIds, TypeOK
  <2>4. CASE Rename(w)
    BY <2>4, RenameKeeps
  <2>5. CASE Crash(w)
    <3>1. CopyEdited'
      BY <2>5 DEF Crash, CopyEdited, IndIds
    <3> QED BY <1>1, <2>5, <3>1, StepTypes DEF IndIds, TypeOK, Crash
  <2> QED BY <1>1, <2>1, <2>2, <2>3, <2>4, <2>5 DEF Step
<1>2. CASE UNCHANGED vars
  BY <1>2 DEF vars, IndIds, TypeOK, CopyEdited
<1> QED BY <1>1, <1>2 DEF Next, Quiet

(* The types of the store: a copy holds only whole lines, and what is being*)
(* registered is never the anonymous id or an empty password               *)
(* (WriteIdentityFile).                                                    *)
THEOREM StoreTypes == Spec => []TypeOK
<1>1. IndIds => TypeOK
  BY DEF IndIds
<1>2. Init => IndIds
  BY InitIds
<1> QED BY <1>1, <1>2, NextIds, PTL DEF Spec

(* What is renamed over the file is an edition of it, or of what it was.   *)
LEMMA RenamedIsEdited ==
  ASSUME IndIds, NEW w \in Registrars, Rename(w), file' # file
  PROVE  /\ job[w] \in Lines /\ job[w].id \in Ids /\ job[w].pw \in Passwords
         /\ \E f \in Seq(Lines) : file' = Edited(f, job[w])
         /\ w \notin overtaken => file' = Edited(file, job[w])
<1>1. pc[w] = "rename" /\ file' = copy[w]
  BY DEF Rename
<1> QED BY <1>1 DEF IndIds, TypeOK, CopyEdited, Working

(* A registration leaves one line for its id, with its password, whatever  *)
(* stood there and whoever registers beside it ("idempotent re-register",  *)
(* WriteIdentityFile).                                                     *)
THEOREM RegisteringReplaces == Readable /\ Spec => RegisterIsIdempotent
<1> SUFFICES ASSUME Readable PROVE Spec => RegisterIsIdempotent
  OBVIOUS
<1>1. IndIds /\ [Next]_vars =>
        [\A w \in Registrars : Rename(w) /\ file' # file => Entries(file', job[w].id) = <<ReadsAs(job[w].pw)>>]_vars
  <2> SUFFICES ASSUME IndIds, NEW w \in Registrars, Rename(w), file' # file
               PROVE  Entries(file', job[w].id) = <<ReadsAs(job[w].pw)>>
    OBVIOUS
  <2> QED BY RenamedIsEdited, EditedOwn DEF Readable
<1>2. Init => IndIds
  BY InitIds
<1> QED BY <1>1, <1>2, NextIds, PTL DEF Spec, RegisterIsIdempotent

(* A registration that no other overtakes leaves the lines of every other  *)
(* id, and the comments, as they read back (WriteIdentityFile).            *)
THEOREM OthersStay == Readable /\ Spec => OthersPreservedAlone
<1> SUFFICES ASSUME Readable PROVE Spec => OthersPreservedAlone
  OBVIOUS
<1>1. IndIds /\ [Next]_vars => [\A w \in Registrars : Rename(w) /\ w \notin overtaken => LeavesOthers(w)]_vars
  <2> SUFFICES ASSUME IndIds, NEW w \in Registrars, Rename(w), w \notin overtaken,
                      NEW i \in (Ids \cup {0, AnonId}) \ {job[w].id}
               PROVE  Entries(file', i) = Entries(file, i)
    BY DEF LeavesOthers
  <2>1. CASE file' # file
    <3>1. job[w] \in Lines /\ job[w].pw \in Passwords /\ file' = Edited(file, job[w])
      BY <2>1, RenamedIsEdited
    <3>2. ReadsAs(job[w].pw) # Empty
      BY <3>1 DEF Readable
    <3>3. file \in Seq(Lines) /\ i # job[w].id
      BY DEF IndIds, TypeOK
    <3> QED BY <3>1, <3>2, <3>3, EditedOthers
  <2> QED BY <2>1
<1>2. Init => IndIds
  BY InitIds
<1> QED BY <1>1, <1>2, NextIds, PTL DEF Spec, OthersPreservedAlone

-----------------------------------------------------------------------------
(* A registration adds a line that can be used.                            *)
LEMMA NextNamed == ASSUME Readable PROVE IndIds /\ Named /\ [Next]_vars => Named'
<1> SUFFICES ASSUME IndIds, Named, [Next]_vars PROVE Named'
  OBVIOUS
<1>1. CASE UNCHANGED <<file, registered>>
  BY <1>1 DEF Named
<1>2. CASE \E w \in Registrars : Rename(w) /\ file' = copy[w]
  <2>1. PICK w \in Registrars : Rename(w) /\ file' = copy[w]
    BY <1>2
  <2>2. PICK f \in Seq(Lines) : file' = Edited(f, job[w])
    BY <2>1 DEF Rename, IndIds, CopyEdited, Working
  <2>3. job[w] \in Lines /\ job[w].id \in Ids /\ job[w].pw \in Passwords
    BY <2>1 DEF Rename, IndIds, TypeOK
  <2> DEFINE last == Cardinality(DOMAIN f \ LinesOf(f, job[w].id)) + 1
  <2>4. last \in DOMAIN file' /\ file'[last] = job[w]
    BY <2>2, <2>3, EditedType
  <2>5. Usable(job[w])
    <3>1. job[w].id \in Nat /\ job[w].id > AnonId
      BY <2>3, ConstantTypes
    <3> QED BY <2>3, <3>1 DEF Usable, IdOfLine, Readable
  <2> QED BY <2>4, <2>5 DEF Named
<1> QED BY <1>1, <1>2 DEF Next, Step, Begin, ReadFile, Create, WriteTemp, Rename, Crash, Quiet, vars

(* The first usable line of a registered file is that of a registered id.  *)
LEMMA ParseNames ==
  ASSUME TypeOK, NEW k \in DOMAIN file, Usable(file[k]) PROVE Parse(file).id \in Ids
<1> DEFINE usable == {i \in DOMAIN file : Usable(file[i])}
<1>1. usable \in SUBSET Nat /\ usable # {}
  BY DEF TypeOK
<1>2. Min(usable) \in usable
  <2>1. \E m \in usable : \A n \in usable : m <= n
    BY <1>1, LeastNat
  <2> HIDE DEF usable
  <2> QED BY <2>1 DEF Min
<1>3. Parse(file) = [id |-> file[Min(usable)].id, pw |-> ReadsAs(file[Min(usable)].pw)]
  BY <1>1 DEF Parse
<1>4. file[Min(usable)] \in Lines /\ Usable(file[Min(usable)])
  BY <1>2 DEF TypeOK
<1> HIDE DEF usable
<1>5. file[Min(usable)].id \in Ids
  <2> DEFINE line == file[Min(usable)]
  <2>1. line \in Lines /\ IdOfLine(line) > AnonId
    BY <1>4 DEF Usable
  <2> HIDE DEF line
  <2>2. line.id > AnonId
    BY <2>1 DEF IdOfLine, AnonId
  <2>3. line.id \in Ids
    BY <2>1, <2>2 DEF Lines, AnonId
  <2> QED BY <2>3 DEF line
<1> QED BY <1>3, <1>5

(* The least of one or two small numbers.                                  *)
LEMMA MinIsOne == ASSUME NEW S \in SUBSET Nat, 1 \in S, 0 \notin S PROVE Min(S) = 1
<1>1. \A y \in S : 1 <= y
  OBVIOUS
<1>2. Min(S) \in S /\ \A y \in S : Min(S) <= y
  BY <1>1 DEF Min
<1>3. Min(S) \in Nat /\ Min(S) <= 1 /\ 1 <= Min(S)
  BY <1>1, <1>2
<1> QED BY <1>3

(* After the first completed registration every client in the same         *)
(* environment authenticates with what the file names, an id that was      *)
(* registered, whatever other registrations do, fail or crash              *)
(* (registerPath, ResolveIdentity).                                        *)
THEOREM ClientsAuthenticate == Readable /\ Spec => []Authenticates
<1> SUFFICES ASSUME Readable PROVE Spec => []Authenticates
  OBVIOUS
<1>1. IndIds /\ Named => Authenticates
  <2> SUFFICES ASSUME TypeOK, Named, registered,
                      NEW dccIds \in {Empty, "/etc/ids"}, NEW other \in OtherFiles,
                      NEW credentials \in Halves \X Halves,
                      NEW contents, contents = [p \in {DefaultIDsPath, "/etc/ids"} |->
                                                  IF p = RegisterPath(Empty, dccIds) THEN file ELSE other]
               PROVE  LET identity == ResolveIdentity(credentials, dccIds, contents)
                      IN  identity = Parse(file) /\ identity.id \in Ids
    BY DEF IndIds, Authenticates
  <2>1. Parse(file).id \in Ids
    BY ParseNames DEF Named
  <2>2. Parse(file).id # AnonId
    BY <2>1, ConstantTypes
  <2> DEFINE given == {i \in DOMAIN credentials : credentials[i].id > AnonId /\ credentials[i].pw # Empty}
             Identity(i) == Parse(contents[Paths(dccIds)[i]])
             named == {i \in DOMAIN Paths(dccIds) : Identity(i).id # AnonId}
  <2>3. given = {}
    <3>1. \A c \in Halves : ~(c.id > AnonId /\ c.pw # Empty)
      BY DEF Halves, AnonId
    <3>2. DOMAIN credentials = 1 .. 2 /\ credentials[1] \in Halves /\ credentials[2] \in Halves
      OBVIOUS
    <3>3. \A i \in 1 .. 2 : i = 1 \/ i = 2
      OBVIOUS
    <3> QED BY <3>1, <3>2, <3>3
  <2>4. 1 \in DOMAIN Paths(dccIds) /\ DOMAIN Paths(dccIds) \in SUBSET (Nat \ {0}) /\ contents[Paths(dccIds)[1]] = file
    <3>1. CASE dccIds = Empty
      <4>1. Paths(dccIds) = <<DefaultIDsPath>> /\ RegisterPath(Empty, dccIds) = DefaultIDsPath
        BY <3>1 DEF Paths, RegisterPath
      <4> QED BY <4>1
    <3>2. CASE dccIds = "/etc/ids"
      <4>1. dccIds # Empty
        BY <3>2, Zenon DEF Empty
      <4>2. Paths(dccIds) = <<dccIds, DefaultIDsPath>> /\ RegisterPath(Empty, dccIds) = dccIds
        BY <4>1 DEF Paths, RegisterPath
      <4> QED BY <3>2, <4>2
    <3> QED BY <3>1, <3>2
  <2>5. 1 \in named /\ named \in SUBSET (Nat \ {0}) /\ Identity(1) = Parse(file)
    BY <2>2, <2>4
  <2>6. Min(named) = 1
    <3> HIDE DEF named
    <3> QED BY <2>5, MinIsOne
  <2>7. ResolveIdentity(credentials, dccIds, contents) = Identity(Min(named))
    BY <2>3, <2>5 DEF ResolveIdentity
  <2> QED BY <2>1, <2>5, <2>6, <2>7
<1> QED BY <1>1, InitIds, NextIds, NextNamed, PTL DEF Spec
=============================================================================
