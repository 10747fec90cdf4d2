------------------------ MODULE MutationAuditProofs ------------------------
(* For any number of operations, I/O errors and crashes: what the audit log *)
(* holds agrees with the cluster and with the answers, and an interrupted   *)
(* write of a record costs at most one record that was acknowledged.        *)
EXTENDS MutationAudit, FiniteSetTheorems, SequenceTheorems, TLAPS

-----------------------------------------------------------------------------
(* The inductive invariant *)

Tokens == Records \cup {Newline, Fragment}

\* A request has no effect before its started record is on disk, and no success in
\* the log before it is done.
Phases == \A o \in Ops :
  /\ step[o] # "check" => pc[o] \in Appending
  /\ pc[o] \in {"idle", "started", "denied", "provider"} => ~applied[o]
  /\ pc[o] = "completed" => opErr[o] \/ applied[o]
  /\ pc[o] \in {"provider", "completed"} \/ applied[o] => Token(o, "pending") \in acked
  /\ pc[o] # "done" => answer[o] = "none" /\ Token(o, "succeeded") \notin acked

\* A record with its newline among the first n tokens of the file.
LineBefore(record, n) == \E i \in 1..(n - 1) : file[i] = record /\ file[i + 1] = Newline

\* What was acknowledged is on disk as a line; what is being synced is in the file.
Lines ==
  /\ \A record \in acked : LineBefore(record, synced)
  /\ \A o \in Ops : step[o] = "sync" => LineBefore(RecordOf(o), Len(file))

\* The i-th token is the record of what became of o.
Outcome(o, i) == file[i] \in Records /\ file[i].op = o /\ file[i].result # "pending"

\* An operation that has not come to its last append has no outcome in the log.
Settled(o) == pc[o] = "done" \/ (pc[o] \in {"denied", "completed"} /\ step[o] = "sync")
NoOutcomeYet == \A o \in Ops : \A i \in 1..Len(file) : Outcome(o, i) => Settled(o)

\* The one outcome of an operation agrees with the cluster and follows its start.
Outcomes == \A o \in Ops : \A i \in 1..Len(file) : Outcome(o, i) =>
  /\ file[i].result = "succeeded" => applied[o]
  /\ file[i].result = "denied" => ~applied[o]
  /\ file[i].result # "denied" => \E j \in 1..(i - 1) : file[j] = Token(o, "pending")
  /\ \A j \in 1..Len(file) : Outcome(o, j) => j = i

\* Where a line ends without its newline: each time there was a tear.
Torn(j) == file[j] # Newline /\ (j = Len(file) \/ file[j + 1] # Newline)
TornPlaces == {j \in 1..Len(file) : Torn(j)}
TearsCounted == Cardinality(TornPlaces) <= tears /\ tears <= faults + crashes

IInv == TypeOK /\ Phases /\ Lines /\ NoOutcomeYet /\ Outcomes /\ TearsCounted /\ AnswersAreTrue

-----------------------------------------------------------------------------
(* Tokens and records *)

LEMMA TokenParts ==
  ASSUME NEW o \in Ops, NEW r \in Results
  PROVE  Token(o, r) \in Records /\ Token(o, r).op = o /\ Token(o, r).result = r
BY DEF Token, Records

LEMMA RecordParts ==
  ASSUME NEW t \in Records
  PROVE  /\ t.op \in Ops /\ t.result \in Results /\ t = Token(t.op, t.result)
         /\ t # Newline /\ t # Fragment
<1>1. PICK o \in Ops, r \in Results : t = Token(o, r)
  BY DEF Records
<1>2. t.op = o /\ t.result = r
  BY <1>1, TokenParts
<1>3. Newline.op = NoOp /\ Fragment.op = NoOp
  BY DEF Newline, Fragment, Token
<1>. QED  BY <1>1, <1>2, <1>3, OpsAssumption

LEMMA NoRecords ==
  Newline \notin Records /\ Fragment \notin Records /\ Newline # Fragment
<1>1. Newline.result # Fragment.result
  BY DEF Newline, Fragment, Token
<1>. QED  BY <1>1, RecordParts

LEMMA RecordOfParts ==
  ASSUME TypeOK, NEW o \in Ops
  PROVE  /\ RecordOf(o) \in Records /\ RecordOf(o).op = o
         /\ pc[o] = "started" => RecordOf(o) = Token(o, "pending")
         /\ pc[o] = "denied" => RecordOf(o) = Token(o, "denied")
         /\ pc[o] = "completed" =>
              RecordOf(o) = Token(o, IF opErr[o] THEN "failed" ELSE "succeeded")
<1>1. PICK r \in Results : RecordOf(o) = Token(o, r)
  BY DEF RecordOf, Results
<1>. QED  BY <1>1, TokenParts DEF RecordOf

-----------------------------------------------------------------------------
(* What a step does to the file: it agrees with the file before on k tokens *)

Agrees(k) ==
  /\ file' \in Seq(Tokens) /\ Len(file') >= k
  /\ \A i \in 1..k : file'[i] = file[i]

LEMMA FileType ==
  ASSUME TypeOK
  PROVE  /\ file \in Seq(Tokens) /\ Len(file) \in Nat /\ synced \in 0..Len(file)
         /\ \A i \in 1..Len(file) : file[i] \in Tokens
BY ElementOfSeq, LenProperties DEF TypeOK, LogType, Tokens

LEMMA SameFile ==
  ASSUME TypeOK, UNCHANGED file
  PROVE  Agrees(Len(file)) /\ Len(file') = Len(file)
BY FileType DEF Agrees

LEMMA LineAdded ==
  ASSUME TypeOK, NEW record \in Records, file' = WithLine(record)
  PROVE  /\ Agrees(Len(file)) /\ Len(file') = Len(file) + 2
         /\ file'[Len(file) + 1] = record /\ file'[Len(file) + 2] = Newline
<1>. DEFINE line == <<record, Newline>>
<1>1. /\ line \in Seq(Tokens) /\ Len(line) = 2 /\ line[1] = record /\ line[2] = Newline
  <2>1. ASSUME NEW S, NEW a \in S, NEW b \in S
        PROVE  <<a, b>> \in Seq(S) /\ Len(<<a, b>>) = 2 /\ <<a, b>>[1] = a /\ <<a, b>>[2] = b
    OBVIOUS
  <2>. QED  BY <2>1 DEF Tokens
<1>. HIDE DEF line
<1>2. file' = file \o line
  BY DEF WithLine, line
<1>3. /\ file' \in Seq(Tokens) /\ Len(file') = Len(file) + 2
      /\ \A i \in 1..(Len(file) + 2) :
           file'[i] = IF i <= Len(file) THEN file[i] ELSE line[i - Len(file)]
  <2>1. file \in Seq(Tokens) /\ Len(file) \in Nat
    BY FileType
  <2>2. /\ file \o line \in Seq(Tokens) /\ Len(file \o line) = Len(file) + Len(line)
        /\ \A i \in 1..(Len(file) + Len(line)) :
             (file \o line)[i] = IF i <= Len(file) THEN file[i] ELSE line[i - Len(file)]
    BY <1>1, <2>1, ConcatProperties
  <2>. QED  BY <1>1, <1>2, <2>2
<1>4. file'[Len(file) + 1] = line[1] /\ file'[Len(file) + 2] = line[2]
  BY <1>3, FileType
<1>. QED  BY <1>1, <1>3, <1>4, FileType DEF Agrees

LEMMA TokenAdded ==
  ASSUME TypeOK, NEW t \in Tokens, file' = Append(file, t)
  PROVE  Agrees(Len(file)) /\ Len(file') = Len(file) + 1 /\ file'[Len(file) + 1] = t
BY FileType, AppendProperties DEF Agrees

LEMMA Kept ==
  ASSUME TypeOK, NEW k \in 0..Len(file)
  PROVE  /\ SubSeq(file, 1, k) \in Seq(Tokens) /\ Len(SubSeq(file, 1, k)) = k
         /\ \A i \in 1..k : SubSeq(file, 1, k)[i] = file[i]
<1>1. \A i \in 1..k : file[i] \in Tokens
  BY FileType
<1>. QED  BY <1>1, FileType, SubSeqProperties

-----------------------------------------------------------------------------
(* What each kind of step keeps *)

LEMMA LineKept ==
  ASSUME TypeOK, NEW k \in Nat, Agrees(k), NEW record, NEW n \in Nat, n <= k,
         NEW m \in Nat, n <= m, LineBefore(record, n)
  PROVE  LineBefore(record, m)'
BY DEF Agrees, LineBefore

\* The outcomes stay, when only operations without one change, and no new one is added.
LEMMA OutcomesStay ==
  ASSUME TypeOK, NoOutcomeYet, Outcomes, NEW k \in 0..Len(file), Agrees(k),
         \A i \in (k + 1)..Len(file') : file'[i] \in Records => file'[i].result = "pending",
         \A o \in Ops : Settled(o) => Settled(o)' /\ applied'[o] = applied[o]
  PROVE  NoOutcomeYet' /\ Outcomes'
<1>1. Len(file') \in Nat /\ Len(file) \in Nat
  BY FileType, LenProperties DEF Agrees
<1>2. ASSUME NEW o \in Ops, NEW i \in 1..Len(file'), Outcome(o, i)'
      PROVE  i \in 1..k /\ Outcome(o, i) /\ file'[i] = file[i] /\ i \in 1..Len(file)
  BY <1>1, <1>2 DEF Agrees, Outcome
<1>3. NoOutcomeYet'
  BY <1>2 DEF NoOutcomeYet
<1>4. ASSUME NEW o \in Ops, NEW i \in 1..Len(file'), Outcome(o, i)'
      PROVE  /\ file'[i].result = "succeeded" => applied'[o]
             /\ file'[i].result = "denied" => ~applied'[o]
             /\ file'[i].result # "denied" => \E j \in 1..(i - 1) : file'[j] = Token(o, "pending")
             /\ \A j \in 1..Len(file') : Outcome(o, j)' => j = i
  <2>1. i \in 1..k /\ Outcome(o, i) /\ file'[i] = file[i] /\ i \in 1..Len(file)
    BY <1>2, <1>4
  <2>2. applied'[o] = applied[o]
    BY <2>1 DEF NoOutcomeYet
  <2>3. file'[i].result # "denied" => \E j \in 1..(i - 1) : file'[j] = Token(o, "pending")
    <3>1. ASSUME NEW j \in 1..(i - 1)  PROVE file'[j] = file[j]
      BY <2>1, <3>1 DEF Agrees
    <3>. QED  BY <2>1, <3>1 DEF Outcomes
  <2>4. \A j \in 1..Len(file') : Outcome(o, j)' => j = i
    BY <1>2, <2>1 DEF Outcomes
  <2>. QED  BY <2>1, <2>2, <2>3, <2>4 DEF Outcomes
<1>. QED  BY <1>3, <1>4 DEF Outcomes

\* The outcome of an operation is added at its last append, after its start.
LEMMA OutcomeAdded ==
  ASSUME TypeOK, Phases, Lines, NoOutcomeYet, Outcomes,
         NEW o \in Ops, pc[o] \in {"denied", "completed"}, step[o] = "write",
         Agrees(Len(file)), Len(file') > Len(file), file'[Len(file) + 1] = RecordOf(o),
         \A i \in (Len(file) + 2)..Len(file') : file'[i] \notin Records,
         \A p \in Ops : (Settled(p) => Settled(p)') /\ applied'[p] = applied[p],
         Settled(o)'
  PROVE  NoOutcomeYet' /\ Outcomes'
<1>. DEFINE n == Len(file) + 1
<1>1. Len(file') \in Nat /\ Len(file) \in Nat
  BY FileType, LenProperties DEF Agrees
<1>2. \A i \in 1..Len(file) : ~Outcome(o, i)
  BY DEF NoOutcomeYet, Settled
<1>3. RecordOf(o) \in Records /\ RecordOf(o).op = o
  BY RecordOfParts
<1>4. ASSUME NEW p \in Ops, NEW i \in 1..Len(file'), Outcome(p, i)'
      PROVE  \/ i \in 1..Len(file) /\ Outcome(p, i) /\ file'[i] = file[i] /\ p # o
             \/ i = n /\ p = o
  BY <1>1, <1>2, <1>3, <1>4 DEF Agrees, Outcome
<1>5. NoOutcomeYet'
  BY <1>4 DEF NoOutcomeYet
<1>6. /\ RecordOf(o).result = "succeeded" => applied[o]
      /\ RecordOf(o).result = "denied" => ~applied[o]
      /\ RecordOf(o).result # "denied" => Token(o, "pending") \in acked
  <2>1. CASE pc[o] = "denied"
    BY <2>1, RecordOfParts, TokenParts DEF Phases, Results
  <2>2. CASE pc[o] = "completed"
    BY <2>2, RecordOfParts, TokenParts DEF Phases, Results
  <2>. QED  BY <2>1, <2>2
<1>7. Token(o, "pending") \in acked => \E j \in 1..Len(file) : file'[j] = Token(o, "pending")
  BY <1>1, FileType DEF Lines, LineBefore, Agrees
<1>8. ASSUME NEW p \in Ops, NEW i \in 1..Len(file'), Outcome(p, i)'
      PROVE  /\ file'[i].result = "succeeded" => applied'[p]
             /\ file'[i].result = "denied" => ~applied'[p]
             /\ file'[i].result # "denied" => \E j \in 1..(i - 1) : file'[j] = Token(p, "pending")
             /\ \A j \in 1..Len(file') : Outcome(p, j)' => j = i
  <2>1. CASE i = n /\ p = o
    BY <1>1, <1>4, <1>6, <1>7, <2>1
  <2>2. CASE i \in 1..Len(file) /\ Outcome(p, i) /\ file'[i] = file[i] /\ p # o
    <3>1. file'[i].result # "denied" => \E j \in 1..(i - 1) : file'[j] = Token(p, "pending")
      <4>1. file[i].result # "denied" => \E j \in 1..(i - 1) : file[j] = Token(p, "pending")
        BY <2>2 DEF Outcomes
      <4>2. ASSUME NEW j \in 1..(i - 1)  PROVE file'[j] = file[j]
        BY <1>1, <2>2, <4>2 DEF Agrees
      <4>. QED  BY <2>2, <4>1, <4>2
    <3>2. \A j \in 1..Len(file') : Outcome(p, j)' => j = i
      BY <1>4, <2>2 DEF Outcomes
    <3>. QED  BY <2>2, <3>1, <3>2 DEF Outcomes
  <2>. QED  BY <1>4, <1>8, <2>1, <2>2
<1>. QED  BY <1>5, <1>8 DEF Outcomes

LEMMA TornPlacesFinite ==
  ASSUME TypeOK
  PROVE  IsFiniteSet(TornPlaces) /\ Cardinality(TornPlaces) \in Nat
<1>1. IsFiniteSet(1..Len(file)) /\ TornPlaces \in SUBSET (1..Len(file))
  BY FileType, FS_Interval DEF TornPlaces
<1>. QED  BY <1>1, FS_Subset, FS_CardinalityType

LEMMA TearsStay ==
  ASSUME TypeOK, TearsCounted, TornPlaces' \subseteq TornPlaces, tears' = tears,
         faults' + crashes' >= faults + crashes, faults' + crashes' \in Nat
  PROVE  TearsCounted'
<1>1. Cardinality(TornPlaces') <= Cardinality(TornPlaces)
  BY TornPlacesFinite, FS_Subset
<1>2. Cardinality(TornPlaces') \in Nat
  BY TornPlacesFinite, FS_Subset, FS_CardinalityType
<1>. QED  BY <1>1, <1>2, TornPlacesFinite DEF TearsCounted, TypeOK, LogType

LEMMA TearAdded ==
  ASSUME TypeOK, TearsCounted, NEW n, TornPlaces' \subseteq TornPlaces \cup {n},
         tears' = tears + 1, faults' + crashes' = faults + crashes + 1
  PROVE  TearsCounted'
<1>1. /\ IsFiniteSet(TornPlaces \cup {n})
      /\ Cardinality(TornPlaces \cup {n}) <= Cardinality(TornPlaces) + 1
  BY TornPlacesFinite, FS_AddElement
<1>2. Cardinality(TornPlaces \cup {n}) \in Nat
  BY <1>1, FS_CardinalityType
<1>3. Cardinality(TornPlaces') <= Cardinality(TornPlaces \cup {n})
  BY <1>1, FS_Subset
<1>4. Cardinality(TornPlaces') \in Nat
  BY <1>1, FS_Subset, FS_CardinalityType
<1>. QED  BY <1>1, <1>2, <1>3, <1>4, TornPlacesFinite DEF TearsCounted, TypeOK, LogType

-----------------------------------------------------------------------------
(* The actions *)

LEMMA InitHolds ==
  ASSUME Init
  PROVE  IInv
<1>1. file = <<>> /\ file \in Seq(Tokens) /\ Len(file) = 0
  BY EmptySeq DEF Init
<1>2. TypeOK
  BY <1>1, BoundsAssumption DEF Init, TypeOK, LogType, Pcs, Answers, Tokens
<1>3. TearsCounted
  <2>1. TornPlaces = {}
    BY <1>1 DEF TornPlaces
  <2>. QED  BY <2>1, FS_EmptySet DEF Init, TearsCounted
<1>4. Phases /\ AnswersAreTrue
  BY DEF Init, Phases, AnswersAreTrue
<1>5. Lines /\ NoOutcomeYet /\ Outcomes
  BY <1>1 DEF Init, Lines, NoOutcomeYet, Outcomes
<1>. QED  BY <1>2, <1>3, <1>4, <1>5 DEF IInv

LEMMA SumsGrow ==
  ASSUME NEW a \in Nat, NEW b \in Nat, NEW c \in Nat, NEW d \in Nat, c >= a, d >= b
  PROVE  c + d >= a + b /\ c + d \in Nat
OBVIOUS

\* A step that leaves the log alone, and the places and operations it does not settle.
LEMMA LogUntouched ==
  ASSUME IInv, UNCHANGED <<file, synced, acked, tears>>,
         faults' \in Nat, crashes' \in Nat, faults' >= faults, crashes' >= crashes,
         \A o \in Ops : Settled(o) => Settled(o)' /\ applied'[o] = applied[o],
         \A o \in Ops : step'[o] = "sync" => step[o] = "sync" /\ RecordOf(o)' = RecordOf(o)
  PROVE  Lines' /\ NoOutcomeYet' /\ Outcomes' /\ TearsCounted'
<1>. USE DEF IInv
<1>1. TornPlaces' = TornPlaces
  BY DEF TornPlaces, Torn
<1>2. TearsCounted'
  <2>1. faults \in Nat /\ crashes \in Nat
    BY BoundsAssumption DEF TypeOK
  <2>2. faults' + crashes' >= faults + crashes /\ faults' + crashes' \in Nat
    BY <2>1, SumsGrow
  <2>. QED  BY <1>1, <2>2, TearsStay
<1>3. Lines'
  BY DEF Lines, LineBefore
<1>4. NoOutcomeYet' /\ Outcomes'
  BY OutcomesStay, SameFile, FileType
<1>. QED  BY <1>2, <1>3, <1>4

LEMMA AppendChecksKeeps ==
  ASSUME IInv, NEW o \in Ops, AppendChecks(o)
  PROVE  IInv'
<1>. USE DEF IInv
<1>1. /\ UNCHANGED <<file, synced, lock, acked, tears, cancelled, opErr, applied, faults, crashes>>
      /\ pc[o] \in Appending /\ step[o] = "check"
  BY DEF AppendChecks, logVars
<1>2. \/ AppendReturns(o, FALSE)
      \/ step' = [step EXCEPT ![o] = "write"] /\ UNCHANGED <<pc, answer>>
  BY DEF AppendChecks
<1>3. TypeOK'
  BY <1>1, <1>2 DEF TypeOK, LogType, AppendReturns, AnswerOf, Admitted, Pcs, Answers
<1>4. Phases' /\ AnswersAreTrue'
  BY <1>1, <1>2 DEF TypeOK, Phases, AnswersAreTrue, AppendReturns, AnswerOf, Admitted, Appending
<1>5. Lines' /\ NoOutcomeYet' /\ Outcomes' /\ TearsCounted'
  <2>1. \A p \in Ops : Settled(p) => Settled(p)'
    BY <1>1, <1>2 DEF Settled, TypeOK, AppendReturns, Admitted, Appending
  <2>2. \A p \in Ops : step'[p] = "sync" => step[p] = "sync" /\ RecordOf(p)' = RecordOf(p)
    BY <1>1, <1>2 DEF RecordOf, TypeOK, AppendReturns
  <2>. QED  BY <1>1, <2>1, <2>2, LogUntouched DEF TypeOK
<1>. QED  BY <1>3, <1>4, <1>5

LEMMA AppendWritesKeeps ==
  ASSUME IInv, NEW o \in Ops, AppendWrites(o)
  PROVE  IInv'
<1>. USE DEF IInv
<1>1. /\ UNCHANGED <<synced, acked, tears, pc, cancelled, opErr, applied, answer, faults, crashes>>
      /\ step[o] = "write" /\ step' = [step EXCEPT ![o] = "sync"] /\ lock' = o
      /\ file' = WithLine(RecordOf(o))
  BY DEF AppendWrites
<1>2. /\ Agrees(Len(file)) /\ Len(file') = Len(file) + 2 /\ Len(file) \in Nat
      /\ file'[Len(file) + 1] = RecordOf(o) /\ file'[Len(file) + 2] = Newline
  BY <1>1, RecordOfParts, LineAdded, FileType
<1>3. TypeOK'
  BY <1>1, <1>2, FileType DEF TypeOK, LogType, Agrees, Tokens
<1>4. Phases' /\ AnswersAreTrue'
  BY <1>1 DEF TypeOK, Phases, AnswersAreTrue
<1>5. Lines'
  <2>1. ASSUME NEW record \in acked  PROVE LineBefore(record, synced)'
    <3>1. synced \in 0..Len(file) /\ LineBefore(record, synced)
      BY FileType DEF Lines
    <3>2. PICK i \in 1..(synced - 1) : file[i] = record /\ file[i + 1] = Newline
      BY <3>1 DEF LineBefore
    <3>3. i \in 1..Len(file) /\ i + 1 \in 1..Len(file)
      BY <1>2, <3>1
    <3>4. file'[i] = record /\ file'[i + 1] = Newline
      BY <1>2, <3>2, <3>3 DEF Agrees
    <3>. QED  BY <1>1, <3>4 DEF LineBefore
  <2>2. ASSUME NEW p \in Ops, step'[p] = "sync"  PROVE LineBefore(RecordOf(p), Len(file))'
    <3>1. RecordOf(p)' = RecordOf(p)
      BY <1>1 DEF RecordOf
    <3>2. CASE p = o
      BY <1>2, <3>1, <3>2 DEF LineBefore
    <3>3. CASE p # o
      <4>1. LineBefore(RecordOf(p), Len(file))
        BY <1>1, <2>2, <3>3 DEF Lines, TypeOK
      <4>. QED  BY <1>2, <3>1, <4>1 DEF LineBefore, Agrees
    <3>. QED  BY <3>2, <3>3
  <2>. QED  BY <1>1, <2>1, <2>2 DEF Lines
<1>6. NoOutcomeYet' /\ Outcomes'
  <2>1. \A p \in Ops : (Settled(p) => Settled(p)') /\ applied'[p] = applied[p]
    BY <1>1 DEF Settled, TypeOK
  <2>2. \A i \in (Len(file) + 2)..Len(file') : file'[i] \notin Records
    BY <1>2, NoRecords
  <2>3. CASE pc[o] \in {"denied", "completed"}
    <3>1. Settled(o)'
      BY <1>1, <2>3 DEF Settled, TypeOK
    <3>. QED  BY <1>1, <1>2, <2>1, <2>2, <2>3, <3>1, OutcomeAdded
  <2>4. CASE pc[o] = "started"
    <3>1. RecordOf(o).result = "pending"
      BY <2>4, RecordOfParts, TokenParts DEF Results
    <3>2. \A i \in (Len(file) + 1)..Len(file') : file'[i] \in Records => file'[i].result = "pending"
      BY <1>2, <2>2, <3>1
    <3>. QED  BY <1>2, <2>1, <3>2, OutcomesStay
  <2>. QED  BY <1>1, <2>3, <2>4 DEF Phases, Appending
<1>7. TearsCounted'
  <2>1. TornPlaces' \subseteq TornPlaces
    <3>1. ASSUME NEW j \in 1..Len(file'), Torn(j)'  PROVE j \in 1..Len(file) /\ Torn(j)
      <4>1. CASE j \in 1..Len(file)
        BY <1>2, <3>1, <4>1, RecordOfParts, RecordParts DEF Torn, Agrees
      <4>2. CASE j = Len(file) + 1 \/ j = Len(file) + 2
        BY <1>2, <3>1, <4>2 DEF Torn
      <4>. QED  BY <1>2, <4>1, <4>2
    <3>. QED  BY <3>1 DEF TornPlaces
  <2>. QED  BY <1>1, <2>1, TearsStay, BoundsAssumption DEF TypeOK
<1>. QED  BY <1>3, <1>4, <1>5, <1>6, <1>7

LEMMA AppendWriteFailsKeeps ==
  ASSUME IInv, NEW o \in Ops, AppendWriteFails(o)
  PROVE  IInv'
<1>. USE DEF IInv
<1>1. /\ UNCHANGED <<synced, lock, acked, cancelled, opErr, applied, crashes>>
      /\ step[o] = "write" /\ AppendReturns(o, FALSE) /\ faults < MaxFaults /\ faults' = faults + 1
  BY DEF AppendWriteFails
<1>2. /\ pc' = [pc EXCEPT ![o] = "done"] /\ step' = [step EXCEPT ![o] = "check"]
      /\ answer' = [answer EXCEPT ![o] = AnswerOf(o, FALSE)]
  BY <1>1 DEF AppendReturns, Admitted
<1>3. Phases' /\ AnswersAreTrue'
  BY <1>1, <1>2 DEF TypeOK, Phases, AnswersAreTrue, AnswerOf, Appending
<1>4. \A p \in Ops : (Settled(p) => Settled(p)') /\ applied'[p] = applied[p]
  BY <1>1, <1>2 DEF Settled, TypeOK
<1>5. \A p \in Ops : step'[p] = "sync" => p # o /\ step[p] = "sync" /\ RecordOf(p)' = RecordOf(p)
  BY <1>1, <1>2 DEF RecordOf, TypeOK
<1>6. CASE UNCHANGED <<file, tears>>
  <2>1. TypeOK'
    BY <1>1, <1>2, <1>6, BoundsAssumption DEF TypeOK, LogType, AnswerOf, Pcs, Answers, TearsCounted
  <2>2. Lines' /\ NoOutcomeYet' /\ Outcomes' /\ TearsCounted'
    BY <1>1, <1>4, <1>5, <1>6, LogUntouched, BoundsAssumption DEF TypeOK
  <2>. QED  BY <1>3, <2>1, <2>2
<1>7. CASE \E rest \in {Fragment, RecordOf(o)} : file' = Append(file, rest) /\ tears' = tears + 1
  <2>1. PICK rest \in {Fragment, RecordOf(o)} : file' = Append(file, rest) /\ tears' = tears + 1
    BY <1>7
  <2>2. /\ Agrees(Len(file)) /\ Len(file') = Len(file) + 1 /\ Len(file) \in Nat
        /\ file'[Len(file) + 1] = rest
    BY <2>1, RecordOfParts, TokenAdded, FileType DEF Tokens
  <2>3. TearsCounted'
    <3>1. TornPlaces' \subseteq TornPlaces \cup {Len(file) + 1}
      BY <2>2 DEF TornPlaces, Torn, Agrees
    <3>2. faults' + crashes' = faults + crashes + 1
      BY <1>1, BoundsAssumption DEF TypeOK
    <3>. QED  BY <2>1, <3>1, <3>2, TearAdded
  <2>4. TypeOK'
    <3>1. tears' \in 0..(MaxFaults + MaxCrashes)
      BY <1>1, <2>1, BoundsAssumption DEF TypeOK, LogType, TearsCounted
    <3>2. file' \in Seq(Records \cup {Newline, Fragment}) /\ synced' \in 0..Len(file')
      BY <1>1, <2>2, FileType DEF Agrees, Tokens
    <3>. QED  BY <1>1, <1>2, <3>1, <3>2, BoundsAssumption
              DEF TypeOK, LogType, AnswerOf, Pcs, Answers
  <2>5. Lines'
    <3>1. ASSUME NEW record \in acked  PROVE LineBefore(record, synced)'
      BY <1>1, <2>2, FileType DEF Lines, LineBefore, Agrees
    <3>2. ASSUME NEW p \in Ops, step'[p] = "sync"  PROVE LineBefore(RecordOf(p), Len(file))'
      <4>1. LineBefore(RecordOf(p), Len(file)) /\ RecordOf(p)' = RecordOf(p)
        BY <1>5, <3>2 DEF Lines
      <4>. QED  BY <2>2, <4>1 DEF LineBefore, Agrees
    <3>. QED  BY <1>1, <3>1, <3>2 DEF Lines
  <2>6. NoOutcomeYet' /\ Outcomes'
    <3>1. CASE pc[o] \in {"denied", "completed"} /\ rest = RecordOf(o)
      <4>1. Settled(o)'
        BY <1>2 DEF Settled, TypeOK
      <4>2. \A i \in (Len(file) + 2)..Len(file') : file'[i] \notin Records
        BY <2>2
      <4>. QED  BY <1>1, <1>4, <2>2, <3>1, <4>1, <4>2, OutcomeAdded
    <3>2. CASE pc[o] = "started" \/ rest = Fragment
      <4>1. rest \in Records => rest.result = "pending"
        BY <2>1, <3>2, RecordOfParts, TokenParts, NoRecords DEF Results
      <4>2. \A i \in (Len(file) + 1)..Len(file') : file'[i] \in Records => file'[i].result = "pending"
        BY <2>2, <4>1
      <4>. QED  BY <1>4, <2>2, <4>2, OutcomesStay
    <3>. QED  BY <1>1, <2>1, <3>1, <3>2 DEF Phases, Appending
  <2>. QED  BY <1>3, <2>3, <2>4, <2>5, <2>6
<1>. QED  BY <1>6, <1>7 DEF AppendWriteFails

\* fsync puts everything on disk, the record of this append among it.
LEMMA AppendSyncsKeeps ==
  ASSUME IInv, NEW o \in Ops, AppendSyncs(o)
  PROVE  IInv'
<1>. USE DEF IInv
<1>1. /\ UNCHANGED <<file, tears, cancelled, opErr, applied, faults, crashes>>
      /\ step[o] = "sync" /\ synced' = Len(file) /\ acked' = acked \cup {RecordOf(o)}
      /\ lock' = NoOp /\ AppendReturns(o, TRUE)
  BY DEF AppendSyncs, Unlock
<1>2. /\ pc' = [pc EXCEPT ![o] = IF pc[o] = "started" THEN "provider" ELSE "done"]
      /\ step' = [step EXCEPT ![o] = "check"]
      /\ answer' = [answer EXCEPT ![o] = AnswerOf(o, TRUE)]
  BY <1>1 DEF AppendReturns, Admitted
<1>3. TypeOK'
  BY <1>1, <1>2, RecordOfParts, FileType DEF TypeOK, LogType, AnswerOf, Pcs, Answers
<1>4. pc[o] \in Appending
  BY <1>1 DEF Phases
<1>5. /\ \A p \in Ops, r \in Results : Token(p, r) \in acked' => Token(p, r) \in acked \/ p = o
      /\ Token(o, "pending") \in acked' <=> Token(o, "pending") \in acked \/ pc[o] = "started"
      /\ Token(o, "succeeded") \in acked' <=>
            Token(o, "succeeded") \in acked \/ (pc[o] = "completed" /\ ~opErr[o])
  BY <1>1, <1>4, RecordOfParts, TokenParts DEF Results, Appending
<1>6. Phases'
  <2>1. ASSUME NEW p \in Ops, p # o
        PROVE  /\ Token(p, "pending") \in acked => Token(p, "pending") \in acked'
               /\ Token(p, "succeeded") \in acked' => Token(p, "succeeded") \in acked
    BY <1>1, <1>5, <2>1 DEF Results
  <2>. QED  BY <1>1, <1>2, <1>4, <1>5, <2>1 DEF Phases, TypeOK, AnswerOf, Appending
<1>7. AnswersAreTrue'
  <2>1. ASSUME NEW p \in Ops, p # o
        PROVE  Token(p, "succeeded") \in acked' <=> Token(p, "succeeded") \in acked
    BY <1>1, <1>5, <2>1 DEF Results
  <2>. QED  BY <1>1, <1>2, <1>4, <1>5, <2>1 DEF Phases, AnswersAreTrue, TypeOK, AnswerOf, Appending
<1>8. Lines'
  <2>1. ASSUME NEW record \in acked'  PROVE LineBefore(record, Len(file))
    BY <1>1, <2>1, FileType DEF Lines, LineBefore
  <2>2. ASSUME NEW p \in Ops, step'[p] = "sync"
        PROVE  step[p] = "sync" /\ RecordOf(p)' = RecordOf(p)
    BY <1>1, <1>2, <2>2 DEF RecordOf, TypeOK
  <2>. QED  BY <1>1, <2>1, <2>2 DEF Lines, LineBefore
<1>9. NoOutcomeYet' /\ Outcomes'
  <2>1. \A p \in Ops : Settled(p) => Settled(p)' /\ applied'[p] = applied[p]
    BY <1>1, <1>2, <1>4 DEF Settled, TypeOK, Appending
  <2>. QED  BY <1>1, <2>1, OutcomesStay, SameFile, FileType
<1>10. TearsCounted'
  <2>1. TornPlaces' = TornPlaces
    BY <1>1 DEF TornPlaces, Torn
  <2>. QED  BY <1>1, <2>1 DEF TearsCounted
<1>. QED  BY <1>3, <1>6, <1>7, <1>8, <1>9, <1>10

LEMMA AppendSyncFailsKeeps ==
  ASSUME IInv, NEW o \in Ops, AppendSyncFails(o)
  PROVE  IInv'
<1>. USE DEF IInv
<1>1. /\ UNCHANGED <<file, synced, acked, tears, cancelled, opErr, applied, crashes>>
      /\ step[o] = "sync" /\ lock' = NoOp
      /\ faults < MaxFaults /\ faults' = faults + 1
      /\ pc' = [pc EXCEPT ![o] = "done"] /\ step' = [step EXCEPT ![o] = "check"]
      /\ answer' = [answer EXCEPT ![o] = AnswerOf(o, FALSE)]
  BY DEF AppendSyncFails, Unlock, AppendReturns, Admitted
<1>2. TypeOK'
  BY <1>1, BoundsAssumption DEF TypeOK, LogType, AnswerOf, Pcs, Answers
<1>3. Phases' /\ AnswersAreTrue'
  BY <1>1 DEF TypeOK, Phases, AnswersAreTrue, AnswerOf, Appending
<1>4. Lines' /\ NoOutcomeYet' /\ Outcomes' /\ TearsCounted'
  <2>1. \A p \in Ops : Settled(p) => Settled(p)' /\ applied'[p] = applied[p]
    BY <1>1 DEF Settled, TypeOK
  <2>2. \A p \in Ops : step'[p] = "sync" => step[p] = "sync" /\ RecordOf(p)' = RecordOf(p)
    BY <1>1 DEF RecordOf, TypeOK
  <2>. QED  BY <1>1, <2>1, <2>2, LogUntouched, BoundsAssumption DEF TypeOK
<1>. QED  BY <1>2, <1>3, <1>4

LEMMA RequestKeeps ==
  ASSUME IInv, NEW o \in Ops, Begin(o) \/ Provider(o) \/ Disconnect(o)
  PROVE  IInv'
<1>. USE DEF IInv
<1>1. /\ UNCHANGED <<file, synced, lock, acked, tears, step, answer, faults, crashes>>
  BY DEF Begin, Provider, Disconnect, logVars
<1>2. TypeOK'
  <2>1. CASE Begin(o)
    BY <1>1, <2>1 DEF TypeOK, LogType, Begin, Pcs, Appending
  <2>2. CASE Provider(o)
    BY <1>1, <2>2 DEF TypeOK, LogType, Provider, Pcs, Appending
  <2>3. CASE Disconnect(o)
    BY <1>1, <2>3 DEF TypeOK, LogType, Disconnect, Pcs, Appending
  <2>. QED  BY <2>1, <2>2, <2>3
<1>3. Phases' /\ AnswersAreTrue'
  BY <1>1 DEF TypeOK, Phases, AnswersAreTrue, Begin, Provider, Disconnect, Appending
<1>4. Lines' /\ NoOutcomeYet' /\ Outcomes' /\ TearsCounted'
  <2>1. \A p \in Ops : Settled(p) => Settled(p)' /\ applied'[p] = applied[p]
    BY <1>1 DEF Settled, TypeOK, Begin, Provider, Disconnect
  <2>2. \A p \in Ops : step'[p] = "sync" => step[p] = "sync" /\ RecordOf(p)' = RecordOf(p)
    BY <1>1 DEF RecordOf, TypeOK, Phases, Begin, Provider, Disconnect, Appending
  <2>. QED  BY <1>1, <2>1, <2>2, LogUntouched, BoundsAssumption DEF TypeOK
<1>. QED  BY <1>2, <1>3, <1>4

\* The process dies between two steps: the log stays as it is.
LEMMA ProcessDiesKeeps ==
  ASSUME IInv, ProcessDies
  PROVE  IInv'
<1>. USE DEF IInv
<1>1. /\ UNCHANGED <<file, synced, acked, tears, cancelled, opErr, applied, answer, faults>>
      /\ crashes < MaxCrashes /\ crashes' = crashes + 1 /\ lock' = NoOp
      /\ pc' = [p \in Ops |-> IF pc[p] = "idle" THEN "idle" ELSE "done"]
      /\ step' = [p \in Ops |-> "check"]
  BY DEF ProcessDies, Stops
<1>2. TypeOK'
  BY <1>1, BoundsAssumption DEF TypeOK, LogType, Pcs
<1>3. Phases' /\ AnswersAreTrue'
  BY <1>1 DEF TypeOK, Phases, AnswersAreTrue
<1>4. Lines' /\ NoOutcomeYet' /\ Outcomes' /\ TearsCounted'
  <2>1. \A p \in Ops : Settled(p) => Settled(p)' /\ applied'[p] = applied[p]
    BY <1>1 DEF Settled, TypeOK
  <2>2. \A p \in Ops : step'[p] # "sync"
    BY <1>1
  <2>. QED  BY <1>1, <2>1, <2>2, LogUntouched, BoundsAssumption DEF TypeOK
<1>. QED  BY <1>2, <1>3, <1>4

\* The machine dies: the synced lines survive, and the cut tears one line at most.
LEMMA MachineDiesKeeps ==
  ASSUME IInv, MachineDies
  PROVE  IInv'
<1>. USE DEF IInv
<1>1. /\ UNCHANGED <<acked, cancelled, opErr, applied, answer, faults>>
      /\ crashes < MaxCrashes /\ crashes' = crashes + 1 /\ lock' = NoOp
      /\ pc' = [p \in Ops |-> IF pc[p] = "idle" THEN "idle" ELSE "done"]
      /\ step' = [p \in Ops |-> "check"] /\ synced' = Len(file')
  BY DEF MachineDies, Stops
<1>2. PICK k \in synced..Len(file) :
        LET kept == SubSeq(file, 1, k)
            next == IF k < Len(file) THEN file[k + 1] ELSE Newline
        IN \/ /\ file' = kept
              /\ tears' = IF next = Newline /\ k < Len(file) THEN tears + 1 ELSE tears
           \/ /\ next # Newline
              /\ file' = Append(kept, Fragment)
              /\ tears' = tears + 1
  BY DEF MachineDies
<1>. DEFINE kept == SubSeq(file, 1, k)
<1>3. /\ k \in 0..Len(file) /\ k \in Nat /\ Len(file) \in Nat /\ synced \in Nat /\ synced <= k
  BY FileType
<1>4. kept \in Seq(Tokens) /\ Len(kept) = k /\ \A i \in 1..k : kept[i] = file[i]
  BY <1>3, Kept
<1>5. \/ file' = kept /\ tears' = tears /\ (k = Len(file) \/ file[k + 1] # Newline)
      \/ file' = kept /\ tears' = tears + 1
      \/ /\ k < Len(file) /\ file[k + 1] # Newline
         /\ file' = Append(kept, Fragment) /\ tears' = tears + 1
  BY <1>2, <1>3
<1>. HIDE DEF kept
<1>6. /\ Agrees(k)
      /\ \/ Len(file') = k
         \/ Len(file') = k + 1 /\ file'[k + 1] = Fragment
  <2>1. ASSUME file' = Append(kept, Fragment)
        PROVE  /\ file' \in Seq(Tokens) /\ Len(file') = k + 1 /\ file'[k + 1] = Fragment
               /\ \A i \in 1..k : file'[i] = kept[i]
    <3>1. Fragment \in Tokens
      BY DEF Tokens
    <3>. QED  BY <1>3, <1>4, <2>1, <3>1, AppendProperties
  <2>. QED  BY <1>3, <1>4, <1>5, <2>1 DEF Agrees
<1>7. Phases' /\ AnswersAreTrue'
  BY <1>1 DEF TypeOK, Phases, AnswersAreTrue
<1>8. Lines'
  <2>1. ASSUME NEW record \in acked  PROVE LineBefore(record, synced)'
    <3>1. LineBefore(record, synced) /\ Len(file') \in Nat /\ synced <= Len(file')
      BY <1>3, <1>6 DEF Lines
    <3>. QED  BY <1>1, <1>3, <1>6, <3>1 DEF LineBefore, Agrees
  <2>. QED  BY <1>1, <2>1 DEF Lines
<1>9. NoOutcomeYet' /\ Outcomes'
  <2>1. \A p \in Ops : Settled(p) => Settled(p)' /\ applied'[p] = applied[p]
    BY <1>1 DEF Settled, TypeOK
  <2>2. \A i \in (k + 1)..Len(file') : file'[i] \in Records => file'[i].result = "pending"
    BY <1>3, <1>6, NoRecords
  <2>. QED  BY <1>3, <1>6, <2>1, <2>2, OutcomesStay
<1>10. TearsCounted'
  <2>1. faults' + crashes' = faults + crashes + 1 /\ faults \in Nat /\ crashes \in Nat
    BY <1>1, BoundsAssumption DEF TypeOK
  <2>2. CASE file' = kept /\ tears' = tears /\ (k = Len(file) \/ file[k + 1] # Newline)
    <3>1. TornPlaces' \subseteq TornPlaces
      BY <1>3, <1>4, <2>2 DEF TornPlaces, Torn
    <3>2. faults' + crashes' >= faults + crashes /\ faults' + crashes' \in Nat
      BY <2>1
    <3>. QED  BY <2>2, <3>1, <3>2, TearsStay
  <2>3. CASE file' = kept /\ tears' = tears + 1
    <3>1. TornPlaces' \subseteq TornPlaces \cup {k}
      BY <1>3, <1>4, <2>3 DEF TornPlaces, Torn
    <3>. QED  BY <2>1, <2>3, <3>1, TearAdded
  <2>4. CASE /\ k < Len(file) /\ file[k + 1] # Newline
             /\ file' = Append(kept, Fragment) /\ tears' = tears + 1
    <3>1. Len(file') = k + 1 /\ \A i \in 1..k : file'[i] = file[i]
      <4>1. Len(file') = k + 1
        BY <1>4, <2>4, AppendProperties DEF Tokens
      <4>. QED  BY <1>6, <4>1 DEF Agrees
    <3>2. file'[k + 1] = Fragment
      BY <1>3, <1>6, <3>1
    <3>3. ASSUME NEW j \in 1..(k + 1), Torn(j)', j # k + 1  PROVE j \in 1..Len(file) /\ Torn(j)
      <4>1. j \in 1..k /\ file'[j] = file[j] /\ file'[j] # Newline /\ file'[j + 1] # Newline
        BY <1>3, <3>1, <3>3 DEF Torn
      <4>2. file[j + 1] # Newline
        BY <1>3, <2>4, <3>1, <3>3, <4>1
      <4>. QED  BY <1>3, <4>1, <4>2 DEF Torn
    <3>4. TornPlaces' \subseteq TornPlaces \cup {k + 1}
      BY <3>1, <3>3 DEF TornPlaces
    <3>. QED  BY <2>1, <2>4, <3>4, TearAdded
  <2>. QED  BY <1>5, <2>2, <2>3, <2>4
<1>11. TypeOK'
  <2>1. tears' \in 0..(MaxFaults + MaxCrashes)
    <3>1. faults' \in 0..MaxFaults /\ crashes' \in 0..MaxCrashes
      BY <1>1, BoundsAssumption DEF TypeOK
    <3>2. tears \in Nat /\ (tears' = tears \/ tears' = tears + 1)
      BY <1>5, BoundsAssumption DEF TypeOK, LogType
    <3>. QED  BY <1>10, <3>1, <3>2, BoundsAssumption DEF TearsCounted
  <2>2. file' \in Seq(Records \cup {Newline, Fragment}) /\ synced' \in 0..Len(file')
    BY <1>1, <1>3, <1>6 DEF Agrees, Tokens
  <2>. QED  BY <1>1, <2>1, <2>2, BoundsAssumption DEF TypeOK, LogType, Pcs
<1>. QED  BY <1>7, <1>8, <1>9, <1>10, <1>11

LEMMA Inductive ==
  ASSUME IInv, [Next]_vars
  PROVE  IInv'
<1>1. ASSUME NEW o \in Ops, Begin(o) \/ HandlerStep(o) \/ Disconnect(o)  PROVE IInv'
  BY <1>1, AppendChecksKeeps, AppendWritesKeeps, AppendWriteFailsKeeps, AppendSyncsKeeps,
     AppendSyncFailsKeeps, RequestKeeps DEF HandlerStep
<1>2. CASE UNCHANGED vars
  <2>1. UNCHANGED <<file, synced, lock, acked, tears, pc, step, cancelled, opErr, applied,
                    answer, faults, crashes>>
    BY <1>2 DEF vars, logVars, reqVars
  <2>. QED  BY <2>1 DEF IInv, TypeOK, LogType, Phases, Lines, LineBefore, RecordOf,
            NoOutcomeYet, Settled, Outcomes, Outcome, TearsCounted, TornPlaces, Torn, AnswersAreTrue
<1>. QED  BY <1>1, <1>2, ProcessDiesKeeps, MachineDiesKeeps DEF Next

-----------------------------------------------------------------------------
(* The properties *)

\* The invariant holds: the log has, for each operation, at most one outcome, after
\* its start, and each torn line was counted.
THEOREM Invariance == Spec => []IInv
BY InitHolds, Inductive, PTL DEF Spec

\* Append and the write handlers: what took effect on the cluster has its started
\* record on disk, and so has whatever Append has acknowledged, through every crash.
THEOREM EffectsTraced == Spec => []EffectsAreTraced
<1>1. ASSUME IInv  PROVE EffectsAreTraced
  <2>1. ASSUME NEW record \in acked  PROVE \E i \in 1..synced : file[i] = record
    <3>1. PICK i \in 1..(synced - 1) : file[i] = record
      BY <1>1, <2>1 DEF IInv, Lines, LineBefore
    <3>. QED  BY <1>1, <3>1, FileType DEF IInv
  <2>. QED  BY <1>1, <2>1 DEF IInv, Phases, EffectsAreTraced
<1>. QED  BY <1>1, Invariance, PTL

\* beginMutation and complete: an operation has one outcome in the log at most, it
\* stands after the start, and says of the cluster what is true.
THEOREM LogAgrees == Spec => []LogAgreesWithCluster
<1>1. ASSUME IInv  PROVE LogAgreesWithCluster
  <2>1. ASSUME NEW i \in 1..Len(file), file[i] \in Records, file[i].result # "pending"
        PROVE  LET o == file[i].op IN
               /\ file[i].result = "succeeded" => applied[o]
               /\ file[i].result = "denied" => ~applied[o]
               /\ file[i].result \in {"succeeded", "failed"} =>
                    \E j \in 1..(i - 1) : file[j] = Token(o, "pending")
               /\ \A j \in 1..Len(file) : file[j].op = o /\ file[j].result # "pending" => j = i
    <3>. DEFINE o == file[i].op
    <3>1. o \in Ops /\ Outcome(o, i)
      BY <2>1, RecordParts DEF Outcome
    <3>. HIDE DEF o
    <3>2. ASSUME NEW j \in 1..Len(file), file[j].op = o, file[j].result # "pending"
          PROVE  j = i
      <4>1. file[j] # Newline /\ file[j] # Fragment
        BY <3>1, <3>2, OpsAssumption DEF Newline, Fragment, Token
      <4>2. Outcome(o, j)
        BY <1>1, <3>2, <4>1, FileType DEF Outcome, IInv, Tokens
      <4>. QED  BY <1>1, <3>1, <4>2 DEF IInv, Outcomes
    <3>3. /\ file[i].result = "succeeded" => applied[o]
          /\ file[i].result = "denied" => ~applied[o]
          /\ file[i].result # "denied" => \E j \in 1..(i - 1) : file[j] = Token(o, "pending")
      BY <1>1, <3>1 DEF IInv, Outcomes
    <3>. QED  BY <3>2, <3>3 DEF o
  <2>. QED  BY <1>1, <2>1 DEF IInv, LogAgreesWithCluster
<1>. QED  BY <1>1, Invariance, PTL

\* What a write handler answers is true of the cluster and of the log.
THEOREM AnswersTrue == Spec => []AnswersAreTrue
<1>1. IInv => AnswersAreTrue
  BY DEF IInv
<1>. QED  BY <1>1, Invariance, PTL

\* FileAuditStore.List: an acknowledged record that it skips stands on the line of a
\* torn one, and each torn line costs one such record.
THEOREM LossBounded == Spec => []LossIsBoundedByTears
<1>1. ASSUME IInv  PROVE LossIsBoundedByTears
  <2>. DEFINE lost == acked \ Listed
              next == [j \in TornPlaces |-> file[j + 1]]
              found == {file[j + 1] : j \in TornPlaces}
  <2>1. ASSUME NEW record \in lost  PROVE \E j \in TornPlaces : file[j + 1] = record
    <3>1. PICK i \in 1..(synced - 1) : file[i] = record /\ file[i + 1] = Newline
      BY <1>1 DEF IInv, Lines, LineBefore
    <3>2. i \in 1..Len(file) /\ i < Len(file) /\ record \in Records
      BY <1>1, <3>1, FileType DEF IInv, TypeOK, LogType
    <3>3. i > 1 /\ file[i - 1] # Newline
      BY <3>1, <3>2 DEF Listed
    <3>4. i - 1 \in 1..Len(file) /\ i - 1 # Len(file) /\ file[(i - 1) + 1] # Newline
      BY <1>1, <3>1, <3>2, <3>3, NoRecords, FileType DEF IInv
    <3>5. Torn(i - 1)
      BY <3>3, <3>4 DEF Torn
    <3>6. i - 1 \in TornPlaces /\ file[(i - 1) + 1] = record
      BY <3>1, <3>2, <3>4, <3>5 DEF TornPlaces
    <3>. QED  BY <3>6
  <2>2. IsFiniteSet(TornPlaces) /\ Cardinality(TornPlaces) \in Nat
    BY <1>1, TornPlacesFinite DEF IInv
  <2>3. next \in Surjection(TornPlaces, found)
    BY DEF Surjection
  <2>4. IsFiniteSet(found) /\ Cardinality(found) <= Cardinality(TornPlaces)
    BY <2>2, <2>3, FS_Surjection
  <2>5. lost \in SUBSET found
    BY <2>1
  <2>6. Cardinality(lost) <= Cardinality(found) /\ Cardinality(lost) \in Nat /\ Cardinality(found) \in Nat
    BY <2>4, <2>5, FS_Subset, FS_CardinalityType
  <2>7. Cardinality(TornPlaces) <= tears /\ tears \in Nat
    BY <1>1, BoundsAssumption DEF IInv, TearsCounted, TypeOK, LogType
  <2>8. Cardinality(lost) <= tears
    BY <2>2, <2>4, <2>6, <2>7
  <2>. QED  BY <2>8 DEF LossIsBoundedByTears
<1>. QED  BY <1>1, Invariance, PTL
=============================================================================
