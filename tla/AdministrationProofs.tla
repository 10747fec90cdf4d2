------------------------ MODULE AdministrationProofs ------------------------
(***************************************************************************)
(* For whatever programs, servers and items: a command that answers ok has *)
(* written at every target of its strict steps. For whatever programs that *)
(* are put together as those of the tables: messages are found before they *)
(* are used, routes go after topics, and exports are complete.             *)
(***************************************************************************)
EXTENDS Administration, SequenceTheorems, TLAPS

-----------------------------------------------------------------------------
(* The inductive invariant *)

\* What TypeOK leaves open: programs and targets are sequences of the right
\* things, and a target that is open has a request left.
Shape ==
  /\ program \in Programs
  /\ targets = [k \in 1..at |-> targets[k]]
  /\ state = [k \in 1..at |-> state[k]]
  /\ \A k \in 1..at : targets[k] \in Seq(Servers \X (Items \cup {NoItem}))
  /\ \A i \in indices : Open(i) => done[i] < Len(step.reqs)

\* A target of a firm step that is settled without an error has been written.
Kept ==
  \A k \in 1..at : k \notin left /\ Firm(program[k]) =>
    \A i \in DOMAIN targets[k], j \in Due(program[k]) :
      state[k][i] \in {"row", "none"} => Wrote(k, i, j)

\* So far the targets of the current step were written request by request.
Progressed ==
  Firm(step) => \A i \in indices, j \in Due(step) : j <= done[i] => Wrote(at, i, j)

Settled(k) == \A i \in DOMAIN targets[k] : state[k][i] \in {"row", "none"}

\* The steps that are behind have all their targets settled, the last one too
\* once the command has answered ok.
Passed ==
  /\ \A k \in 1..at : k < at /\ k \notin left /\ ~program[k].until => Settled(k)
  /\ answer = "ok" /\ at \notin left /\ ~step.until => Settled(at)

\* What was taken are writes, of the steps so far.
Recorded ==
  \A w \in took : /\ w[1] \in 1..at /\ w[3] \in DOMAIN Reqs(w[1])
                  /\ Reqs(w[1])[w[3]].kind = "write"

\* A step is left because of one that leaves it, with all that this one leaves,
\* and has no open target.
LeftTogether ==
  /\ \A e \in left : \E h \in 1..at :
       MayLeave(program, h, e) /\ h .. h + program[h].leaves \subseteq left
  /\ at \in left => \A i \in indices : ~Open(i)

\* A step that wrote, although the one before it was left, is not left with it.
Followed ==
  \A w \in took : w[1] # 1 /\ w[1] - 1 \in left =>
    \E h \in 1 .. w[1] - 1 : MayLeave(program, h, w[1] - 1) /\ ~MayLeave(program, h, w[1])

\* A step that must have a row has one when it is behind; a complete one drops
\* no target.
Rows ==
  /\ \A k \in 1..at : k < at /\ k \notin left /\ program[k].noRow # "on" =>
       \E i \in DOMAIN targets[k] : HasRow(k, i)
  /\ \A k \in 1..at : k \notin left /\ Complete(program[k]) =>
       \A i \in DOMAIN targets[k] : state[k][i] # "none"

IInv ==
  /\ TypeOK /\ Shape /\ Kept /\ Progressed /\ Passed
  /\ Recorded /\ LeftTogether /\ Followed /\ Rows

-----------------------------------------------------------------------------
(* Sequences and programs *)

\* Appending to a function on 1..n adds its value at n + 1 and changes no other.
LEMMA AppendToFunction ==
  ASSUME NEW n \in Nat, NEW s, NEW e, s = [k \in 1..n |-> s[k]]
  PROVE  /\ Append(s, e) = [k \in 1..n+1 |-> Append(s, e)[k]]
         /\ Len(Append(s, e)) = n + 1
         /\ Append(s, e)[n + 1] = e
         /\ \A k \in 1..n : Append(s, e)[k] = s[k]
<1>. DEFINE S == {s[k] : k \in 1..n} \cup {e}
<1>1. s \in [1..n -> S]
  OBVIOUS
<1>2. s \in Seq(S) /\ Len(s) = n
  BY <1>1, SeqDef, LenProperties
<1>3. /\ Append(s, e) \in Seq(S) /\ Len(Append(s, e)) = n + 1
      /\ \A k \in 1..n : Append(s, e)[k] = s[k]
      /\ Append(s, e)[n + 1] = e
  BY <1>2, e \in S, AppendProperties
<1>. QED  BY <1>3, LenProperties

\* A function on 1..n is a sequence of that length.
LEMMA LenOfFunction ==
  ASSUME NEW n \in Nat, NEW s, s = [k \in 1..n |-> s[k]]
  PROVE  Len(s) = n
<1>. DEFINE S == {s[k] : k \in 1..n}
<1>1. s \in [1..n -> S]
  OBVIOUS
<1>2. s \in Seq(S)
  BY <1>1, SeqDef
<1>. QED  BY <1>1, <1>2, LenProperties

\* A step of a program has requests, and its requests are requests.
LEMMA ProgramSteps ==
  ASSUME NEW p \in Programs
  PROVE  /\ Len(p) \in Nat \ {0}
         /\ DOMAIN p = 1..Len(p)
         /\ \A k \in 1..Len(p) :
              /\ p[k] \in Steps /\ WellFormed(p[k])
              /\ Len(p[k].reqs) \in Nat \ {0}
              /\ DOMAIN p[k].reqs = 1..Len(p[k].reqs)
              /\ \A j \in 1..Len(p[k].reqs) : p[k].reqs[j] \in Requests
<1>1. p \in Seq(Steps) /\ p # <<>> /\ \A k \in DOMAIN p : WellFormed(p[k])
  BY ProgramsAssumption
<1>2. Len(p) \in Nat \ {0} /\ DOMAIN p = 1..Len(p)
  BY <1>1, EmptySeq, LenProperties
<1>3. \A k \in 1..Len(p) : p[k] \in Steps /\ WellFormed(p[k])
  BY <1>1, <1>2, ElementOfSeq
<1>4. ASSUME NEW k \in 1..Len(p)
      PROVE  /\ Len(p[k].reqs) \in Nat \ {0}
             /\ DOMAIN p[k].reqs = 1..Len(p[k].reqs)
             /\ \A j \in 1..Len(p[k].reqs) : p[k].reqs[j] \in Requests
  <2>1. p[k].reqs \in Seq(Requests) /\ p[k].reqs # <<>>
    BY <1>3 DEF Steps, WellFormed
  <2>. QED  BY <2>1, EmptySeq, LenProperties, ElementOfSeq
<1>. QED  BY <1>2, <1>3, <1>4

\* The targets of a step are a sequence, whatever was listed and found.
LEMMA TargetsOfType ==
  ASSUME NEW v \in SUBSET Brokers, NEW f \in SUBSET Items,
         program \in Programs, NEW k \in 1..Len(program)
  PROVE  /\ TargetsOf(k, v, f) \in Seq(Servers \X (Items \cup {NoItem}))
         /\ DOMAIN TargetsOf(k, v, f) \subseteq Nat
<1>1. k \in DOMAIN program
  BY ProgramSteps
<1>2. TargetsOf(k, v, f) \in Seq(Servers \X (Items \cup {NoItem}))
  BY <1>1, TargetsAssumption DEF TargetsOf
<1>. QED  BY <1>2, LenProperties

\* The strengthened types say what a reader of TypeOK expects of the indices.
LEMMA Indices ==
  ASSUME TypeOK, Shape
  PROVE  /\ at \in 1..Len(program) /\ at \in Nat
         /\ indices \subseteq Nat
         /\ Len(step.reqs) \in Nat \ {0}
         /\ \A j \in 1..Len(step.reqs) : step.reqs[j] \in Requests
         /\ DOMAIN step.reqs = 1..Len(step.reqs)
<1>1. at \in 1..Len(program) /\ at \in Nat /\ program \in Programs
  BY ProgramSteps DEF TypeOK, Shape
<1>2. targets[at] \in Seq(Servers \X (Items \cup {NoItem}))
  BY <1>1 DEF Shape
<1>. QED  BY <1>1, <1>2, ProgramSteps, LenProperties DEF indices, step

-----------------------------------------------------------------------------
(* One request *)

\* The next request of an open target is one of the requests of the step.
LEMMA NextRequest ==
  ASSUME TypeOK, Shape, NEW i \in indices, InFlight(i)
  PROVE  /\ done[i] + 1 \in 1..Len(step.reqs)
         /\ request(i) = step.reqs[done[i] + 1]
         /\ request(i) \in Requests
         /\ done[i] \in Nat /\ i \in Nat /\ at \in 1..Len(program) /\ at \in Nat
<1>1. /\ at \in 1..Len(program) /\ at \in Nat /\ i \in Nat
      /\ Len(step.reqs) \in Nat \ {0}
      /\ \A j \in 1..Len(step.reqs) : step.reqs[j] \in Requests
  BY Indices
<1>2. done[i] \in 0..Len(step.reqs) /\ done[i] < Len(step.reqs)
  BY DEF TypeOK, Shape, InFlight
<1>. QED  BY <1>1, <1>2 DEF request

\* A request in flight is not one of a step that was left.
LEMMA InFlightOnTheWay ==
  ASSUME LeftTogether, NEW i \in indices, InFlight(i)
  PROVE  at \notin left
BY DEF LeftTogether, InFlight

\* What a request to a server may add to what was taken.
MayTake(i) == UNCHANGED took \/ (request(i).kind = "write" /\ Takes(i))

LEMMA TakesKeeps ==
  ASSUME TypeOK, Shape, Recorded, LeftTogether, Followed,
         NEW i \in indices, InFlight(i), MayTake(i), UNCHANGED <<program, at>>,
         left' \in {left, left \cup (at .. at + step.leaves)}
  PROVE  /\ took \subseteq took' /\ took' \subseteq Nat \X Nat \X Nat
         /\ Recorded' /\ Followed'
<1>1. /\ done[i] + 1 \in 1..Len(step.reqs) /\ request(i) = step.reqs[done[i] + 1]
      /\ done[i] \in Nat /\ i \in Nat /\ at \in 1..Len(program) /\ at \in Nat
  BY NextRequest
<1>2. took \subseteq Nat \X Nat \X Nat /\ left \subseteq Nat
  BY DEF TypeOK
<1>. DEFINE new == <<at, i, done[i] + 1>>
<1>3. new \in Nat \X Nat \X Nat /\ new[1] = at /\ new[3] = done[i] + 1
  BY <1>1
<1>4. took' = took \/ (request(i).kind = "write" /\ took' = took \cup {new})
  BY DEF MayTake, Takes
<1>5. took \subseteq took' /\ took' \subseteq Nat \X Nat \X Nat
  BY <1>2, <1>3, <1>4
<1>6. Recorded'
  <2>1. SUFFICES ASSUME NEW w \in took'
                 PROVE  /\ w[1] \in 1..at /\ w[3] \in DOMAIN program[w[1]].reqs
                        /\ program[w[1]].reqs[w[3]].kind = "write"
    BY DEF Recorded, Reqs
  <2>2. CASE w \in took
    BY <2>2 DEF Recorded, Reqs
  <2>3. CASE w \notin took
    <3>1. w = new /\ request(i).kind = "write"
      BY <1>4, <2>3
    <3>2. DOMAIN step.reqs = 1..Len(step.reqs)
      BY Indices
    <3>. QED  BY <1>1, <1>3, <3>1, <3>2 DEF step
  <2>. QED  BY <2>2, <2>3
<1>7. Followed'
  <2>1. SUFFICES ASSUME NEW w \in took', w[1] # 1, w[1] - 1 \in left'
                 PROVE  \E h \in 1 .. w[1] - 1 :
                          MayLeave(program, h, w[1] - 1) /\ ~MayLeave(program, h, w[1])
    BY DEF Followed, MayLeave
  <2>2. w[1] \in 1..at
    BY <1>6, <2>1 DEF Recorded
  <2>3. w[1] - 1 \in left
    BY <1>1, <2>1, <2>2
  <2>4. CASE w \in took
    BY <2>1, <2>3, <2>4 DEF Followed
  <2>5. CASE w \notin took
    <3>1. w[1] = at
      BY <1>3, <1>4, <2>5
    <3>2. at \notin left
      BY InFlightOnTheWay
    <3>3. PICK h \in 1..at : MayLeave(program, h, at - 1) /\ h .. h + program[h].leaves \subseteq left
      BY <2>3, <3>1 DEF LeftTogether
    <3>4. h \in 1 .. at - 1
      BY <1>1, <3>3 DEF MayLeave
    <3>5. ~MayLeave(program, h, at)
      BY <3>2, <3>3 DEF MayLeave
    <3>. QED  BY <3>1, <3>3, <3>4, <3>5
  <2>. QED  BY <2>4, <2>5
<1>. QED  BY <1>5, <1>6, <1>7

\* The causes of what was left stay, whatever the current step does.
LEMMA CausesKept ==
  ASSUME LeftTogether, program' = program, at \in Nat, at' \in Nat, at <= at', left' = left
  PROVE  \A e \in left' : \E h \in 1..at' :
           MayLeave(program, h, e)' /\ (h .. h + program[h].leaves \subseteq left)'
<1>1. SUFFICES ASSUME NEW e \in left
               PROVE  \E h \in 1..at' :
                        MayLeave(program, h, e) /\ h .. h + program[h].leaves \subseteq left
  BY DEF MayLeave
<1>2. PICK h \in 1..at : MayLeave(program, h, e) /\ h .. h + program[h].leaves \subseteq left
  BY <1>1 DEF LeftTogether
<1>. QED  BY <1>2

\* A target that goes on keeps the invariant, if a write that is due was done.
LEMMA ProceedsKeeps ==
  ASSUME IInv, NEW i \in indices, InFlight(i), Proceeds(i),
         view' \subseteq Brokers, found' \subseteq Items, MayTake(i),
         request(i).kind = "write" /\ request(i).error = "step"
           => <<at, i, done[i] + 1>> \in took'
  PROVE  IInv'
<1>0. TypeOK /\ Shape /\ Kept /\ Progressed /\ Passed
  BY DEF IInv
<1>00. Recorded /\ LeftTogether /\ Followed /\ Rows
  BY DEF IInv
<1>1. /\ done[i] + 1 \in 1..Len(step.reqs) /\ request(i) = step.reqs[done[i] + 1]
      /\ done[i] \in Nat /\ at \in 1..Len(program) /\ at \in Nat
  BY <1>0, NextRequest
<1>2. /\ UNCHANGED <<program, at, targets, left, answer>>
      /\ done' = [done EXCEPT ![i] = @ + 1]
  BY DEF Proceeds
<1>01. took \subseteq took' /\ took' \subseteq Nat \X Nat \X Nat /\ Recorded' /\ Followed'
  BY <1>0, <1>00, <1>2, TakesKeeps
<1>3. step' = step /\ indices' = indices
  BY <1>2 DEF step, indices
<1>4. \A j \in indices : done'[j] = IF j = i THEN done[i] + 1 ELSE done[j]
  BY <1>0, <1>2 DEF TypeOK
<1>5. /\ state' = [k \in 1..at |-> state'[k]] /\ Len(state') = at
      /\ \A k \in 1..at : DOMAIN state'[k] = DOMAIN state[k]
      /\ \A k \in 1..at : \A j \in DOMAIN targets[k] :
           state'[k][j] = IF k = at /\ j = i /\ done[i] + 1 = Len(step.reqs) THEN "row"
                          ELSE state[k][j]
  <2>1. CASE done[i] + 1 = Len(step.reqs)
    <3>1. state' = [state EXCEPT ![at][i] = "row"]
      BY <2>1 DEF Proceeds
    <3>2. state' = [k \in 1..at |-> IF k = at THEN [state[at] EXCEPT ![i] = "row"]
                                    ELSE state[k]]
      BY <1>0, <1>1, <3>1 DEF Shape
    <3>3. /\ state' = [k \in 1..at |-> state'[k]]
          /\ \A k \in 1..at : state'[k] = IF k = at THEN [state[at] EXCEPT ![i] = "row"]
                                            ELSE state[k]
      BY <3>2
    <3>4. Len(state') = at
      BY <1>1, <3>3, LenOfFunction
    <3>5. \A k \in 1..at : DOMAIN state[k] = DOMAIN targets[k]
      BY <1>0 DEF TypeOK
    <3>. QED  BY <2>1, <3>3, <3>4, <3>5
  <2>2. CASE done[i] + 1 # Len(step.reqs)
    BY <1>0, <2>2 DEF Proceeds, TypeOK, Shape
  <2>. QED  BY <2>1, <2>2
<1>6. \A j \in Due(step) : j \in 1..Len(step.reqs) /\ j \in Nat
                          /\ step.reqs[j].kind = "write" /\ step.reqs[j].error = "step"
  BY <1>0, Indices DEF Due
<1>7. \A k, a, b : Wrote(k, a, b) => Wrote(k, a, b)'
  BY <1>01 DEF Wrote
<1>a. TypeOK'
  BY <1>0, <1>01, <1>1, <1>2, <1>3, <1>4, <1>5 DEF TypeOK, indices
<1>b. Shape'
  <2>1. ASSUME NEW h \in indices, state'[at][h] = "open"
        PROVE  done'[h] < Len(step.reqs)
    <3>1. at \in 1..at /\ h \in DOMAIN targets[at]
      BY <1>1 DEF indices
    <3>2. state'[at][h] = IF h = i /\ done[i] + 1 = Len(step.reqs) THEN "row"
                          ELSE state[at][h]
      BY <1>5, <3>1
    <3>3. CASE h = i
      BY <1>0, <1>1, <1>4, <2>1, <3>2, <3>3, Indices
    <3>4. CASE h # i
      BY <1>0, <1>4, <2>1, <3>2, <3>4 DEF Shape, Open
    <3>. QED  BY <3>3, <3>4
  <2>2. /\ program \in Programs /\ targets = [k \in 1..at |-> targets[k]]
        /\ \A k \in 1..at : targets[k] \in Seq(Servers \X (Items \cup {NoItem}))
    BY <1>0 DEF Shape
  <2>. QED  BY <1>2, <1>3, <1>5, <2>1, <2>2 DEF Shape, Open
<1>c. Progressed'
  <2>1. SUFFICES ASSUME Firm(step), NEW h \in indices, NEW j \in Due(step), j <= done'[h]
                 PROVE  Wrote(at, h, j)'
    BY <1>2, <1>3 DEF Progressed, Wrote
  <2>2. CASE h = i /\ j = done[i] + 1
    BY <1>1, <1>2, <1>6, <2>2 DEF Wrote
  <2>3. CASE ~(h = i /\ j = done[i] + 1)
    <3>1. j <= done[h]
      <4>1. done[h] \in Nat
        BY <1>0, Indices DEF TypeOK
      <4>. QED  BY <1>1, <1>4, <1>6, <2>1, <2>3, <4>1
    <3>2. Wrote(at, h, j)
      BY <1>0, <2>1, <3>1 DEF Progressed
    <3>. QED  BY <1>01, <1>2, <3>2 DEF Wrote
  <2>. QED  BY <2>2, <2>3
<1>d. Kept'
  <2>1. SUFFICES ASSUME NEW k \in 1..at, k \notin left, Firm(program[k]),
                        NEW h \in DOMAIN targets[k], NEW j \in Due(program[k]),
                        state'[k][h] \in {"row", "none"}
                 PROVE  Wrote(k, h, j)'
    BY <1>2 DEF Kept, Wrote
  <2>2. CASE state[k][h] \in {"row", "none"}
    BY <1>0, <1>7, <2>1, <2>2 DEF Kept
  <2>3. CASE state[k][h] \notin {"row", "none"}
    <3>1. k = at /\ h = i /\ done[i] + 1 = Len(step.reqs)
      BY <1>5, <2>1, <2>3
    <3>2. j \in Due(step) /\ Firm(step) /\ j <= done'[i]
      BY <1>4, <1>6, <2>1, <3>1 DEF step
    <3>. QED  BY <1>2, <1>3, <1>c, <3>1, <3>2 DEF Progressed, Wrote
  <2>. QED  BY <2>2, <2>3
<1>e. Passed'
  <2>1. answer = "none"
    BY DEF InFlight, Running
  <2>. QED  BY <1>0, <1>1, <1>2, <1>5, <2>1 DEF Passed, Settled
<1>f. LeftTogether'
  <2>1. at \notin left
    BY <1>00, InFlightOnTheWay
  <2>2. \A e \in left' : \E h \in 1..at' :
           MayLeave(program, h, e)' /\ (h .. h + program[h].leaves \subseteq left)'
    BY <1>00, <1>1, <1>2, CausesKept
  <2>. QED  BY <1>2, <2>1, <2>2 DEF LeftTogether
<1>g. Rows'
  <2>1. ASSUME NEW k \in 1..at, k < at, k \notin left, program[k].noRow # "on"
        PROVE  \E j \in DOMAIN targets[k] : HasRow(k, j)'
    <3>1. PICK j \in DOMAIN targets[k] : state[k][j] = "row"
      BY <1>00, <2>1 DEF Rows, HasRow
    <3>2. state'[k][j] = "row"
      BY <1>5, <2>1, <3>1
    <3>. QED  BY <3>2 DEF HasRow
  <2>2. ASSUME NEW k \in 1..at, k \notin left, Complete(program[k]), NEW j \in DOMAIN targets[k]
        PROVE  state'[k][j] # "none"
    BY <1>00, <1>5, <2>2 DEF Rows
  <2>. QED  BY <1>2, <2>1, <2>2 DEF Rows
<1>. QED  BY <1>01, <1>a, <1>b, <1>c, <1>d, <1>e, <1>f, <1>g DEF IInv

\* So does one that is settled: with an error, or where nothing more was due.
LEMMA SettlesKeeps ==
  ASSUME IInv, NEW i \in indices, InFlight(i), NEW how \in {"row", "none", "error"},
         state' = [state EXCEPT ![at][i] = how], UNCHANGED <<program, at, targets, done, left>>,
         answer' \in {answer, "failed"}, view' \subseteq Brokers, found' \subseteq Items,
         MayTake(i),
         how # "error" /\ Firm(step) => request(i).ends \/ request(i).error # "step",
         how = "none" => ~Complete(step)
  PROVE  IInv'
<1>0. TypeOK /\ Shape /\ Kept /\ Progressed /\ Passed
  BY DEF IInv
<1>00. Recorded /\ LeftTogether /\ Followed /\ Rows
  BY DEF IInv
<1>1. /\ done[i] + 1 \in 1..Len(step.reqs) /\ request(i) = step.reqs[done[i] + 1]
      /\ done[i] \in Nat /\ at \in 1..Len(program) /\ at \in Nat
  BY <1>0, NextRequest
<1>2. UNCHANGED <<program, at, targets, done, left>>
  OBVIOUS
<1>01. took \subseteq took' /\ took' \subseteq Nat \X Nat \X Nat /\ Recorded' /\ Followed'
  BY <1>0, <1>00, <1>2, TakesKeeps
<1>3. step' = step /\ indices' = indices
  BY <1>2 DEF step, indices
<1>5. /\ state' = [k \in 1..at |-> state'[k]] /\ Len(state') = at
      /\ \A k \in 1..at : DOMAIN state'[k] = DOMAIN state[k]
      /\ \A k \in 1..at : \A j \in DOMAIN targets[k] :
           state'[k][j] = IF k = at /\ j = i THEN how ELSE state[k][j]
  <2>2. state' = [k \in 1..at |-> IF k = at THEN [state[at] EXCEPT ![i] = how] ELSE state[k]]
    BY <1>0, <1>1 DEF Shape
  <2>3. /\ state' = [k \in 1..at |-> state'[k]]
        /\ \A k \in 1..at : state'[k] = IF k = at THEN [state[at] EXCEPT ![i] = how]
                                          ELSE state[k]
    BY <2>2
  <2>4. Len(state') = at
    BY <1>1, <2>3, LenOfFunction
  <2>5. \A k \in 1..at : DOMAIN state[k] = DOMAIN targets[k]
    BY <1>0 DEF TypeOK
  <2>. QED  BY <2>3, <2>4, <2>5
<1>7. \A k, a, b : Wrote(k, a, b) => Wrote(k, a, b)'
  BY <1>01 DEF Wrote
<1>a. TypeOK'
  BY <1>0, <1>01, <1>1, <1>2, <1>3, <1>5 DEF TypeOK, indices
<1>b. Shape'
  <2>1. ASSUME NEW h \in indices, state'[at][h] = "open"
        PROVE  done[h] < Len(step.reqs)
    <3>1. at \in 1..at /\ h \in DOMAIN targets[at]
      BY <1>1 DEF indices
    <3>2. state[at][h] = "open"
      BY <1>5, <2>1, <3>1
    <3>. QED  BY <1>0, <3>2 DEF Shape, Open
  <2>2. /\ program \in Programs /\ targets = [k \in 1..at |-> targets[k]]
        /\ \A k \in 1..at : targets[k] \in Seq(Servers \X (Items \cup {NoItem}))
    BY <1>0 DEF Shape
  <2>. QED  BY <1>2, <1>3, <1>5, <2>1, <2>2 DEF Shape, Open
<1>c. Progressed'
  BY <1>0, <1>2, <1>3, <1>7 DEF Progressed, Wrote
<1>d. Kept'
  <2>1. SUFFICES ASSUME NEW k \in 1..at, k \notin left, Firm(program[k]),
                        NEW h \in DOMAIN targets[k], NEW j \in Due(program[k]),
                        state'[k][h] \in {"row", "none"}
                 PROVE  Wrote(k, h, j)'
    BY <1>2 DEF Kept, Wrote
  <2>2. CASE state[k][h] \in {"row", "none"}
    BY <1>0, <1>7, <2>1, <2>2 DEF Kept
  <2>3. CASE state[k][h] \notin {"row", "none"}
    <3>1. k = at /\ h = i /\ how # "error" /\ Firm(step)
      BY <1>5, <2>1, <2>3 DEF step
    <3>2. j \in Due(step) /\ j \in 1..Len(step.reqs)
      BY <1>0, <2>1, <3>1, Indices DEF Due, step
    <3>3. j <= done[i]
      BY <1>1, <3>1, <3>2 DEF Due
    <3>. QED  BY <1>0, <1>7, <3>1, <3>2, <3>3 DEF Progressed
  <2>. QED  BY <2>2, <2>3
<1>e. Passed'
  <2>1. answer = "none"
    BY DEF InFlight, Running
  <2>. QED  BY <1>0, <1>1, <1>2, <1>5, <2>1 DEF Passed, Settled
<1>f. LeftTogether'
  <2>1. at \notin left
    BY <1>00, InFlightOnTheWay
  <2>2. \A e \in left' : \E h \in 1..at' :
           MayLeave(program, h, e)' /\ (h .. h + program[h].leaves \subseteq left)'
    BY <1>00, <1>1, <1>2, CausesKept
  <2>. QED  BY <1>2, <2>1, <2>2 DEF LeftTogether
<1>g. Rows'
  <2>1. ASSUME NEW k \in 1..at, k < at, k \notin left, program[k].noRow # "on"
        PROVE  \E j \in DOMAIN targets[k] : HasRow(k, j)'
    <3>1. PICK j \in DOMAIN targets[k] : state[k][j] = "row"
      BY <1>00, <2>1 DEF Rows, HasRow
    <3>2. state'[k][j] = "row"
      BY <1>5, <2>1, <3>1
    <3>. QED  BY <3>2 DEF HasRow
  <2>2. ASSUME NEW k \in 1..at, k \notin left, Complete(program[k]), NEW j \in DOMAIN targets[k]
        PROVE  state'[k][j] # "none"
    <3>1. CASE k = at /\ j = i
      BY <1>5, <2>2, <3>1 DEF step
    <3>2. CASE ~(k = at /\ j = i)
      BY <1>00, <1>5, <2>2, <3>2 DEF Rows
    <3>. QED  BY <3>1, <3>2
  <2>. QED  BY <1>2, <2>1, <2>2 DEF Rows
<1>. QED  BY <1>01, <1>a, <1>b, <1>c, <1>d, <1>e, <1>f, <1>g DEF IInv

\* So does a step that is left: nothing is asked of it any more.
LEMMA LeavesKeeps ==
  ASSUME IInv, NEW i \in indices, InFlight(i), Leaves,
         view' \subseteq Brokers, found' \subseteq Items, MayTake(i),
         "leave" \in Handling(step)
  PROVE  IInv'
<1>. DEFINE row == [j \in indices |-> IF Open(j) THEN "none" ELSE state[at][j]]
<1>0. TypeOK /\ Shape /\ Kept /\ Progressed /\ Passed
  BY DEF IInv
<1>00. Recorded /\ LeftTogether /\ Followed /\ Rows
  BY DEF IInv
<1>1. at \in 1..Len(program) /\ at \in Nat /\ step \in Steps
  BY <1>0, Indices, ProgramSteps DEF Shape, step
<1>2. /\ UNCHANGED <<program, at, targets, done, answer>>
      /\ left' = left \cup (at .. at + step.leaves)
      /\ state' = [state EXCEPT ![at] = row]
  BY DEF Leaves
<1>01. took \subseteq took' /\ took' \subseteq Nat \X Nat \X Nat /\ Recorded' /\ Followed'
  BY <1>0, <1>00, <1>2, TakesKeeps
<1>3. step' = step /\ indices' = indices
  BY <1>2 DEF step, indices
<1>4. left \subseteq left' /\ at \in left' /\ left' \subseteq Nat
  <2>1. step.leaves \in Nat
    BY <1>1 DEF Steps
  <2>2. left \subseteq Nat
    BY <1>0 DEF TypeOK
  <2>3. at .. at + step.leaves \subseteq Nat /\ at \in at .. at + step.leaves
    BY <1>1, <2>1
  <2>. QED  BY <1>2, <2>2, <2>3
<1>5. /\ state' = [k \in 1..at |-> state'[k]] /\ Len(state') = at
      /\ \A k \in 1..at : state'[k] = IF k = at THEN row ELSE state[k]
  <2>1. state' = [k \in 1..at |-> IF k = at THEN row ELSE state[k]]
    BY <1>0, <1>1, <1>2 DEF Shape
  <2>2. /\ state' = [k \in 1..at |-> state'[k]]
        /\ \A k \in 1..at : state'[k] = IF k = at THEN row ELSE state[k]
    BY <2>1
  <2>. QED  BY <1>1, <2>2, LenOfFunction
<1>6. \A j \in indices : row[j] \in {"row", "none", "error"}
  BY <1>0, <1>1 DEF TypeOK, Open, indices
<1>8. at \in 1..at
  BY <1>1
<1>7. \A k, a, b : Wrote(k, a, b) => Wrote(k, a, b)'
  BY <1>01 DEF Wrote
<1>a. TypeOK'
  BY <1>0, <1>01, <1>1, <1>2, <1>3, <1>4, <1>5, <1>6 DEF TypeOK, indices
<1>b. Shape'
  <2>1. \A h \in indices : state'[at][h] # "open"
    BY <1>1, <1>5, <1>6
  <2>2. /\ program \in Programs /\ targets = [k \in 1..at |-> targets[k]]
        /\ \A k \in 1..at : targets[k] \in Seq(Servers \X (Items \cup {NoItem}))
    BY <1>0 DEF Shape
  <2>. QED  BY <1>2, <1>3, <1>5, <2>1, <2>2 DEF Shape, Open
<1>c. Progressed'
  BY <1>0, <1>2, <1>3, <1>7 DEF Progressed, Wrote
<1>d. Kept'
  BY <1>0, <1>2, <1>4, <1>5, <1>7 DEF Kept, Wrote
<1>e. Passed'
  <2>1. answer = "none"
    BY DEF InFlight, Running
  <2>. QED  BY <1>0, <1>1, <1>2, <1>4, <1>5, <2>1 DEF Passed, Settled
<1>f. LeftTogether'
  <2>1. SUFFICES ASSUME NEW e \in left'
                 PROVE  \E h \in 1..at :
                          MayLeave(program, h, e) /\ h .. h + program[h].leaves \subseteq left'
    <3>1. \A j \in indices : ~(state'[at][j] = "open")
      BY <1>1, <1>5, <1>6, <1>8
    <3>. QED  BY <1>2, <1>3, <2>1, <3>1 DEF LeftTogether, MayLeave, Open
  <2>2. CASE e \in left
    <3>1. PICK h \in 1..at : MayLeave(program, h, e) /\ h .. h + program[h].leaves \subseteq left
      BY <1>00, <2>2 DEF LeftTogether
    <3>. QED  BY <1>4, <3>1
  <2>3. CASE e \notin left
    <3>1. e \in at .. at + program[at].leaves
      BY <1>2, <2>1, <2>3 DEF step
    <3>2. MayLeave(program, at, e) /\ at .. at + program[at].leaves \subseteq left'
      BY <1>2, <3>1 DEF MayLeave, step
    <3>. QED  BY <1>1, <3>2
  <2>. QED  BY <2>2, <2>3
<1>g. Rows'
  <2>1. ASSUME NEW k \in 1..at, k < at, k \notin left', program[k].noRow # "on"
        PROVE  \E j \in DOMAIN targets[k] : HasRow(k, j)'
    <3>1. PICK j \in DOMAIN targets[k] : state[k][j] = "row"
      BY <1>00, <1>4, <2>1 DEF Rows, HasRow
    <3>2. state'[k][j] = "row"
      BY <1>5, <2>1, <3>1
    <3>. QED  BY <3>2 DEF HasRow
  <2>2. ASSUME NEW k \in 1..at, k \notin left', Complete(program[k]), NEW j \in DOMAIN targets[k]
        PROVE  state'[k][j] # "none"
    BY <1>00, <1>4, <1>5, <2>2 DEF Rows
  <2>. QED  BY <1>2, <2>1, <2>2 DEF Rows
<1>. QED  BY <1>01, <1>a, <1>b, <1>c, <1>d, <1>e, <1>f, <1>g DEF IInv

\* Whatever the code does with a failed request, whether the server took it or not.
LEMMA FailsKeeps ==
  ASSUME IInv, NEW i \in indices, InFlight(i),
         NEW policy \in {step.refused, step.lost}, Fails(i, policy),
         MayTake(i), UNCHANGED <<view, found>>
  PROVE  IInv'
<1>0. TypeOK /\ Shape
  BY DEF IInv
<1>1. /\ done[i] + 1 \in 1..Len(step.reqs) /\ request(i) \in Requests
      /\ i \in Nat /\ at \in Nat
  BY <1>0, NextRequest
<1>2. view' \subseteq Brokers /\ found' \subseteq Items
  BY <1>0 DEF TypeOK
<1>3. Complete(step) => ~request(i).ends /\ request(i).error # "drop" /\ policy # "pass"
  <2>1. done[i] + 1 \in DOMAIN step.reqs /\ request(i) = step.reqs[done[i] + 1]
    BY <1>0, Indices, NextRequest
  <2>. QED  BY <2>1 DEF Complete, Handling
<1>4. policy \in Policies
  BY <1>0, Indices, ProgramSteps DEF Shape, step, Steps
<1>5. Firm(step) => policy \in {"stop", "later", "leave"}
  BY DEF Firm, Handling
<1>6. CASE request(i).error = "next"
  <2>1. Proceeds(i)
    BY <1>6 DEF Fails
  <2>. QED  BY <1>2, <1>6, <2>1, ProceedsKeeps
<1>7. CASE request(i).error = "drop"
  <2>1. Settles(i, "none")
    BY <1>7 DEF Fails
  <2>. QED  BY <1>2, <1>3, <1>7, <2>1, SettlesKeeps DEF Settles
<1>8. CASE request(i).error = "step"
  <2>1. CASE policy = "stop"
    <3>1. /\ answer' = "failed" /\ state' = [state EXCEPT ![at][i] = "error"]
          /\ UNCHANGED <<program, at, targets, done, left>>
      BY <1>8, <2>1 DEF Fails
    <3>. QED  BY <1>2, <1>3, <3>1, SettlesKeeps
  <2>2. CASE policy = "later"
    <3>1. Settles(i, "error")
      BY <1>8, <2>2 DEF Fails
    <3>. QED  BY <1>2, <1>3, <3>1, SettlesKeeps DEF Settles
  <2>3. CASE policy = "pass"
    <3>1. Settles(i, "none") /\ ~Firm(step) /\ ~Complete(step)
      BY <1>3, <1>5, <1>8, <2>3 DEF Fails
    <3>. QED  BY <1>2, <3>1, SettlesKeeps DEF Settles
  <2>4. CASE policy = "blank"
    <3>1. Settles(i, "row") /\ ~Firm(step) /\ "row" \in {"row", "none", "error"}
      BY <1>5, <1>8, <2>4 DEF Fails
    <3>. QED  BY <1>2, <1>3, <3>1, SettlesKeeps DEF Settles
  <2>5. CASE policy = "leave"
    <3>1. Leaves /\ "leave" \in Handling(step)
      BY <1>8, <2>5 DEF Fails, Handling
    <3>. QED  BY <1>2, <1>3, <3>1, LeavesKeeps
  <2>. QED  BY <1>4, <2>1, <2>2, <2>3, <2>4, <2>5 DEF Policies
<1>. QED  BY <1>1, <1>6, <1>7, <1>8 DEF Requests

LEMMA AnswersKeeps ==
  ASSUME IInv, NEW i \in indices, Answers(i)
  PROVE  IInv'
<1>0. TypeOK /\ Shape /\ InFlight(i) /\ Proceeds(i)
  BY DEF IInv, Answers
<1>1. /\ done[i] + 1 \in 1..Len(step.reqs) /\ request(i) \in Requests
      /\ i \in Nat /\ at \in Nat
  BY <1>0, NextRequest
<1>2. view \subseteq Brokers /\ found \subseteq Items
  BY <1>0 DEF TypeOK
<1>3. CASE request(i).kind = "write"
  <2>1. Takes(i) /\ UNCHANGED <<view, found>>
    BY <1>3 DEF Answers
  <2>2. MayTake(i) /\ <<at, i, done[i] + 1>> \in took'
    BY <1>3, <2>1 DEF MayTake, Takes
  <2>. QED  BY <1>0, <1>2, <2>1, <2>2, ProceedsKeeps
<1>4. CASE request(i).kind # "write"
  <2>1. view' \subseteq Brokers /\ found' \subseteq Items /\ took' = took
    BY <1>1, <1>2, <1>4 DEF Answers, Requests
  <2>. QED  BY <1>0, <1>4, <2>1, ProceedsKeeps DEF MayTake
<1>. QED  BY <1>3, <1>4

LEMMA AnswersNothingKeeps ==
  ASSUME IInv, NEW i \in indices, AnswersNothing(i)
  PROVE  IInv'
<1>1. /\ InFlight(i) /\ request(i).ends /\ Settles(i, "none")
      /\ found' = found \ {targets[at][i][2]} /\ UNCHANGED <<view, took>>
  BY DEF AnswersNothing
<1>2. view' \subseteq Brokers /\ found' \subseteq Items
  BY <1>1 DEF IInv, TypeOK
<1>3. ~Complete(step)
  <2>1. done[i] + 1 \in DOMAIN step.reqs /\ request(i) = step.reqs[done[i] + 1]
    BY <1>1, Indices, NextRequest DEF IInv
  <2>. QED  BY <1>1, <2>1 DEF Complete
<1>. QED  BY <1>1, <1>2, <1>3, SettlesKeeps DEF Settles, MayTake

LEMMA RefusesKeeps ==
  ASSUME IInv, NEW i \in indices, Refuses(i)
  PROVE  IInv'
BY FailsKeeps DEF Refuses, MayTake

LEMMA GetsLostKeeps ==
  ASSUME IInv, NEW i \in indices, GetsLost(i)
  PROVE  IInv'
BY FailsKeeps DEF GetsLost, MayTake

-----------------------------------------------------------------------------
(* From step to step *)

\* A step that is over, was not left and lets the command go on, or ends it with
\* ok, has no target with an error, and if it is strict none that is open.
LEMMA VerdictMeansSettled ==
  ASSUME TypeOK, Shape, Over, Verdict # "failed", ~step.until
  PROVE  Settled(at)
<1>1. \A i \in indices : state[at][i] # "error"
  BY DEF Verdict
<1>2. \A i \in indices : state[at][i] # "open"
  BY DEF Over, Open
<1>3. at \in 1..at /\ indices = DOMAIN targets[at]
  BY Indices DEF indices
<1>4. \A i \in DOMAIN targets[at] : state[at][i] \in {"open", "row", "none", "error"}
  BY <1>3 DEF TypeOK
<1>. QED  BY <1>1, <1>2, <1>3, <1>4 DEF Settled

\* One that lets the command go on has a row, if it must have one.
LEMMA VerdictMeansRow ==
  ASSUME Verdict = "on", step.noRow # "on"
  PROVE  \E i \in indices : HasRow(at, i)
BY DEF Verdict, AfterErrors, Rowless

LEMMA ContinuesKeeps ==
  ASSUME IInv, Running, Over, at \notin left => Verdict = "on", at # Len(program),
         Continues(at + 1), UNCHANGED <<program, view, found, took, left>>
  PROVE  IInv'
<1>0. TypeOK /\ Shape /\ Kept /\ Progressed /\ Passed
  BY DEF IInv
<1>00. Recorded /\ LeftTogether /\ Followed /\ Rows
  BY DEF IInv
<1>1. at \in 1..Len(program) /\ at \in Nat /\ at + 1 \in 1..Len(program)
  <2>1. Len(program) \in Nat
    BY <1>0, ProgramSteps DEF Shape
  <2>. QED  BY <1>0, <2>1, Indices
<1>. DEFINE new == TargetsOf(at + 1, view, found)
            row == [i \in DOMAIN new |-> IF at + 1 \in left THEN "none" ELSE "open"]
<1>2. /\ at' = at + 1 /\ targets' = Append(targets, new) /\ state' = Append(state, row)
      /\ done' = [i \in DOMAIN new |-> 0] /\ UNCHANGED answer
  BY DEF Continues
<1>3. new \in Seq(Servers \X (Items \cup {NoItem})) /\ DOMAIN new \subseteq Nat
  BY <1>0, <1>1, TargetsOfType DEF TypeOK, Shape
<1>4. /\ targets' = [k \in 1..at + 1 |-> targets'[k]] /\ Len(targets') = at + 1
      /\ targets'[at + 1] = new /\ \A k \in 1..at : targets'[k] = targets[k]
  BY <1>0, <1>1, <1>2, AppendToFunction DEF Shape
<1>5. /\ state' = [k \in 1..at + 1 |-> state'[k]] /\ Len(state') = at + 1
      /\ state'[at + 1] = row /\ \A k \in 1..at : state'[k] = state[k]
  BY <1>0, <1>1, <1>2, AppendToFunction DEF Shape
<1>6. \A k \in 1..at + 1 : k \in 1..at \/ k = at + 1
  BY <1>1
<1>7. /\ step' = program[at + 1] /\ indices' = DOMAIN new
      /\ Len(step'.reqs) \in Nat \ {0}
  BY <1>0, <1>1, <1>2, <1>4, ProgramSteps DEF step, indices, Shape
<1>a. TypeOK'
  BY <1>0, <1>1, <1>2, <1>3, <1>4, <1>5, <1>6, <1>7 DEF TypeOK
<1>b. Shape'
  <2>1. \A i \in DOMAIN new : done'[i] = 0
    BY <1>2
  <2>2. \A k \in 1..at + 1 : targets'[k] \in Seq(Servers \X (Items \cup {NoItem}))
    BY <1>0, <1>3, <1>4, <1>6 DEF Shape
  <2>3. \A i \in DOMAIN new : done'[i] < Len(step'.reqs)
    BY <1>7, <2>1
  <2>4. program' \in Programs
    BY <1>0 DEF Shape
  <2>. QED  BY <1>2, <1>4, <1>5, <1>7, <2>2, <2>3, <2>4 DEF Shape
<1>c. Progressed'
  <2>1. \A j \in Due(step)' : j \in Nat \ {0}
    BY <1>0, <1>1, <1>7, ProgramSteps DEF Due, Shape
  <2>. QED  BY <1>2, <1>7, <2>1 DEF Progressed
<1>d. Kept'
  <2>1. SUFFICES ASSUME NEW k \in 1..at + 1, k \notin left, Firm(program[k]),
                        NEW i \in DOMAIN targets'[k], NEW j \in Due(program[k]),
                        state'[k][i] \in {"row", "none"}
                 PROVE  Wrote(k, i, j)
    BY <1>2 DEF Kept, Wrote
  <2>2. k \in 1..at
    BY <1>4, <1>5, <1>6, <2>1
  <2>. QED  BY <1>0, <1>4, <1>5, <2>1, <2>2 DEF Kept
<1>e. Passed'
  <2>1. SUFFICES ASSUME NEW k \in 1..at, k \notin left, ~program[k].until
                 PROVE  Settled(k)'
    BY <1>1, <1>2, <1>6 DEF Passed, Running
  <2>2. Settled(k)
    <3>1. CASE k < at
      BY <1>0, <2>1, <3>1 DEF Passed
    <3>2. CASE k = at
      BY <1>0, <2>1, <3>2, VerdictMeansSettled DEF step
    <3>. QED  BY <1>1, <3>1, <3>2
  <2>. QED  BY <1>4, <1>5, <2>2 DEF Settled
<1>f. Recorded' /\ Followed'
  <2>1. Recorded'
    BY <1>00, <1>1, <1>2 DEF Recorded, Reqs
  <2>2. Followed'
    BY <1>00, <1>2 DEF Followed, MayLeave
  <2>. QED  BY <2>1, <2>2
<1>g. LeftTogether'
  <2>1. \A e \in left' : \E h \in 1..at' :
           MayLeave(program, h, e)' /\ (h .. h + program[h].leaves \subseteq left)'
    BY <1>00, <1>1, <1>2, CausesKept
  <2>2. at' \in left' => \A i \in indices' : state'[at'][i] # "open"
    BY <1>2, <1>5, <1>7
  <2>. QED  BY <2>1, <2>2 DEF LeftTogether, Open
<1>h. Rows'
  <2>1. ASSUME NEW k \in 1..at, k \notin left, program[k].noRow # "on"
        PROVE  \E i \in DOMAIN targets'[k] : state'[k][i] = "row"
    <3>1. \E i \in DOMAIN targets[k] : state[k][i] = "row"
      <4>1. CASE k < at
        BY <1>00, <2>1, <4>1 DEF Rows, HasRow
      <4>2. CASE k = at
        BY <2>1, <4>2, VerdictMeansRow DEF step, indices, HasRow
      <4>. QED  BY <1>1, <4>1, <4>2
    <3>. QED  BY <1>4, <1>5, <3>1
  <2>2. ASSUME NEW k \in 1..at + 1, k \notin left, Complete(program[k]),
               NEW i \in DOMAIN targets'[k]
        PROVE  state'[k][i] # "none"
    <3>1. CASE k \in 1..at
      BY <1>00, <1>4, <1>5, <2>2, <3>1 DEF Rows
    <3>2. CASE k = at + 1
      BY <1>4, <1>5, <2>2, <3>2
    <3>. QED  BY <1>6, <3>1, <3>2
  <2>3. \A k \in 1..at + 1 : k < at + 1 => k \in 1..at
    BY <1>1
  <2>. QED  BY <1>2, <2>1, <2>2, <2>3 DEF Rows, HasRow
<1>. QED  BY <1>a, <1>b, <1>c, <1>d, <1>e, <1>f, <1>g, <1>h DEF IInv

LEMMA EndStepKeeps ==
  ASSUME IInv, EndStep
  PROVE  IInv'
<1>0. TypeOK /\ Shape /\ Kept /\ Progressed /\ Passed
  BY DEF IInv
<1>00. Recorded /\ LeftTogether /\ Followed /\ Rows
  BY DEF IInv
<1>1. /\ Running /\ Over /\ UNCHANGED <<program, view, found, took, left>>
  BY DEF EndStep
<1>2. CASE (at \notin left /\ Verdict # "on") \/ at = Len(program)
  <2>1. PICK how : Ends(how) /\ how \in {"failed", "told", "ok"}
                   /\ (how = "ok" /\ at \notin left => Verdict # "failed")
    <3>1. CASE at \notin left /\ Verdict # "on"
      <4>1. Verdict \in {"failed", "told", "ok"}
        <5>1. step \in Steps
          BY <1>0, Indices, ProgramSteps DEF step, Shape
        <5>. QED  BY <3>1, <5>1 DEF Verdict, AfterErrors, Steps, Outcomes
      <4>2. Ends(Verdict)
        BY <3>1 DEF EndStep
      <4>. QED  BY <4>1, <4>2
    <3>2. CASE ~(at \notin left /\ Verdict # "on")
      <4>1. Ends("ok")
        BY <1>2, <3>2 DEF EndStep
      <4>. QED  BY <3>2, <4>1
    <3>. QED  BY <3>1, <3>2
  <2>2. answer' = how /\ UNCHANGED <<at, targets, state, done>>
    BY <2>1 DEF Ends
  <2>3. step' = step /\ indices' = indices
    BY <1>1, <2>2 DEF step, indices
  <2>4. how = "ok" /\ at \notin left /\ ~step.until => Settled(at)
    BY <1>0, <1>1, <2>1, VerdictMeansSettled
  <2>a. TypeOK'
    BY <1>0, <1>1, <2>1, <2>2, <2>3 DEF TypeOK
  <2>b. Shape'
    BY <1>0, <1>1, <2>2, <2>3 DEF Shape, Open
  <2>c. Kept' /\ Progressed'
    BY <1>0, <1>1, <2>2, <2>3 DEF Kept, Progressed, Wrote
  <2>d. Passed'
    BY <1>0, <1>1, <2>2, <2>3, <2>4 DEF Passed, Settled
  <2>e. Recorded' /\ Followed' /\ LeftTogether'
    BY <1>00, <1>1, <2>2, <2>3 DEF Recorded, Followed, LeftTogether, Reqs, MayLeave, Open
  <2>f. Rows'
    BY <1>00, <1>1, <2>2 DEF Rows, HasRow
  <2>. QED  BY <2>a, <2>b, <2>c, <2>d, <2>e, <2>f DEF IInv
<1>3. CASE ~((at \notin left /\ Verdict # "on") \/ at = Len(program))
  <2>1. Continues(at + 1)
    BY <1>3 DEF EndStep
  <2>. QED  BY <1>1, <1>3, <2>1, ContinuesKeeps
<1>. QED  BY <1>2, <1>3

-----------------------------------------------------------------------------
(* The specification *)

LEMMA InitHolds == Init => IInv
<1>. SUFFICES ASSUME Init PROVE IInv
  OBVIOUS
<1>. DEFINE new == TargetsOf(1, {}, {})
<1>1. program \in Programs /\ 1 \in 1..Len(program) /\ step = program[1]
  BY ProgramSteps DEF Init, step
<1>2. new \in Seq(Servers \X (Items \cup {NoItem})) /\ DOMAIN new \subseteq Nat
  BY <1>1, TargetsOfType
<1>3. /\ at = 1 /\ view = {} /\ found = {} /\ took = {} /\ left = {} /\ answer = "none"
      /\ targets = <<new>> /\ targets[1] = new
      /\ state = <<[i \in DOMAIN new |-> "open"]>> /\ state[1] = [i \in DOMAIN new |-> "open"]
      /\ done = [i \in DOMAIN new |-> 0] /\ indices = DOMAIN new
  BY DEF Init, indices
<1>4. /\ targets = [k \in 1..1 |-> targets[k]] /\ state = [k \in 1..1 |-> state[k]]
      /\ Len(targets) = 1 /\ Len(state) = 1
  BY <1>3
<1>5. Len(step.reqs) \in Nat \ {0}
  BY <1>1, ProgramSteps
<1>a. TypeOK
  BY <1>1, <1>2, <1>3, <1>4, <1>5 DEF TypeOK
<1>b. Shape
  BY <1>1, <1>2, <1>3, <1>4, <1>5 DEF Shape
<1>c. Kept
  BY <1>3 DEF Kept
<1>d. Progressed
  <2>1. \A j \in Due(step) : j \in Nat \ {0}
    BY <1>1, ProgramSteps DEF Due
  <2>. QED  BY <1>3, <2>1 DEF Progressed
<1>e. Passed
  BY <1>3 DEF Passed
<1>f. Recorded /\ Followed /\ LeftTogether
  BY <1>3 DEF Recorded, Followed, LeftTogether
<1>g. Rows
  BY <1>3 DEF Rows
<1>. QED  BY <1>a, <1>b, <1>c, <1>d, <1>e, <1>f, <1>g DEF IInv

LEMMA StepKeeps == IInv /\ [Next]_vars => IInv'
<1>. SUFFICES ASSUME IInv, [Next]_vars PROVE IInv'
  OBVIOUS
<1>1. ASSUME NEW i \in indices, Answers(i) PROVE IInv'
  BY <1>1, AnswersKeeps
<1>2. ASSUME NEW i \in indices, AnswersNothing(i) PROVE IInv'
  BY <1>2, AnswersNothingKeeps
<1>3. ASSUME NEW i \in indices, Refuses(i) PROVE IInv'
  BY <1>3, RefusesKeeps
<1>4. ASSUME NEW i \in indices, GetsLost(i) PROVE IInv'
  BY <1>4, GetsLostKeeps
<1>5. CASE EndStep
  BY <1>5, EndStepKeeps
<1>6. CASE UNCHANGED vars
  <2>1. TypeOK' /\ Shape' /\ Kept' /\ Progressed' /\ Passed'
    BY <1>6 DEF vars, IInv, TypeOK, Shape, Kept, Progressed, Passed, Settled, Wrote,
                step, indices, Open
  <2>2. Recorded' /\ LeftTogether' /\ Followed' /\ Rows'
    BY <1>6 DEF vars, IInv, Recorded, LeftTogether, Followed, Rows, Reqs, MayLeave,
                indices, Open, HasRow
  <2>. QED  BY <2>1, <2>2 DEF IInv
<1>. QED  BY <1>1, <1>2, <1>3, <1>4, <1>5, <1>6 DEF Next

\* The targets and the bookkeeping of a command have their types, for any
\* programs, servers and items that satisfy the assumptions of FanOut.
THEOREM CommandTypes == Spec => []TypeOK
<1>1. IInv => TypeOK
  BY DEF IInv
<1>. QED  BY <1>1, InitHolds, StepKeeps, PTL DEF Spec

\* A command that answers ok has written at every target of each of its strict
\* steps: no master, slave, name server or item that was listed was forgotten,
\* for any commands that are made of such steps, any number of servers and any
\* pattern of refusals and lost requests.
THEOREM AnswersMeanWrites == Spec => []AnsweredMeansTaken
<1>1. IInv => AnsweredMeansTaken
  <2>1. SUFFICES ASSUME IInv, answer = "ok", NEW k \in 1..at \ left, Strict(program[k]),
                        NEW i \in DOMAIN targets[k], NEW j \in Due(program[k])
                 PROVE  Wrote(k, i, j)
    BY DEF AnsweredMeansTaken, IInv
  <2>2. at \in Nat
    BY <2>1, Indices DEF IInv
  <2>3. Firm(program[k]) /\ ~program[k].until
    BY <2>1 DEF Strict, Firm, Handling
  <2>4. Settled(k)
    <3>1. CASE k < at
      BY <2>1, <2>3, <3>1 DEF IInv, Passed
    <3>2. CASE k = at
      BY <2>1, <2>3, <3>2 DEF IInv, Passed, step
    <3>. QED  BY <2>2, <3>1, <3>2
  <2>. QED  BY <2>1, <2>3, <2>4 DEF IInv, Kept, Settled
<1>. QED  BY <1>1, InitHolds, StepKeeps, PTL DEF Spec

-----------------------------------------------------------------------------
(* The commands of the tables *)

\* What was written is a write of a program that has such a step.
LEMMA WroteMeansWrites ==
  ASSUME IInv, NEW k \in 1..at, NEW names, WroteOf(k, names)
  PROVE  k \in DOMAIN program /\ Writes(program[k], names)
<1>1. program \in Programs /\ at \in 1..Len(program)
  BY DEF IInv, Shape, TypeOK
<1>2. k \in DOMAIN program
  BY <1>1, ProgramSteps
<1>3. PICK i \in DOMAIN targets[k], j \in DOMAIN Reqs(k) :
        Reqs(k)[j].of \in names /\ <<k, i, j>> \in took
  BY DEF WroteOf, Wrote
<1>4. Reqs(k)[j].kind = "write"
  <2>1. <<k, i, j>>[1] = k /\ <<k, i, j>>[3] = j
    OBVIOUS
  <2>. QED  BY <1>3, <2>1 DEF IInv, Recorded
<1>. QED  BY <1>2, <1>3, <1>4 DEF Writes, Reqs

\* A step that no failure leaves was not left.
LEMMA NotLeft ==
  ASSUME IInv, NEW e \in 1..at, NeverLeft(program, e)
  PROVE  e \notin left
<1>. SUFFICES ASSUME e \in left PROVE FALSE
  OBVIOUS
<1>1. at \in Nat
  BY Indices DEF IInv
<1>2. PICK h \in 1..at : MayLeave(program, h, e)
  BY DEF IInv, LeftTogether
<1>3. h \in 1..e
  BY <1>1, <1>2 DEF MayLeave
<1>. QED  BY <1>2, <1>3 DEF NeverLeft

\* A message is consumed or sent again only after each query before it has found
\* it, for any commands whose queries may not end without a row, whatever is
\* refused or lost.
THEOREM MessagesFound == Spec => []MessagesAreFoundFirst
<1>1. IInv => MessagesAreFoundFirst
  <2>1. SUFFICES ASSUME IInv, NEW k \in 1..at, WroteOf(k, Messages),
                        NEW q \in 1..k-1, Queries(program[q])
                 PROVE  \E i \in DOMAIN targets[q] : HasRow(q, i)
    BY DEF MessagesAreFoundFirst
  <2>2. at \in Nat /\ program \in Programs
    BY <2>1, Indices DEF IInv, Shape
  <2>3. program[q].noRow # "on" /\ NeverLeft(program, q)
    BY <2>1, <2>2, WroteMeansWrites, QueriesAssumption
  <2>4. q \in 1..at /\ q < at /\ q \notin left
    BY <2>1, <2>2, <2>3, NotLeft
  <2>. QED  BY <2>1, <2>3, <2>4 DEF IInv, Rows
<1>. QED  BY <1>1, InitHolds, StepKeeps, PTL DEF Spec

\* The name servers forget a retry or dead letter topic only when each master that
\* was listed has deleted it, for any commands that leave the name servers with
\* the masters, any number of both, and any pattern of refusals and losses.
THEOREM RoutesLast == Spec => []RoutesOutliveTopics
<1>1. IInv => RoutesOutliveTopics
  <2>1. SUFFICES ASSUME IInv, NEW k \in 2..at, program[k].who = "name servers",
                        WroteOf(k, RouteTopics), NEW i \in DOMAIN targets[k-1]
                 PROVE  Wrote(k-1, i, 1)
    BY DEF RoutesOutliveTopics
  <2>2. at \in Nat /\ program \in Programs /\ k \in 1..at /\ k # 1
    <3>1. at \in Nat /\ program \in Programs
      BY <2>1, Indices DEF IInv, Shape
    <3>2. k \in 2..at
      BY <2>1
    <3>. QED  BY <3>1, <3>2
  <2>3. /\ Firm(program[k-1]) /\ 1 \in Due(program[k-1])
        /\ \A h \in 1..k-1 : MayLeave(program, h, k-1) => MayLeave(program, h, k)
    BY <2>1, <2>2, WroteMeansWrites, RoutesAssumption
  <2>4. k - 1 \notin left
    <3>1. PICK a, j : <<k, a, j>> \in took
      BY <2>1 DEF WroteOf, Wrote
    <3>2. <<k, a, j>>[1] = k
      OBVIOUS
    <3>. QED  BY <2>1, <2>2, <2>3, <3>1, <3>2 DEF IInv, Followed
  <2>5. k - 1 \in 1..at /\ k - 1 < at
    BY <2>2
  <2>6. state[k-1][i] \in {"row", "none"}
    BY <2>1, <2>3, <2>4, <2>5 DEF IInv, Passed, Settled, Firm
  <2>. QED  BY <2>1, <2>3, <2>4, <2>5, <2>6 DEF IInv, Kept
<1>. QED  BY <1>1, InitHolds, StepKeeps, PTL DEF Spec

\* An export that is written covers every broker that was listed, for any commands
\* that drop none of those they read, in pools of any size.
THEOREM ExportsComplete == Spec => []ExportsAreComplete
<1>1. IInv => ExportsAreComplete
  <2>1. SUFFICES ASSUME IInv, NEW k \in 1..at, WroteOf(k, Exports),
                        NEW e \in 1..k-1, ~program[e].until, NEW i \in DOMAIN targets[e]
                 PROVE  HasRow(e, i)
    BY DEF ExportsAreComplete
  <2>2. at \in Nat /\ program \in Programs
    BY <2>1, Indices DEF IInv, Shape
  <2>3. Complete(program[e]) /\ NeverLeft(program, e)
    BY <2>1, <2>2, WroteMeansWrites, ExportsAssumption
  <2>4. e \in 1..at /\ e < at /\ e \notin left
    BY <2>1, <2>2, <2>3, NotLeft
  <2>5. state[e][i] \in {"row", "none"}
    BY <2>1, <2>4 DEF IInv, Passed, Settled
  <2>6. state[e][i] # "none"
    BY <2>1, <2>3, <2>4 DEF IInv, Rows
  <2>. QED  BY <2>5, <2>6 DEF HasRow
<1>. QED  BY <1>1, InitHolds, StepKeeps, PTL DEF Spec
=============================================================================
