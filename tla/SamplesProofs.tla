---------------------------- MODULE SamplesProofs ----------------------------
(***************************************************************************)
(* What holds of the two output files for every set of kinds and entry     *)
(* names, any number of runs and samples, and a program that dies or a     *)
(* statement that fails wherever it may.                                   *)
(***************************************************************************)
EXTENDS Samples, SequenceTheorems, TLAPS

-----------------------------------------------------------------------------
(* The lines of the JSON file *)

Records(n) == [of: 0 .. n, whole: BOOLEAN]

\* The last line with a record r more.
Longer(ls, r) == [ls EXCEPT ![Len(ls)] = Append(@, r)]

\* There is a whole record of sample n on some line.
HasWhole(ls, n) ==
  \E i \in DOMAIN ls : \E j \in DOMAIN ls[i] : ls[i][j] = [of |-> n, whole |-> TRUE]

\* No line has two records.
OneEach(ls) == \A i \in DOMAIN ls : Len(ls[i]) <= 1

LEMMA TablesLen == Len(Tables) = 13
  BY DEF Tables

LEMMA FreshFile ==
  ASSUME NEW R
  PROVE  <<<<>>>> \in Seq(Seq(R)) /\ <<<<>>>> # <<>> /\ OneEach(<<<<>>>>)
<1>1. <<>> \in Seq(R)
  OBVIOUS
<1> DEFINE e == <<>>
<1> HIDE DEF e
<1>2. <<e>> # <<>> /\ Len(<<e>>) = 1 /\ <<e>>[1] = e /\ DOMAIN <<e>> = {1}
  OBVIOUS
<1>3. Len(e) = 0
  BY DEF e
<1>4. <<e>> \in Seq(Seq(R))
  BY <1>1 DEF e
<1>5. QED
  BY <1>2, <1>3, <1>4 DEF OneEach, e

\* A new line.
LEMMA NewLine ==
  ASSUME NEW R, NEW ls \in Seq(Seq(R))
  PROVE  /\ Append(ls, <<>>) \in Seq(Seq(R)) /\ Append(ls, <<>>) # <<>>
         /\ Len(Append(ls, <<>>)) = Len(ls) + 1
         /\ Append(ls, <<>>)[Len(ls) + 1] = <<>>
         /\ OneEach(ls) => OneEach(Append(ls, <<>>))
         /\ \A n : HasWhole(ls, n) => HasWhole(Append(ls, <<>>), n)
<1> DEFINE e == <<>>
           p == Append(ls, e)
<1>1. e \in Seq(R) /\ Len(e) = 0
  OBVIOUS
<1> HIDE DEF e
<1>2. /\ p \in Seq(Seq(R)) /\ p # <<>> /\ Len(p) = Len(ls) + 1 /\ p[Len(ls) + 1] = e
      /\ \A i \in 1 .. Len(ls) : p[i] = ls[i]
  BY <1>1, AppendProperties
<1> HIDE DEF p
<1>3. DOMAIN p = 1 .. Len(ls) + 1 /\ DOMAIN ls = 1 .. Len(ls) /\ Len(ls) \in Nat
  BY <1>2
<1>4. OneEach(ls) => OneEach(p)
  <2>1. \A i \in DOMAIN p : i = Len(ls) + 1 \/ (i \in DOMAIN ls /\ p[i] = ls[i])
    BY <1>2, <1>3
  <2>2. Len(p[Len(ls) + 1]) <= 1
    BY <1>1, <1>2
  <2>3. QED
    BY <2>1, <2>2 DEF OneEach
<1>5. \A n : HasWhole(ls, n) => HasWhole(p, n)
  <2>1. \A i \in DOMAIN ls : i \in DOMAIN p /\ p[i] = ls[i]
    BY <1>2, <1>3
  <2>2. QED
    BY <2>1 DEF HasWhole
<1>6. QED
  BY <1>2, <1>4, <1>5 DEF p, e

\* A record on the last line.
LEMMA LongerLine ==
  ASSUME NEW R, NEW ls \in Seq(Seq(R)), ls # <<>>, NEW r \in R
  PROVE  /\ Longer(ls, r) \in Seq(Seq(R)) /\ Longer(ls, r) # <<>>
         /\ OneEach(ls) /\ ls[Len(ls)] = <<>> => OneEach(Longer(ls, r))
         /\ \A n : HasWhole(ls, n) => HasWhole(Longer(ls, r), n)
         /\ \A n : r = [of |-> n, whole |-> TRUE] => HasWhole(Longer(ls, r), n)
<1> DEFINE m == Len(ls)
           l == ls[m]
           a == Append(l, r)
           p == [ls EXCEPT ![m] = a]
<1>1. m \in 1 .. m /\ m \in Nat /\ DOMAIN ls = 1 .. m /\ l \in Seq(R)
  OBVIOUS
<1>2. /\ a \in Seq(R) /\ Len(a) = Len(l) + 1 /\ a[Len(l) + 1] = r
      /\ \A j \in 1 .. Len(l) : a[j] = l[j]
  BY <1>1, AppendProperties
<1>3. DOMAIN a = 1 .. Len(l) + 1 /\ DOMAIN l = 1 .. Len(l) /\ Len(l) \in Nat
  BY <1>1, <1>2
<1>4. p \in Seq(Seq(R)) /\ DOMAIN p = 1 .. m /\ Len(p) = m /\ p[m] = a
      /\ \A i \in 1 .. m : i # m => p[i] = ls[i]
  <2> HIDE DEF a
  <2>1. p \in Seq(Seq(R)) /\ Len(p) = m
    BY <1>1, <1>2
  <2>2. QED
    BY <1>1, <2>1
<1>5. p = Longer(ls, r)
  BY DEF Longer
<1> HIDE DEF a, p, m
<1>6. p # <<>>
  <2>1. Len(p) # 0
    BY <1>1, <1>4
  <2>2. QED
    BY <2>1, <1>4, EmptySeq
<1>7. OneEach(ls) /\ l = <<>> => OneEach(p)
  <2> SUFFICES ASSUME OneEach(ls), l = <<>>, NEW i \in 1 .. m PROVE Len(p[i]) <= 1
    BY <1>4 DEF OneEach
  <2>1. Len(a) = 1
    BY <1>2
  <2>2. i # m => Len(ls[i]) <= 1 /\ p[i] = ls[i]
    BY <1>1, <1>4 DEF OneEach
  <2>3. CASE i = m
    <3>1. p[i] = a
      BY <1>4, <2>3
    <3>2. Len(p[i]) = 1
      BY <2>1, <3>1, Zenon
    <3>3. QED
      BY <3>2
  <2>4. CASE i # m
    BY <2>2, <2>4
  <2>5. QED
    BY <2>3, <2>4
<1>8. ASSUME NEW n, HasWhole(ls, n) PROVE HasWhole(p, n)
  <2>1. PICK i \in DOMAIN ls : \E j \in DOMAIN ls[i] : ls[i][j] = [of |-> n, whole |-> TRUE]
    BY <1>8 DEF HasWhole
  <2>2. \E j \in DOMAIN p[i] : p[i][j] = [of |-> n, whole |-> TRUE]
    <3>1. CASE i = m
      <4>1. \A j \in DOMAIN l : j \in DOMAIN a /\ a[j] = l[j]
        BY <1>2, <1>3
      <4>2. QED
        BY <1>4, <2>1, <3>1, <4>1
    <3>2. CASE i # m
      BY <1>1, <1>4, <2>1, <3>2
    <3>3. QED
      BY <3>1, <3>2
  <2>3. QED
    BY <1>1, <1>4, <2>1, <2>2 DEF HasWhole
<1>9. ASSUME NEW n, r = [of |-> n, whole |-> TRUE] PROVE HasWhole(p, n)
  <2>1. Len(l) + 1 \in DOMAIN a /\ a[Len(l) + 1] = [of |-> n, whole |-> TRUE]
    BY <1>2, <1>3, <1>9
  <2>2. QED
    BY <1>1, <1>4, <2>1 DEF HasWhole
<1>10. QED
  BY <1>4, <1>5, <1>6, <1>7, <1>8, <1>9 DEF m

\* Records of fewer samples are records.
LEMMA MoreSamples ==
  ASSUME NEW n \in Nat, NEW ls \in Seq(Seq(Records(n)))
  PROVE  ls \in Seq(Seq(Records(n + 1)))
<1>1. Records(n) \subseteq Records(n + 1)
  BY DEF Records
<1>2. Seq(Records(n)) \subseteq Seq(Records(n + 1))
  BY <1>1, SeqMonotonic
<1>3. QED
  BY <1>2, SeqMonotonic

-----------------------------------------------------------------------------
(* Type correctness *)

\* What the stages say of the step and the sample at hand.
StageInv ==
  /\ stage \in {"removing", "create"} => step \in 1 .. Len(Tables)
  /\ stage \in {"print", "push", "store"} => taken # 0
  /\ stage = "removing" => rows = {}

TypeInv == TypeOK /\ StageInv

\* The JSON file as PrintRecord and PrintTorn find it.
LEMMA OpenedType ==
  ASSUME NEW R, lines \in Seq(Seq(R)), lines # <<>>
  PROVE  /\ Opened \in Seq(Seq(R)) /\ Opened # <<>>
         /\ OneEach(lines) => OneEach(Opened)
         /\ \A n : HasWhole(lines, n) => HasWhole(Opened, n)
<1>1. Opened = lines \/ Opened = Append(lines, <<>>)
  BY DEF Opened
<1>2. QED
  BY <1>1, NewLine

\* What a record of n that is written does to the file.
LEMMA WrittenType ==
  ASSUME TypeOK, NEW n \in 0 .. taken, NEW whole \in BOOLEAN
  PROVE  /\ With(Opened, n, whole) = Longer(Opened, [of |-> n, whole |-> whole])
         /\ [of |-> n, whole |-> whole] \in Records(taken)
         /\ With(Opened, n, whole) \in Seq(Seq(Records(taken))) /\ With(Opened, n, whole) # <<>>
         /\ \A k : HasWhole(lines, k) => HasWhole(With(Opened, n, whole), k)
         /\ whole => HasWhole(With(Opened, n, whole), n)
<1> DEFINE r == [of |-> n, whole |-> whole]
<1>1. With(Opened, n, whole) = Longer(Opened, r)
  BY DEF With, Longer
<1>2. lines \in Seq(Seq(Records(taken))) /\ lines # <<>>
  BY DEF TypeOK, Records
<1>3. /\ Opened \in Seq(Seq(Records(taken))) /\ Opened # <<>>
      /\ \A k : HasWhole(lines, k) => HasWhole(Opened, k)
  BY <1>2, OpenedType
<1>4. r \in Records(taken) /\ (whole => r = [of |-> n, whole |-> TRUE])
  BY DEF Records
<1> HIDE DEF r
<1>5. /\ Longer(Opened, r) \in Seq(Seq(Records(taken))) /\ Longer(Opened, r) # <<>>
      /\ \A k : HasWhole(Opened, k) => HasWhole(Longer(Opened, r), k)
      /\ \A k : r = [of |-> k, whole |-> TRUE] => HasWhole(Longer(Opened, r), k)
  BY <1>3, <1>4, LongerLine
<1>6. QED
  BY <1>1, <1>3, <1>4, <1>5 DEF r

\* Every line that is ended keeps what is written.
LEMMA EndedType ==
  ASSUME TypeOK, NEW n \in 0 .. taken, NEW whole \in BOOLEAN
  PROVE  LET ls == Append(With(Opened, n, whole), <<>>) IN
         /\ ls \in Seq(Seq(Records(taken))) /\ ls # <<>> /\ ls[Len(ls)] = <<>>
         /\ OneEach(With(Opened, n, whole)) => OneEach(ls)
         /\ \A k : HasWhole(With(Opened, n, whole), k) => HasWhole(ls, k)
<1> DEFINE w == With(Opened, n, whole)
           ls == Append(w, <<>>)
<1>1. w \in Seq(Seq(Records(taken)))
  BY WrittenType
<1> HIDE DEF w
<1>2. /\ ls \in Seq(Seq(Records(taken))) /\ ls # <<>> /\ Len(ls) = Len(w) + 1
      /\ ls[Len(w) + 1] = <<>>
      /\ OneEach(w) => OneEach(ls)
      /\ \A k : HasWhole(w, k) => HasWhole(ls, k)
  BY <1>1, NewLine
<1>3. ls[Len(ls)] = <<>>
  BY <1>2
<1>4. QED
  BY <1>2, <1>3 DEF w

\* A record that is printed, or torn, whatever it is of.
LEMMA PrintedLines ==
  ASSUME TypeOK, NEW n \in 0 .. taken, WriteJson(n)
  PROVE  /\ lines' \in Seq(Seq(Records(taken))) /\ lines' # <<>> /\ opened' = TRUE
         /\ \A k : HasWhole(lines, k) => HasWhole(lines', k)
         /\ Output = "FilePath" => HasWhole(lines', n)
<1>1. opened' = TRUE
      /\ lines' = IF Output = "FilePath" THEN Append(With(Opened, n, TRUE), <<>>) ELSE lines
  BY DEF WriteJson
<1>2. lines \in Seq(Seq(Records(taken))) /\ lines # <<>>
  BY DEF TypeOK, Records
<1>3. CASE Output = "FilePath"
  <2>1. /\ \A k : HasWhole(lines, k) => HasWhole(With(Opened, n, TRUE), k)
        /\ HasWhole(With(Opened, n, TRUE), n)
    BY WrittenType
  <2>2. /\ lines' \in Seq(Seq(Records(taken))) /\ lines' # <<>>
        /\ \A k : HasWhole(With(Opened, n, TRUE), k) => HasWhole(lines', k)
    BY <1>1, <1>3, EndedType
  <2>3. QED
    BY <1>1, <2>1, <2>2
<1>4. CASE Output # "FilePath"
  BY <1>1, <1>2, <1>4
<1>5. QED
  BY <1>3, <1>4

LEMMA TornLines ==
  ASSUME TypeOK, NEW n \in 0 .. taken, Tear(n)
  PROVE  /\ lines' \in Seq(Seq(Records(taken))) /\ lines' # <<>>
         /\ \A k : HasWhole(lines, k) => HasWhole(lines', k)
         /\ stage' = "off" /\ Output = "FilePath" /\ lines' = With(Opened, n, FALSE)
         /\ UNCHANGED <<run, step, taken, sample, inited, failed, opened, tables, rows>>
<1>1. /\ stage' = "off" /\ Output = "FilePath" /\ lines' = With(Opened, n, FALSE)
      /\ UNCHANGED <<run, step, taken, sample, inited, failed, opened, tables, rows>>
  BY DEF Tear, Goto, database
<1>2. QED
  BY <1>1, WrittenType

\* A session and the sample at hand have a record's number.
LEMMA RecordNumbers ==
  ASSUME TypeOK
  PROVE  OfSession \in 0 .. taken /\ taken \in 0 .. taken
  BY DEF TypeOK, OfSession

LEMMA InitTypes == Init => TypeInv
<1> SUFFICES ASSUME Init PROVE TypeInv
  OBVIOUS
<1>1. lines \in Seq(Seq([of: 0 .. taken, whole: BOOLEAN])) /\ lines # <<>>
  BY FreshFile DEF Init
<1>2. rows = {} /\ run = 0 /\ stage = "off" /\ step = 0 /\ tables = 0 /\ taken = 0
      /\ sample = NoSample /\ inited = FALSE /\ failed = FALSE /\ opened = FALSE
  BY DEF Init
<1>3. TypeOK
  <2>1. tables \in 0 .. Len(Tables) /\ run \in Nat /\ step \in Nat /\ taken \in Nat
    BY <1>2, TablesLen
  <2>2. rows \subseteq [sample: 1 .. taken, at: Nat] /\ stage \in Stages
    BY <1>2 DEF Stages
  <2>3. sample \in Contents \cup {NoSample} /\ inited \in BOOLEAN
        /\ failed \in BOOLEAN /\ opened \in BOOLEAN
    BY <1>2
  <2>4. QED
    BY <1>1, <2>1, <2>2, <2>3 DEF TypeOK
<1>4. QED
  BY <1>2, <1>3 DEF TypeInv, StageInv

LEMMA NextTypes == TypeInv /\ [Next]_vars => TypeInv'
<1> SUFFICES ASSUME TypeInv, [Next]_vars PROVE TypeInv'
  OBVIOUS
<1> DEFINE Lines(n) == Seq(Seq([of: 0 .. n, whole: BOOLEAN]))
<1>1. TypeOK /\ StageInv /\ taken \in Nat /\ lines \in Lines(taken) /\ lines # <<>>
  BY DEF TypeInv, TypeOK
<1>2. <<<<>>>> \in Lines(taken) /\ <<<<>>>> # <<>>
  BY FreshFile
<1>3. Len(Tables) = 13
  BY TablesLen
<1>4. \A n : Lines(n) = Seq(Seq(Records(n)))
  BY DEF Records
<1> HIDE DEF Lines
<1> SUFFICES TypeOK' /\ StageInv'
  BY DEF TypeInv
<1>5. CASE StartProgram
  <2>1. /\ run' = run + 1 /\ step' = 1 /\ sample' = NoSample
        /\ inited' = FALSE /\ failed' = FALSE /\ opened' = FALSE /\ taken' = taken
    BY <1>5 DEF StartProgram, Started, NewQuery
  <2>2. \/ stage' = "removing" /\ tables' = 0 /\ rows' = {} /\ lines' = lines
        \/ stage' \in {"create", "ready"} /\ tables' = tables /\ rows' = rows /\ lines' = lines
        \/ stage' \in {"create", "ready"} /\ tables' = 0 /\ rows' = {} /\ lines' = lines
    BY <1>5 DEF StartProgram, Goto, Opening, RemoveFirst, database
  <2>3. run \in Nat /\ tables \in 0 .. 13 /\ rows \subseteq [sample: 1 .. taken, at: Nat]
    BY <1>1, <1>3 DEF TypeOK
  <2>4. TypeOK'
    <3>1. tables' \in 0 .. Len(Tables) /\ run' \in Nat /\ step' \in Nat /\ taken' \in Nat
      BY <1>1, <1>3, <2>1, <2>2, <2>3
    <3>2. rows' \subseteq [sample: 1 .. taken', at: Nat] /\ stage' \in Stages
      BY <2>1, <2>2, <2>3 DEF Stages
    <3>3. lines' \in Lines(taken') /\ lines' # <<>>
      BY <1>1, <2>1, <2>2
    <3>4. QED
      BY <2>1, <3>1, <3>2, <3>3 DEF TypeOK, Lines
  <2>5. QED
    BY <1>3, <2>1, <2>2, <2>4 DEF StageInv
<1>6. CASE RemoveJson
  <2>1. /\ stage = "removing" /\ stage' \in {"create", "ready"} /\ lines' = <<<<>>>>
        /\ UNCHANGED <<run, step, taken, sample, inited, failed, opened, tables, rows>>
    BY <1>6 DEF RemoveJson, Goto, Opening, RemoveSecond, database
  <2>2. TypeOK'
    BY <1>1, <1>2, <2>1 DEF TypeOK, Stages, Lines
  <2>3. QED
    BY <1>1, <2>1, <2>2 DEF StageInv
<1>7. CASE StopProgram
  <2>1. stage' = "off"
        /\ UNCHANGED <<run, step, taken, sample, inited, failed, opened, tables, rows, lines>>
    BY <1>7 DEF StopProgram, Goto, database
  <2>2. QED
    BY <1>1, <2>1 DEF TypeOK, StageInv, Stages
<1>8. CASE CreateTable
  <2>1. stage = "create" /\ UNCHANGED <<run, taken, sample, opened, rows, lines>>
    BY <1>8 DEF CreateTable
  <2>2. step \in 1 .. 13 /\ tables \in 0 .. 13
    BY <1>1, <1>3, <2>1 DEF StageInv, TypeOK
  <2>3. \/ /\ tables' = IF step > tables THEN step ELSE tables
           /\ step' = step + 1
           /\ IF step = 13 THEN stage' = "ready" /\ inited' = TRUE
              ELSE UNCHANGED <<stage, inited>>
           /\ UNCHANGED failed
        \/ /\ stage' = "ready" /\ step' = step /\ failed' \in BOOLEAN
           /\ UNCHANGED <<tables, inited>>
    BY <1>1, <1>3, <1>8 DEF CreateTable, AfterFailure, Goto, TypeOK
  <2>4. TypeOK'
    <3>1. tables' \in 0 .. Len(Tables) /\ step' \in Nat
      BY <1>3, <2>2, <2>3
    <3>2. inited' \in BOOLEAN /\ failed' \in BOOLEAN /\ stage' \in Stages
      BY <1>1, <2>1, <2>3 DEF TypeOK, Stages
    <3>3. QED
      BY <1>1, <2>1, <3>1, <3>2 DEF TypeOK
  <2>5. stage' \in {"create", "ready"} /\ (stage' = "create" => step' \in 1 .. 13)
    BY <2>1, <2>2, <2>3
  <2>6. QED
    BY <1>3, <2>4, <2>5 DEF StageInv
<1>9. ASSUME NEW s \in Contents, ProcessData(s) PROVE TypeOK' /\ StageInv'
  <2>1. /\ stage' = "print" /\ sample' = s /\ taken' = taken + 1
        /\ UNCHANGED <<run, step, inited, failed, opened, tables, rows, lines>>
    BY <1>9 DEF ProcessData, Goto, database
  <2>2. lines' \in Lines(taken')
    BY <1>1, <1>4, <2>1, MoreSamples
  <2>3. rows' \subseteq [sample: 1 .. taken', at: Nat]
    <3>1. rows \subseteq [sample: 1 .. taken, at: Nat] /\ 1 .. taken \subseteq 1 .. taken'
      BY <1>1, <2>1 DEF TypeOK
    <3>2. QED
      BY <2>1, <3>1
  <2>4. QED
    BY <1>1, <2>1, <2>2, <2>3 DEF TypeOK, StageInv, Stages, Lines
<1>10. CASE SetSession \/ PrintRecord
  <2>1. /\ \/ stage = "ready" /\ stage' = "ready" /\ WriteJson(OfSession)
           \/ stage = "print" /\ stage' = "push" /\ WriteJson(taken)
        /\ UNCHANGED <<run, step, taken, sample, inited, failed, tables, rows>>
    BY <1>10 DEF SetSession, Accepts, PrintRecord, Goto, database
  <2>2. lines' \in Lines(taken) /\ lines' # <<>> /\ opened' = TRUE
    BY <1>1, <1>4, <2>1, PrintedLines, RecordNumbers
  <2>3. QED
    BY <1>1, <2>1, <2>2 DEF TypeOK, StageInv, Stages, Lines
<1>11. CASE SetSessionTorn \/ PrintTorn
  <2>1. PICK n \in 0 .. taken : Tear(n)
    BY <1>1, <1>11, RecordNumbers DEF SetSessionTorn, PrintTorn
  <2>2. /\ lines' \in Lines(taken) /\ lines' # <<>> /\ stage' = "off"
        /\ UNCHANGED <<run, step, taken, sample, inited, failed, opened, tables, rows>>
    BY <1>1, <1>4, <2>1, TornLines
  <2>3. QED
    BY <1>1, <2>2 DEF TypeOK, StageInv, Stages, Lines
<1>12. CASE PushAddData
  <2>1. /\ stage = "push" /\ stage' \in {"store", "ready"} /\ step' = 1
        /\ UNCHANGED <<run, taken, sample, inited, failed, opened, tables, rows, lines>>
    BY <1>12 DEF PushAddData, Goto, NewQuery, database
  <2>2. QED
    BY <1>1, <2>1 DEF TypeOK, StageInv, Stages
<1>13. CASE AddData
  <2>1. /\ stage = "store" /\ stage' \in {"store", "ready"} /\ step' \in {step, step + 1}
        /\ rows' = rows \cup {[sample |-> taken, at |-> step]} \/ rows' = rows
        /\ failed' = TRUE \/ failed' = failed
        /\ UNCHANGED <<run, taken, sample, inited, opened, tables, lines>>
    BY <1>13 DEF AddData, AfterFailure, Goto
  <2>2. taken \in 1 .. taken /\ step \in Nat
    BY <1>1, <2>1 DEF StageInv, TypeOK
  <2>3. rows' \subseteq [sample: 1 .. taken, at: Nat] /\ step' \in Nat
    BY <1>1, <2>1, <2>2 DEF TypeOK
  <2>4. QED
    BY <1>1, <2>1, <2>2, <2>3 DEF TypeOK, StageInv, Stages
<1>14. CASE UNCHANGED vars
  BY <1>1, <1>14 DEF TypeOK, StageInv, vars, process, database
<1>15. QED
  BY <1>5, <1>6, <1>7, <1>8, <1>9, <1>10, <1>11, <1>12, <1>13, <1>14 DEF Next

LEMMA TypesKept == Spec => []TypeInv
  BY InitTypes, NextTypes, PTL DEF Spec

\* Every variable keeps its type, for every set of kinds and names and any number
\* of runs; the last line of the JSON file is always there.
THEOREM TypeCorrect == Spec => []TypeOK
<1>1. TypeInv => TypeOK
  BY DEF TypeInv
<1>2. QED
  BY <1>1, TypesKept, PTL

-----------------------------------------------------------------------------
(* The JSON file is ahead of the database *)

\* A record is whole before the first row of its sample is stored, and rows go
\* before records when both files are removed.
AheadInv ==
  Output = "FilePath" =>
    /\ \A x \in rows : HasWhole(lines, x.sample)
    /\ stage \in {"push", "store"} => HasWhole(lines, taken)

LEMMA AheadNext == TypeInv /\ AheadInv /\ [Next]_vars => AheadInv'
<1> SUFFICES ASSUME TypeInv, AheadInv, [Next]_vars, Output = "FilePath"
             PROVE  /\ \A x \in rows' : HasWhole(lines', x.sample)
                    /\ stage' \in {"push", "store"} => HasWhole(lines', taken')
  BY DEF AheadInv
<1>1. /\ TypeOK /\ StageInv
      /\ \A x \in rows : HasWhole(lines, x.sample)
      /\ stage \in {"push", "store"} => HasWhole(lines, taken)
  BY DEF TypeInv, AheadInv
<1>2. CASE StartProgram
  <2>1. stage' \in {"removing", "create", "ready"} /\ lines' = lines /\ rows' \in {rows, {}}
    BY <1>2 DEF StartProgram, Goto, Opening, RemoveFirst, database
  <2>2. QED
    BY <1>1, <2>1
<1>3. CASE RemoveJson
  <2>1. stage = "removing" /\ stage' \in {"create", "ready"} /\ rows' = rows
    BY <1>3 DEF RemoveJson, Goto, Opening, RemoveSecond, database
  <2>2. QED
    BY <1>1, <2>1 DEF StageInv
<1>4. CASE StopProgram \/ CreateTable \/ (\E s \in Contents : ProcessData(s))
  <2>1. /\ stage' \notin {"push", "store"} /\ UNCHANGED <<rows, lines>>
    BY <1>4 DEF StopProgram, CreateTable, AfterFailure, ProcessData, Goto, database
  <2>2. QED
    BY <1>1, <2>1
<1>5. CASE SetSession \/ PrintRecord
  <2>1. /\ \/ stage = "ready" /\ stage' = "ready" /\ WriteJson(OfSession)
           \/ stage' = "push" /\ WriteJson(taken)
        /\ UNCHANGED <<rows, taken>>
    BY <1>5 DEF SetSession, Accepts, PrintRecord, Goto, database
  <2>2. \A n : HasWhole(lines, n) => HasWhole(lines', n)
    BY <1>1, <2>1, PrintedLines, RecordNumbers
  <2>3. stage' = "push" => HasWhole(lines', taken)
    BY <1>1, <2>1, PrintedLines, RecordNumbers
  <2>4. QED
    BY <1>1, <2>1, <2>2, <2>3
<1>6. CASE SetSessionTorn \/ PrintTorn
  <2>1. PICK n \in 0 .. taken : Tear(n)
    BY <1>1, <1>6, RecordNumbers DEF SetSessionTorn, PrintTorn
  <2>2. QED
    BY <1>1, <2>1, TornLines
<1>7. CASE PushAddData
  <2>1. stage = "push" /\ UNCHANGED <<rows, lines, taken>>
    BY <1>7 DEF PushAddData, database
  <2>2. QED
    BY <1>1, <2>1
<1>8. CASE AddData
  <2>1. /\ stage = "store" /\ UNCHANGED <<lines, taken>>
        /\ rows' = rows \cup {[sample |-> taken, at |-> step]} \/ rows' = rows
    BY <1>8 DEF AddData
  <2>2. QED
    BY <1>1, <2>1
<1>9. CASE UNCHANGED vars
  BY <1>1, <1>9 DEF vars, process, database
<1>10. QED
  BY <1>2, <1>3, <1>4, <1>5, <1>6, <1>7, <1>8, <1>9 DEF Next

\* Whatever the database has of a sample, the JSON file has its whole record,
\* wherever runs of the program died, also while --init removed the two files
\* (Application's constructor, doProcessData).
THEOREM JsonFirst == Spec => []JsonAhead
<1>1. Init => AheadInv
  BY DEF Init, AheadInv
<1>2. AheadInv => JsonAhead
  BY DEF AheadInv, JsonAhead, HasWhole
<1>3. QED
  BY <1>1, <1>2, AheadNext, TypesKept, PTL DEF Spec

-----------------------------------------------------------------------------
(* A record has its line for itself *)

\* The writer of a run has ended the last line.
LinesInv ==
  /\ OneEach(lines)
  /\ Output = "FilePath" /\ opened /\ stage # "off" => lines[Len(lines)] = <<>>

\* The line a record is written on is empty, whoever left it.
LEMMA OpenedEmpty ==
  ASSUME TypeOK, LinesInv, Output = "FilePath", stage # "off"
  PROVE  OneEach(Opened) /\ Opened[Len(Opened)] = <<>>
<1>1. lines \in Seq(Seq([of: 0 .. taken, whole: BOOLEAN])) /\ OneEach(lines)
  BY DEF TypeOK, LinesInv
<1>2. CASE opened
  BY <1>1, <1>2 DEF Opened, LinesInv
<1>3. CASE lines = <<<<>>>>
  <2>1. Len(<<<<>>>>) = 1 /\ <<<<>>>>[1] = <<>>
    OBVIOUS
  <2>2. QED
    BY <1>1, <1>3, <2>1 DEF Opened
<1>4. CASE ~opened /\ lines # <<<<>>>>
  <2>1. Opened = Append(lines, <<>>)
    BY <1>4 DEF Opened
  <2>2. QED
    BY <1>1, <2>1, NewLine
<1>5. QED
  BY <1>2, <1>3, <1>4

LEMMA WrittenOne ==
  ASSUME TypeOK, LinesInv, Output = "FilePath", stage # "off",
         NEW n \in 0 .. taken, NEW whole \in BOOLEAN
  PROVE  OneEach(With(Opened, n, whole))
<1> DEFINE r == [of |-> n, whole |-> whole]
<1>1. Opened \in Seq(Seq(Records(taken))) /\ Opened # <<>>
  BY OpenedType DEF TypeOK, Records
<1>2. r \in Records(taken) /\ With(Opened, n, whole) = Longer(Opened, r)
  BY WrittenType
<1> HIDE DEF r
<1>3. QED
  BY <1>1, <1>2, OpenedEmpty, LongerLine

LEMMA LinesNext == TypeInv /\ LinesInv /\ [Next]_vars => LinesInv'
<1> SUFFICES ASSUME TypeInv, LinesInv, [Next]_vars PROVE LinesInv'
  OBVIOUS
<1>1. TypeOK /\ StageInv
  BY DEF TypeInv
<1>2. CASE StartProgram
  <2>1. opened' = FALSE /\ lines' = lines
    BY <1>2 DEF StartProgram, Started, RemoveFirst
  <2>2. QED
    BY <2>1 DEF LinesInv
<1>3. CASE RemoveJson
  <2>1. lines' = <<<<>>>>
    BY <1>3 DEF RemoveJson, RemoveSecond
  <2>2. Len(<<<<>>>>) = 1 /\ <<<<>>>>[1] = <<>>
    OBVIOUS
  <2>3. QED
    BY <2>1, <2>2, FreshFile DEF LinesInv
<1>4. CASE StopProgram
  BY <1>4 DEF StopProgram, Goto, LinesInv
<1>5. CASE CreateTable \/ (\E s \in Contents : ProcessData(s)) \/ PushAddData \/ AddData
  <2>1. stage # "off" /\ UNCHANGED <<opened, lines>>
    BY <1>5 DEF CreateTable, ProcessData, PushAddData, AddData
  <2>2. QED
    BY <2>1 DEF LinesInv
<1>6. CASE SetSession \/ PrintRecord
  <2>1. PICK n \in 0 .. taken : WriteJson(n)
    BY <1>1, <1>6, RecordNumbers DEF SetSession, PrintRecord
  <2>2. stage # "off"
    BY <1>6 DEF SetSession, Accepts, PrintRecord
  <2>3. CASE Output = "FilePath"
    <3>1. OneEach(With(Opened, n, TRUE)) /\ lines' = Append(With(Opened, n, TRUE), <<>>)
      BY <1>1, <2>1, <2>2, <2>3, WrittenOne DEF WriteJson
    <3>2. OneEach(lines') /\ lines'[Len(lines')] = <<>>
      BY <1>1, <3>1, EndedType
    <3>3. QED
      BY <3>2 DEF LinesInv
  <2>4. CASE Output # "FilePath"
    BY <2>1, <2>4 DEF LinesInv, WriteJson
  <2>5. QED
    BY <2>3, <2>4
<1>7. CASE SetSessionTorn \/ PrintTorn
  <2>1. PICK n \in 0 .. taken : Tear(n)
    BY <1>1, <1>7, RecordNumbers DEF SetSessionTorn, PrintTorn
  <2>2. stage # "off"
    BY <1>7 DEF SetSessionTorn, Accepts, PrintTorn
  <2>3. stage' = "off" /\ Output = "FilePath" /\ lines' = With(Opened, n, FALSE)
    BY <1>1, <2>1, TornLines
  <2>4. OneEach(lines')
    BY <1>1, <2>2, <2>3, WrittenOne
  <2>5. QED
    BY <2>3, <2>4 DEF LinesInv
<1>8. CASE UNCHANGED vars
  BY <1>8 DEF LinesInv, vars, process
<1>9. QED
  BY <1>2, <1>3, <1>4, <1>5, <1>6, <1>7, <1>8 DEF Next

\* A record that was torn by the end of a run costs no other record, however many
\* runs died over the same line (JsonWriter's constructor).
THEOREM OwnLineKept == Spec => []OwnLine
<1>1. Init => LinesInv
  BY FreshFile DEF Init, LinesInv
<1>2. TypeOK /\ LinesInv => OwnLine
  <2> SUFFICES ASSUME TypeOK, LinesInv, NEW i \in DOMAIN lines, NEW j \in DOMAIN lines[i]
               PROVE  Len(lines[i]) = 1
    BY DEF OwnLine
  <2>1. lines[i] \in Seq([of: 0 .. taken, whole: BOOLEAN])
    BY DEF TypeOK
  <2> DEFINE n == Len(lines[i])
  <2>2. n \in Nat /\ j \in 1 .. n
    BY <2>1
  <2>3. n <= 1
    BY DEF LinesInv, OneEach
  <2> HIDE DEF n
  <2>4. n = 1
    BY <2>2, <2>3
  <2>5. QED
    BY <2>4 DEF n
<1>3. QED
  BY <1>1, <1>2, LinesNext, TypesKept, TypeCorrect, PTL DEF Spec

-----------------------------------------------------------------------------
(* The rows of a sample *)

\* The rows before the statement that comes next are there.
StoredInv ==
  /\ RowsPrefix
  /\ stage = "store" => /\ step # 0
                        /\ \A n \in 1 .. step - 1 : [sample |-> taken, at |-> n] \in rows

LEMMA StoredNext == TypeInv /\ StoredInv /\ [Next]_vars => StoredInv'
<1> SUFFICES ASSUME TypeInv, StoredInv, [Next]_vars PROVE StoredInv'
  OBVIOUS
<1>1. TypeOK /\ StageInv
  BY DEF TypeInv
<1>2. CASE StartProgram
  <2>1. stage' # "store" /\ rows' \in {rows, {}}
    BY <1>2 DEF StartProgram, Goto, Opening, RemoveFirst, database
  <2>2. QED
    BY <2>1 DEF StoredInv, RowsPrefix
<1>3. CASE RemoveJson \/ StopProgram \/ CreateTable \/ (\E s \in Contents : ProcessData(s))
           \/ SetSession \/ SetSessionTorn \/ PrintRecord \/ PrintTorn
  <2>1. stage' # "store" /\ rows' = rows
    BY <1>3 DEF RemoveJson, Opening, RemoveSecond, StopProgram, CreateTable, AfterFailure,
       ProcessData, SetSession, Accepts, SetSessionTorn, PrintRecord, PrintTorn, Tear, Goto,
       database
  <2>2. QED
    BY <2>1 DEF StoredInv, RowsPrefix
<1>4. CASE PushAddData
  <2>1. step' = 1 /\ rows' = rows
    BY <1>4 DEF PushAddData, NewQuery, database
  <2>2. \A n \in 1 .. step' - 1 : FALSE
    BY <2>1
  <2>3. QED
    BY <2>1, <2>2 DEF StoredInv, RowsPrefix
<1>5. CASE AddData
  <2> DEFINE r == [sample |-> taken, at |-> step]
  <2>1. /\ stage = "store" /\ taken' = taken
        /\ \/ rows' = rows \cup {r} /\ (stage' = "store" => step' = step + 1)
           \/ rows' = rows /\ stage' = "ready"
    BY <1>5 DEF AddData, AfterFailure, Goto
  <2>2. /\ step \in Nat /\ step # 0
        /\ \A n \in 1 .. step - 1 : [sample |-> taken, at |-> n] \in rows
    BY <1>1, <2>1 DEF TypeOK, StoredInv
  <2>3. \A n : [r EXCEPT !.at = n] = [sample |-> taken, at |-> n]
    OBVIOUS
  <2>4. r.at = step
    OBVIOUS
  <2> HIDE DEF r
  <2>5. CASE rows' = rows \cup {r} /\ (stage' = "store" => step' = step + 1)
    <3>1. \A n \in 1 .. step : [sample |-> taken, at |-> n] \in rows'
      <4>1. [sample |-> taken, at |-> step] \in rows'
        BY <2>5 DEF r
      <4>2. \A n \in 1 .. step : n \in 1 .. step - 1 \/ n = step
        BY <2>2
      <4>3. QED
        BY <2>2, <2>5, <4>1, <4>2
    <3>2. \A n \in 1 .. r.at : [r EXCEPT !.at = n] \in rows'
      BY <2>3, <2>4, <3>1
    <3>3. RowsPrefix'
      BY <2>5, <3>2 DEF StoredInv, RowsPrefix
    <3>4. stage' = "store" => step' # 0 /\ step' - 1 = step
      BY <2>2, <2>5
    <3>5. QED
      BY <2>1, <3>1, <3>3, <3>4 DEF StoredInv
  <2>6. CASE rows' = rows /\ stage' = "ready"
    BY <2>6 DEF StoredInv, RowsPrefix
  <2>7. QED
    BY <2>1, <2>5, <2>6
<1>6. CASE UNCHANGED vars
  BY <1>6 DEF StoredInv, RowsPrefix, vars, process, database
<1>7. QED
  BY <1>2, <1>3, <1>4, <1>5, <1>6 DEF Next

\* What the database has of a sample is the beginning of it, wherever a statement
\* failed or the program died (doAddData, runQuery).
THEOREM RowsPrefixKept == Spec => []RowsPrefix
<1>1. Init => StoredInv
  BY DEF Init, StoredInv, RowsPrefix
<1>2. StoredInv => RowsPrefix
  BY DEF StoredInv
<1>3. QED
  BY <1>1, <1>2, StoredNext, TypesKept, PTL DEF Spec

-----------------------------------------------------------------------------
(* The tables of a file that an earlier run left *)

LEMMA HealsNext == Heals /\ [Next]_vars => Heals'
<1> SUFFICES ASSUME Heals, [Next]_vars, WithDatabase, ~failed',
                    stage' \in {"ready", "print", "push", "store"}
             PROVE  inited'
  BY DEF Heals
<1>1. CASE StartProgram
  <2>1. stage' \in {"removing", "create"}
    BY <1>1 DEF StartProgram, Goto, Opening
  <2>2. QED
    BY <2>1
<1>2. CASE RemoveJson \/ StopProgram
  <2>1. stage' \in {"create", "off"}
    BY <1>2 DEF RemoveJson, StopProgram, Goto, Opening
  <2>2. QED
    BY <2>1
<1>3. CASE CreateTable
  BY <1>3 DEF CreateTable, Creatable
<1>4. CASE SetSession \/ (\E s \in Contents : ProcessData(s)) \/ PrintRecord \/ PushAddData
  <2>1. stage \in {"ready", "print", "push"} /\ UNCHANGED <<inited, failed>>
    BY <1>4 DEF SetSession, Accepts, ProcessData, PrintRecord, PushAddData
  <2>2. QED
    BY <2>1 DEF Heals
<1>5. CASE SetSessionTorn \/ PrintTorn
  BY <1>5 DEF SetSessionTorn, PrintTorn, Tear, Goto
<1>6. CASE AddData
  <2>1. stage = "store" /\ inited' = inited /\ (failed' = failed \/ failed' = TRUE)
    BY <1>6 DEF AddData
  <2>2. QED
    BY <2>1 DEF Heals
<1>7. CASE UNCHANGED vars
  BY <1>7 DEF Heals, vars, process
<1>8. QED
  BY <1>1, <1>2, <1>3, <1>4, <1>5, <1>6, <1>7 DEF Next

\* A run that died while it created the tables does not spoil the file for the
\* next one (createTables, CREATE TABLE IF NOT EXISTS).
THEOREM FileHeals == Spec => []Heals
<1>1. Init => Heals
  BY DEF Init, Heals
<1>2. QED
  BY <1>1, HealsNext, PTL DEF Spec

-----------------------------------------------------------------------------
(* The two outputs of one sample *)

\* What the statements of a sample insert.
Recorded(s) == {Statements(s)[i] : i \in DOMAIN Statements(s)}

\* What is printed of a list is what is inserted of it, what is printed of a row are
\* the groups that are not left out; each label is there once, and the head of the
\* record stays.
Agree(s, printed) ==
  /\ IF s.kind \in Listed
     THEN {p[2] : p \in printed} = Recorded(s)
     ELSE {p[2] : p \in printed} = s.of \ LeftOut(s.kind)
  /\ \A p, q \in printed : p[1] = q[1] => p = q
  /\ HeadLabels \ {p[1] : p \in printed} = HeadLabels

\* Entries under their labels.
Pairs(f, D) == {<<f[i], i>> : i \in D}

\* Labels that differ from each other and from the head's.
LEMMA LabelsApart ==
  ASSUME NEW D, NEW f,
         \A i, j \in D : f[i] = f[j] => i = j,
         \A i \in D : f[i] \notin HeadLabels
  PROVE  /\ {p[2] : p \in Pairs(f, D)} = D
         /\ \A p, q \in Pairs(f, D) : p[1] = q[1] => p = q
         /\ HeadLabels \ {p[1] : p \in Pairs(f, D)} = HeadLabels
<1>1. \A a, b : <<a, b>>[1] = a /\ <<a, b>>[2] = b
  OBVIOUS
<1>2. \A p \in Pairs(f, D) : \E i \in D : p = <<f[i], i>>
  BY DEF Pairs
<1>3. \A i \in D : <<f[i], i>> \in Pairs(f, D)
  BY DEF Pairs
<1>4. \A p \in Pairs(f, D) : p[2] \in D /\ p[1] = f[p[2]] /\ p = <<f[p[2]], p[2]>>
  <2> TAKE p \in Pairs(f, D)
  <2>1. PICK i \in D : p = <<f[i], i>>
    BY <1>2
  <2>2. p[1] = f[i] /\ p[2] = i
    BY <1>1, <2>1
  <2>3. QED
    BY <2>1, <2>2
<1>5. {p[2] : p \in Pairs(f, D)} = D
  <2>1. ASSUME NEW i \in D PROVE i \in {p[2] : p \in Pairs(f, D)}
    <3>1. <<f[i], i>> \in Pairs(f, D) /\ <<f[i], i>>[2] = i
      BY <1>1, <1>3
    <3>2. QED
      BY <3>1
  <2>2. QED
    BY <1>4, <2>1
<1>6. ASSUME NEW p \in Pairs(f, D), NEW q \in Pairs(f, D), p[1] = q[1] PROVE p = q
  <2>1. f[p[2]] = f[q[2]] /\ p[2] \in D /\ q[2] \in D
    BY <1>4, <1>6
  <2>2. p[2] = q[2]
    BY <2>1
  <2>3. QED
    BY <1>4, <2>2
<1>7. HeadLabels \ {p[1] : p \in Pairs(f, D)} = HeadLabels
  <2>1. \A p \in Pairs(f, D) : p[1] \notin HeadLabels
    BY <1>4
  <2>2. QED
    BY <2>1
<1>8. QED
  BY <1>5, <1>6, <1>7

LEMMA GroupedKinds ==
  /\ Grouped = {"ProcAcct", "SysProcPressure", "SysProcMemInfo", "ProcEvent", "SysProcVMStat"}
  /\ Groups["ProcAcct"] = AcctGroups /\ Groups["SysProcPressure"] = PressureGroups
  /\ Groups["SysProcMemInfo"] = MemInfoGroups
  /\ Groups["ProcEvent"] = {"procstats"} /\ Groups["SysProcVMStat"] = {"vmstat"}
  BY DEF Grouped, Groups

LEMMA ListedKinds ==
  /\ Listed \cap Grouped = {}
  /\ Named \cap Grouped = {} /\ "SysProcStat" \notin Grouped \cup Named \cup Numbered
  /\ Numbered \cap (Grouped \cup Named) = {}
  BY GroupedKinds DEF Listed, Named, Numbered

\* What a sample has.
LEMMA ContentOf ==
  ASSUME NEW s \in Contents
  PROVE  /\ s.kind \in Grouped \cup Listed
         /\ s.kind \in Grouped => IF s.kind = "SysProcPressure" THEN s.of \subseteq PressureGroups
                                  ELSE s.of = Groups[s.kind]
         /\ s.kind \in Listed => \E n \in 0 .. Len(Numbers) : s.of \in [1 .. n -> Names]
<1>1. PICK k \in Kinds : s \in {[kind |-> k, of |-> x] : x \in Content(k)}
  BY DEF Contents
<1>2. s.kind = k /\ s.of \in Content(k) /\ k \in Grouped \cup Listed
  BY <1>1, KindAssumption
<1>3. CASE k = "SysProcPressure"
  <2>1. Content(k) = SUBSET PressureGroups
    BY <1>3 DEF Content
  <2>2. QED
    BY <1>2, <1>3, <2>1, GroupedKinds, ListedKinds
<1>4. CASE k \in Grouped \ {"SysProcPressure"}
  <2>1. Content(k) = {Groups[k]}
    BY <1>4 DEF Content
  <2>2. QED
    BY <1>2, <1>4, <2>1, ListedKinds
<1>5. CASE k \notin Grouped
  <2>1. k # "SysProcPressure"
    BY <1>5, GroupedKinds
  <2>2. Content(k) = Lists
    BY <1>5, <2>1 DEF Content
  <2>3. \E n \in 0 .. MaxEntries : s.of \in [1 .. n -> Names]
    BY <1>2, <2>2 DEF Lists
  <2>4. Len(Numbers) = 4
    BY DEF Numbers
  <2>5. PICK n \in 0 .. MaxEntries : s.of \in [1 .. n -> Names]
    BY <2>3
  <2>6. MaxEntries \in 0 .. 4
    BY <2>4, EntryAssumption
  <2>7. n \in 0 .. 4
    BY <2>6
  <2>8. n \in 0 .. Len(Numbers)
    BY <2>4, <2>7
  <2>9. QED
    BY <1>2, <1>5, <2>5, <2>8
<1>6. QED
  BY <1>3, <1>4, <1>5

\* One row has all the groups of its kind.
LEMMA GroupedRow ==
  ASSUME NEW s \in Contents, s.kind \in Grouped
  PROVE  /\ Statements(s) = <<Groups[s.kind]>>
         /\ s.of \subseteq Groups[s.kind] /\ s.kind \notin Listed
<1>1. Statements(s) = OneRow(s)
  BY ListedKinds DEF Statements
<1>2. s.of \subseteq Groups[s.kind]
  BY ContentOf, GroupedKinds
<1>3. QED
  BY <1>1, <1>2, ListedKinds DEF OneRow

\* The record has the groups of the row but those left out.
LEMMA GroupedAgree ==
  ASSUME NEW s \in Contents, s.kind \in Grouped
  PROVE  Agree(s, Printed(s))
<1>1. Printed(s) = PrintedGroups(s)
  BY ListedKinds DEF Printed
<1>2. s.of \subseteq Groups[s.kind] /\ s.kind \notin Listed
  BY GroupedRow
<1>3. s.kind # "SysProcPressure" => s.of = Groups[s.kind]
  BY ContentOf
<1>4. CASE s.kind = "ProcAcct"
  <2>1. Printed(s) = PrintedAcct
    BY <1>1, <1>4 DEF PrintedGroups
  <2>2. s.of \ LeftOut(s.kind) = AcctGroups \ {"swp"}
    BY <1>3, <1>4, GroupedKinds DEF LeftOut
  <2>3. /\ \A p \in PrintedAcct : p[2] \in AcctGroups \ {"swp"}
        /\ \A p, q \in PrintedAcct : p[1] = q[1] => p = q
        /\ \A p \in PrintedAcct : p[1] \notin HeadLabels
    BY DEF PrintedAcct, AcctGroups, HeadLabels
  <2>4. \A g \in AcctGroups \ {"swp"} : <<g, g>> \in PrintedAcct /\ <<g, g>>[2] = g
    BY DEF PrintedAcct
  <2>5. {p[2] : p \in PrintedAcct} = AcctGroups \ {"swp"}
    <3>1. ASSUME NEW g \in AcctGroups \ {"swp"} PROVE g \in {p[2] : p \in PrintedAcct}
      BY <2>4
    <3>2. QED
      BY <2>3, <3>1
  <2>6. HeadLabels \ {p[1] : p \in PrintedAcct} = HeadLabels
    BY <2>3
  <2>7. QED
    BY <1>2, <2>1, <2>2, <2>3, <2>5, <2>6 DEF Agree
<1>5. CASE s.kind = "SysProcMemInfo"
  <2>1. Printed(s) = {<<"meminfo", "meminfo">>}
    BY <1>1, <1>5 DEF PrintedGroups, PrintedMemInfo
  <2>2. s.of \ LeftOut(s.kind) = {"meminfo"}
    BY <1>3, <1>5, GroupedKinds DEF LeftOut, MemInfoGroups
  <2>3. QED
    BY <1>2, <2>1, <2>2 DEF Agree, HeadLabels
<1>6. CASE s.kind \notin {"ProcAcct", "SysProcMemInfo"}
  <2>1. Printed(s) = {<<g, g>> : g \in s.of}
    BY <1>1, <1>6 DEF PrintedGroups, PrintedPressure
  <2>2. s.of \cap HeadLabels = {}
    BY <1>2, <1>6, GroupedKinds DEF PressureGroups, HeadLabels
  <2>3. s.of \ LeftOut(s.kind) = s.of
    BY <1>6 DEF LeftOut
  <2>4. {p[2] : p \in {<<g, g>> : g \in s.of}} = s.of
    <3>1. ASSUME NEW g \in s.of PROVE g \in {p[2] : p \in {<<h, h>> : h \in s.of}}
      <4>1. <<g, g>> \in {<<h, h>> : h \in s.of} /\ <<g, g>>[2] = g
        OBVIOUS
      <4>2. QED
        BY <4>1
    <3>2. QED
      BY <3>1
  <2>5. QED
    BY <1>2, <2>1, <2>2, <2>3, <2>4 DEF Agree
<1>7. QED
  BY <1>4, <1>5, <1>6

\* The statements of a list are those of its entries, by their places.
LEMMA ListRows ==
  ASSUME NEW n \in Nat, NEW list \in [1 .. n -> Names]
  PROVE  /\ DOMAIN list = 1 .. n
         /\ {EntryRows(list)[i] : i \in DOMAIN EntryRows(list)} = 1 .. n
         /\ {StatRows(list)[i] : i \in DOMAIN StatRows(list)} = 0 .. n
<1> DEFINE e == [i \in 1 .. n |-> i]
           f == <<0>> \o e
<1>1. EntryRows(list) = e
  BY DEF EntryRows
<1>2. e \in Seq(Nat) /\ Len(e) = n /\ \A i \in 1 .. n : e[i] = i
  OBVIOUS
<1>3. StatRows(list) = f
  BY <1>1 DEF StatRows
<1> HIDE DEF e
<1>4. /\ f \in Seq(Nat) /\ Len(f) = n + 1
      /\ \A i \in 1 .. n + 1 : f[i] = IF i = 1 THEN 0 ELSE e[i - 1]
  BY <1>2
<1> HIDE DEF f
<1>5. DOMAIN f = 1 .. n + 1 /\ \A i \in 1 .. n + 1 : f[i] = i - 1
  BY <1>2, <1>4
<1>6. {f[i] : i \in DOMAIN f} = 0 .. n
  <2>1. \A i \in DOMAIN f : f[i] \in 0 .. n
    BY <1>5
  <2>2. \A k \in 0 .. n : k + 1 \in DOMAIN f /\ f[k + 1] = k
    BY <1>5
  <2>3. QED
    BY <2>1, <2>2
<1>7. {e[i] : i \in DOMAIN e} = 1 .. n
  BY <1>2
<1>8. QED
  BY <1>1, <1>3, <1>6, <1>7

\* Entries that go by names that differ.
LEMMA PrintedNames ==
  ASSUME NEW n \in Nat, NEW list \in [1 .. n -> Names], Distinct(list)
  PROVE  PrintedByName(list) = {<<list[i], i>> : i \in 1 .. n}
<1>1. {j \in DOMAIN list : \A k \in DOMAIN list : k > j => list[k] # list[j]} = 1 .. n
  BY DEF Distinct
<1>2. QED
  BY <1>1 DEF PrintedByName

LEMMA NamedAgree ==
  ASSUME NEW s \in Contents, s.kind \in Named, Separable(s)
  PROVE  Agree(s, Printed(s))
<1>1. PICK n \in 0 .. Len(Numbers) : s.of \in [1 .. n -> Names]
  BY ContentOf DEF Listed
<1>2. n \in Nat /\ DOMAIN s.of = 1 .. n
  BY <1>1
<1>3. Distinct(s.of) /\ \A i \in 1 .. n : s.of[i] \notin HeadLabels
  BY <1>2 DEF Separable
<1>4. s.kind \notin Grouped /\ s.kind # "SysProcStat" /\ s.kind \in Listed
  BY ListedKinds DEF Listed
<1>5. Printed(s) = PrintedByName(s.of) /\ Statements(s) = EntryRows(s.of)
  BY <1>4 DEF Printed, Statements
<1> DEFINE P == Pairs(s.of, 1 .. n)
<1>6. Printed(s) = P
  BY <1>1, <1>2, <1>3, <1>5, PrintedNames DEF Pairs
<1>7. Recorded(s) = 1 .. n
  BY <1>1, <1>2, <1>5, ListRows DEF Recorded
<1>8. \A i, j \in 1 .. n : s.of[i] = s.of[j] => i = j
  BY <1>2, <1>3 DEF Distinct
<1>9. /\ {p[2] : p \in P} = 1 .. n
      /\ \A p, q \in P : p[1] = q[1] => p = q
      /\ HeadLabels \ {p[1] : p \in P} = HeadLabels
  BY <1>3, <1>8, LabelsApart
<1> HIDE DEF P
<1>10. QED
  BY <1>4, <1>6, <1>7, <1>9 DEF Agree

\* Entries that go by running numbers.
LEMMA NumberedAgree ==
  ASSUME NEW s \in Contents, s.kind \in Numbered
  PROVE  Agree(s, Printed(s))
<1>1. PICK n \in 0 .. Len(Numbers) : s.of \in [1 .. n -> Names]
  BY ContentOf DEF Listed
<1>2. Len(Numbers) = 4
  BY DEF Numbers
<1>3. n \in Nat /\ DOMAIN s.of = 1 .. n /\ 1 .. n \subseteq 1 .. 4
  BY <1>1, <1>2
<1>4. s.kind \notin Grouped /\ s.kind \notin Named /\ s.kind # "SysProcStat" /\ s.kind \in Listed
  BY ListedKinds DEF Listed
<1>5. Printed(s) = PrintedByNumber(s.of) /\ Statements(s) = EntryRows(s.of)
  BY <1>4 DEF Printed, Statements
<1> DEFINE P == Pairs(Numbers, 1 .. n)
<1>6. Printed(s) = P
  BY <1>3, <1>5 DEF PrintedByNumber, Pairs
<1>7. Recorded(s) = 1 .. n
  BY <1>1, <1>3, <1>5, ListRows DEF Recorded
<1>8. /\ \A i, j \in 1 .. 4 : Numbers[i] = Numbers[j] => i = j
      /\ \A i \in 1 .. 4 : Numbers[i] \notin HeadLabels
  BY DEF Numbers, HeadLabels
<1>9. /\ {p[2] : p \in P} = 1 .. n
      /\ \A p, q \in P : p[1] = q[1] => p = q
      /\ HeadLabels \ {p[1] : p \in P} = HeadLabels
  BY <1>3, <1>8, LabelsApart
<1> HIDE DEF P
<1>10. QED
  BY <1>4, <1>6, <1>7, <1>9 DEF Agree

\* The total and the cores.
LEMMA StatAgree ==
  ASSUME NEW s \in Contents, s.kind = "SysProcStat", Separable(s)
  PROVE  Agree(s, Printed(s))
<1>1. PICK n \in 0 .. Len(Numbers) : s.of \in [1 .. n -> Names]
  BY ContentOf DEF Listed
<1>2. n \in Nat /\ DOMAIN s.of = 1 .. n
  BY <1>1
<1>3. Distinct(s.of) /\ \A i \in 1 .. n : s.of[i] \notin HeadLabels \cup {"cpu"}
  BY <1>2, ListedKinds DEF Separable
<1>4. s.kind \notin Grouped /\ s.kind \notin Named /\ s.kind \in Listed
  BY ListedKinds DEF Listed
<1>5. Printed(s) = PrintedStat(s.of) /\ Statements(s) = StatRows(s.of)
  BY <1>4 DEF Printed, Statements
<1> DEFINE P == Pairs(s.of, 1 .. n)
<1>6. {y \in {0} : \A i \in DOMAIN s.of : s.of[i] # "cpu"} = {0}
  BY <1>2, <1>3
<1>7. PrintedStat(s.of) = PrintedByName(s.of) \cup {<<"cpu", 0>>}
  BY <1>6 DEF PrintedStat
<1>8. Printed(s) = P \cup {<<"cpu", 0>>}
  BY <1>1, <1>2, <1>3, <1>5, <1>7, PrintedNames DEF Pairs
<1>9. Recorded(s) = 0 .. n
  BY <1>1, <1>2, <1>5, ListRows DEF Recorded
<1>10. \A i, j \in 1 .. n : s.of[i] = s.of[j] => i = j
  BY <1>2, <1>3 DEF Distinct
<1>11. /\ {p[2] : p \in P} = 1 .. n
       /\ \A p, q \in P : p[1] = q[1] => p = q
       /\ HeadLabels \ {p[1] : p \in P} = HeadLabels
  BY <1>3, <1>10, LabelsApart
<1>12. \A p \in P : p[1] # "cpu"
  <2>1. \A p \in P : \E i \in 1 .. n : p[1] = s.of[i]
    BY DEF Pairs
  <2>2. QED
    BY <1>3, <2>1
<1> HIDE DEF P
<1> DEFINE c == <<"cpu", 0>>
           Q == P \cup {c}
<1>12a. c[1] = "cpu" /\ c[2] = 0
  OBVIOUS
<1> HIDE DEF c
<1>13. {p[2] : p \in Q} = 0 .. n
  <2>1. {p[2] : p \in Q} = {p[2] : p \in P} \cup {0}
    BY <1>12a
  <2>2. 0 .. n = 1 .. n \cup {0}
    BY <1>2
  <2>3. QED
    BY <1>11, <2>1, <2>2
<1>14. \A p, q \in Q : p[1] = q[1] => p = q
  BY <1>11, <1>12, <1>12a
<1>15. HeadLabels \ {p[1] : p \in Q} = HeadLabels
  <2>1. {p[1] : p \in Q} = {p[1] : p \in P} \cup {"cpu"}
    BY <1>12a
  <2>2. "cpu" \notin HeadLabels
    BY DEF HeadLabels
  <2>3. QED
    BY <1>11, <2>1, <2>2
<1> HIDE DEF Q
<1>16. Printed(s) = Q
  BY <1>8 DEF Q, c
<1>17. QED
  BY <1>4, <1>9, <1>13, <1>14, <1>15, <1>16 DEF Agree

LEMMA PrintedAgree ==
  ASSUME NEW s \in Contents, Separable(s)
  PROVE  Agree(s, Printed(s))
<1>1. s.kind \in Grouped \/ s.kind \in Named \/ s.kind \in Numbered \/ s.kind = "SysProcStat"
  BY ContentOf DEF Listed
<1>2. QED
  BY <1>1, GroupedAgree, NamedAgree, NumberedAgree, StatAgree

\* The statements of a sample are numbered from 1.
LEMMA StatementsCount ==
  ASSUME NEW s \in Contents
  PROVE  /\ Len(Statements(s)) \in Nat /\ DOMAIN Statements(s) = 1 .. Len(Statements(s))
         /\ Statements(s) # <<>> => Len(Statements(s)) # 0
<1> DEFINE q == Statements(s)
<1>1. \E R : q \in Seq(R)
  <2>1. CASE s.kind \in Grouped
    <3> DEFINE g == Groups[s.kind]
    <3>1. q = <<g>>
      BY <2>1, GroupedRow
    <3> HIDE DEF g
    <3>2. <<g>> \in Seq({g})
      OBVIOUS
    <3>3. QED
      BY <3>1, <3>2
  <2>2. CASE s.kind \in Listed
    <3>1. PICK n \in 0 .. Len(Numbers) : s.of \in [1 .. n -> Names]
      BY <2>2, ContentOf
    <3>2. n \in Nat /\ DOMAIN s.of = 1 .. n
      BY <3>1
    <3>3. EntryRows(s.of) \in Seq(Nat)
      <4>1. EntryRows(s.of) = [i \in 1 .. n |-> i]
        BY <3>2 DEF EntryRows
      <4>2. [i \in 1 .. n |-> i] \in Seq(Nat)
        BY <3>2
      <4>3. QED
        BY <4>1, <4>2
    <3>4. StatRows(s.of) \in Seq(Nat)
      <4> DEFINE e == EntryRows(s.of)
      <4>1. e \in Seq(Nat) /\ <<0>> \in Seq(Nat)
        BY <3>3
      <4> HIDE DEF e
      <4>2. <<0>> \o e \in Seq(Nat)
        BY <4>1
      <4>3. QED
        BY <4>2 DEF StatRows, e
    <3>5. q = EntryRows(s.of) \/ q = StatRows(s.of)
      BY <2>2, ListedKinds DEF Statements
    <3>6. QED
      BY <3>3, <3>4, <3>5
  <2>3. QED
    BY <2>1, <2>2, ContentOf
<1> HIDE DEF q
<1>2. QED
  BY <1>1, EmptySeq DEF q

\* The places of the rows that the file has of the sample at hand.
Mine == {x.at : x \in {y \in rows : y.sample = taken}}

\* They are the statements that were executed.
AtHandInv ==
  /\ stage \in {"removing", "create"} => sample = NoSample
  /\ stage \in {"print", "push", "store"} => sample # NoSample
  /\ sample # NoSample =>
       /\ Mine \subseteq DOMAIN Statements(sample)
       /\ stage \in {"print", "push"} => Mine = {}
       /\ stage = "store" => step \in DOMAIN Statements(sample) /\ Mine = 1 .. step - 1
       /\ stage = "ready" /\ ~failed => Mine = {} \/ Mine = DOMAIN Statements(sample)

LEMMA AtHandNext == TypeInv /\ AtHandInv /\ [Next]_vars => AtHandInv'
<1> SUFFICES ASSUME TypeInv, AtHandInv, [Next]_vars PROVE AtHandInv'
  OBVIOUS
<1>1. /\ taken \in Nat /\ step \in Nat /\ rows \subseteq [sample: 1 .. taken, at: Nat]
      /\ sample # NoSample => sample \in Contents
  BY DEF TypeInv, TypeOK
<1>2. CASE StartProgram
  <2>1. sample' = NoSample /\ stage' \in {"removing", "create", "ready"}
    BY <1>2 DEF StartProgram, Started, Goto, Opening
  <2>2. QED
    BY <2>1 DEF AtHandInv
<1>3. CASE RemoveJson \/ CreateTable
  <2>1. /\ stage \in {"removing", "create"} /\ stage' \in {"create", "ready"}
        /\ sample' = sample
    BY <1>3 DEF RemoveJson, CreateTable, AfterFailure, Goto, Opening
  <2>2. QED
    BY <2>1 DEF AtHandInv
<1>4. CASE StopProgram \/ SetSessionTorn \/ PrintTorn
  <2>1. stage' = "off" /\ UNCHANGED <<sample, taken, rows>>
    BY <1>4 DEF StopProgram, SetSessionTorn, PrintTorn, Tear, Goto, database
  <2>2. Mine' = Mine
    BY <2>1 DEF Mine
  <2>3. QED
    BY <2>1, <2>2 DEF AtHandInv
<1>5. CASE SetSession
  <2>1. UNCHANGED <<stage, step, sample, taken, rows, failed>>
    BY <1>5 DEF SetSession, database
  <2>2. Mine' = Mine
    BY <2>1 DEF Mine
  <2>3. QED
    BY <2>1, <2>2 DEF AtHandInv
<1>6. ASSUME NEW s \in Contents, ProcessData(s) PROVE AtHandInv'
  <2>1. stage' = "print" /\ sample' = s /\ taken' = taken + 1 /\ rows' = rows
    BY <1>6 DEF ProcessData, Goto, database
  <2>2. Mine' = {}
    BY <1>1, <2>1 DEF Mine
  <2>3. s # NoSample
    <3>1. s.kind \in Grouped \cup Listed
      BY ContentOf
    <3>2. "none" \notin Grouped \cup Listed
      BY GroupedKinds DEF Listed, Named, Numbered
    <3>3. QED
      BY <3>1, <3>2 DEF NoSample
  <2>4. QED
    BY <2>1, <2>2, <2>3 DEF AtHandInv
<1>7. CASE PrintRecord
  <2>1. stage = "print" /\ stage' = "push" /\ UNCHANGED <<sample, taken, rows>>
    BY <1>7 DEF PrintRecord, Goto, database
  <2>2. Mine' = Mine
    BY <2>1 DEF Mine
  <2>3. QED
    BY <2>1, <2>2 DEF AtHandInv
<1>8. CASE PushAddData
  <2>1. /\ stage = "push" /\ step' = 1 /\ UNCHANGED <<sample, taken, rows>>
        /\ stage' = "ready" \/ (stage' = "store" /\ Statements(sample) # <<>>)
    BY <1>8 DEF PushAddData, NewQuery, Goto, database
  <2>2. Mine' = {} /\ sample # NoSample
    BY <2>1 DEF Mine, AtHandInv
  <2>3. Statements(sample) # <<>> => 1 \in DOMAIN Statements(sample)
    BY <1>1, <2>2, StatementsCount
  <2>4. 1 .. step' - 1 = {}
    BY <2>1
  <2>5. QED
    BY <2>1, <2>2, <2>3, <2>4 DEF AtHandInv
<1>9. CASE AddData
  <2> DEFINE n == Len(Statements(sample))
             r == [sample |-> taken, at |-> step]
  <2>1. stage = "store" /\ UNCHANGED <<sample, taken>>
    BY <1>9 DEF AddData
  <2>2. /\ sample # NoSample /\ sample \in Contents
        /\ n \in Nat /\ DOMAIN Statements(sample) = 1 .. n
        /\ step \in 1 .. n /\ Mine = 1 .. step - 1
    BY <1>1, <2>1, StatementsCount DEF AtHandInv
  <2>3. \/ /\ rows' = rows \cup {r}
           /\ \/ step = n /\ stage' = "ready"
              \/ step # n /\ stage' = "store" /\ step' = step + 1
        \/ rows' = rows /\ stage' = "ready" /\ failed' = TRUE
    BY <1>9, <2>1 DEF AddData, AfterFailure, Goto
  <2>4. CASE rows' = rows \cup {r}
    <3>1. r.sample = taken /\ r.at = step
      OBVIOUS
    <3> HIDE DEF r
    <3>2. Mine' = Mine \cup {step}
      BY <2>1, <2>4, <3>1 DEF Mine
    <3>3. 1 .. step = (1 .. step - 1) \cup {step}
      BY <2>2
    <3>4. Mine' = 1 .. step
      BY <2>2, <3>2, <3>3
    <3>5. CASE step = n /\ stage' = "ready"
      BY <2>1, <2>2, <3>4, <3>5 DEF AtHandInv
    <3>6. CASE step # n /\ stage' = "store" /\ step' = step + 1
      <4> HIDE DEF n
      <4>1. step' \in 1 .. n /\ step' - 1 = step /\ 1 .. step \subseteq 1 .. n
        BY <2>2, <3>6
      <4>2. QED
        BY <2>1, <2>2, <3>4, <3>6, <4>1 DEF AtHandInv
    <3>7. CASE rows' = rows /\ stage' = "ready" /\ failed' = TRUE
      <4>1. Mine' \subseteq DOMAIN Statements(sample)
        BY <2>2, <3>4
      <4>2. QED
        BY <2>1, <3>7, <4>1 DEF AtHandInv
    <3>8. QED
      BY <2>3, <3>5, <3>6, <3>7
  <2>5. CASE rows' = rows /\ stage' = "ready" /\ failed' = TRUE
    <3>1. Mine' = Mine
      BY <2>1, <2>5 DEF Mine
    <3>2. QED
      BY <2>1, <2>5, <3>1 DEF AtHandInv
  <2> HIDE DEF r
  <2>6. QED
    BY <2>3, <2>4, <2>5
<1>10. CASE UNCHANGED vars
  <2>1. UNCHANGED <<stage, step, sample, taken, rows, failed>>
    BY <1>10 DEF vars, process, database
  <2>2. Mine' = Mine
    BY <2>1 DEF Mine
  <2>3. QED
    BY <2>1, <2>2 DEF AtHandInv
<1>11. QED
  BY <1>2, <1>3, <1>4, <1>5, <1>6, <1>7, <1>8, <1>9, <1>10 DEF Next

\* What the file has of the sample at hand, by its places.
LEMMA StoredIs == Stored = {Statements(sample)[i] : i \in Mine}
  BY DEF Stored, Mine

\* The record that is printed and the rows that are in the file agree on the sample at
\* hand, wherever a statement failed: the rows of a list are entries of the record, all
\* of them when nothing failed; a row has every group of the record, which leaves out
\* swp and cma and nothing else (print functions, addData, doAddData).
THEOREM OutputsAgreeAlways == Spec => []OutputsAgree
<1>1. Init => AtHandInv
  BY DEF Init, AtHandInv
<1>2. TypeOK /\ AtHandInv => OutputsAgree
  <2> DEFINE parts == {p[2] : p \in Printed(sample)}
  <2> SUFFICES ASSUME TypeOK, AtHandInv, sample # NoSample, Separable(sample)
               PROVE  /\ IF sample.kind \in Listed
                         THEN /\ Stored \subseteq parts
                              /\ stage = "ready" /\ ~failed /\ Stored # {} => Stored = parts
                         ELSE /\ parts = sample.of \ LeftOut(sample.kind)
                              /\ Stored # {} => sample.of \subseteq UNION Stored
                      /\ \A p, q \in Printed(sample) : p[1] = q[1] => p = q
                      /\ HeadLeft(sample) = HeadLabels
    BY DEF OutputsAgree
  <2>1. sample \in Contents
    BY DEF TypeOK
  <2>2. Agree(sample, Printed(sample))
    BY <2>1, PrintedAgree
  <2>3. /\ Mine \subseteq DOMAIN Statements(sample)
        /\ stage = "ready" /\ ~failed => Mine = {} \/ Mine = DOMAIN Statements(sample)
    BY DEF AtHandInv
  <2>4. CASE sample.kind \in Listed
    <3>1. parts = {Statements(sample)[i] : i \in DOMAIN Statements(sample)}
      BY <2>2, <2>4 DEF Agree, Recorded
    <3>2. Stored \subseteq parts
      BY <2>3, <3>1, StoredIs
    <3>3. stage = "ready" /\ ~failed /\ Stored # {} => Stored = parts
      BY <2>3, <3>1, StoredIs
    <3>4. QED
      BY <2>2, <2>4, <3>2, <3>3 DEF Agree, HeadLeft
  <2>5. CASE sample.kind \notin Listed
    <3>1. sample.kind \in Grouped
      BY <2>1, <2>5, ContentOf
    <3> DEFINE g == Groups[sample.kind]
    <3>2. Statements(sample) = <<g>> /\ sample.of \subseteq g
      BY <2>1, <3>1, GroupedRow
    <3> HIDE DEF g
    <3>3. \A i \in Mine : Statements(sample)[i] = g
      BY <2>3, <3>2
    <3>4. Stored # {} => Stored = {g}
      BY <3>3, StoredIs
    <3>5. Stored # {} => sample.of \subseteq UNION Stored
      BY <3>2, <3>4
    <3>6. parts = sample.of \ LeftOut(sample.kind)
      BY <2>2, <2>5 DEF Agree
    <3>7. QED
      BY <2>2, <2>5, <3>5, <3>6 DEF Agree, HeadLeft
  <2>6. QED
    BY <2>4, <2>5
<1>3. QED
  BY <1>1, <1>2, AtHandNext, TypesKept, TypeCorrect, PTL DEF Spec
=============================================================================
