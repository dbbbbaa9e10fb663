--------------------------- MODULE DatabaseProofs ---------------------------
(***************************************************************************)
(* What holds of Database for every set of devices and hashes, every number *)
(* of runs and sessions, and therefore for tables of every size.           *)
(***************************************************************************)
EXTENDS Database, WellFoundedInduction, TLAPS

-----------------------------------------------------------------------------
(* The ids of a table *)

Bounded(rows) == \E b \in Nat : \A r \in rows : r.id <= b

\* Of the bounds of a set of numbers one is the least.
LEMMA LeastBound ==
  ASSUME NEW rows, \A r \in rows : r.id \in Nat, Bounded(rows)
  PROVE  \E b \in Nat : /\ \A r \in rows : r.id <= b
                        /\ b = 0 \/ \E r \in rows : r.id = b
<1> DEFINE B == {b \in Nat : \A r \in rows : r.id <= b}
           R == OpToRel(<, Nat)
<1>1. B \subseteq Nat /\ B # {}
  BY DEF Bounded
<1>2. PICK b \in B : \A c \in B : ~ (<<c, b>> \in R)
  <2>1. IsWellFoundedOn(R, Nat)
    BY NatLessThanWellFounded
  <2> HIDE DEF R, B
  <2>2. QED
    BY <1>1, <2>1, WFMin
<1>3. \A c \in B : ~ (c < b)
  BY <1>1, <1>2 DEF OpToRel
<1>4. ASSUME b # 0, \A r \in rows : r.id # b PROVE FALSE
  <2>1. b - 1 \in Nat /\ \A r \in rows : r.id <= b - 1
    BY <1>1, <1>4
  <2>2. b - 1 \in B
    BY <2>1
  <2>3. QED
    BY <1>1, <1>3, <2>2
<1>5. QED
  BY <1>4

\* A new row's id is larger than every id in the table and the successor of one
\* of them, or 1.
LEMMA NextIdIs ==
  ASSUME NEW rows, \A r \in rows : r.id \in Nat, Bounded(rows)
  PROVE  /\ NextId(rows) \in Nat \ {0}
         /\ \A r \in rows : r.id < NextId(rows)
         /\ NextId(rows) = 1 \/ \E r \in rows : NextId(rows) = r.id + 1
<1> DEFINE C == {r.id + 1 : r \in rows} \cup {1}
           P(n) == \A r \in rows : r.id < n
<1>1. PICK b \in Nat : /\ \A r \in rows : r.id <= b
                       /\ b = 0 \/ \E r \in rows : r.id = b
  BY LeastBound
<1>2. \E n \in C : P(n)
  <2>1. CASE \E r \in rows : r.id = b
    <3>1. b + 1 \in C /\ P(b + 1)
      BY <1>1, <2>1
    <3>2. QED
      BY <3>1
  <2>2. CASE b = 0
    <3>1. 1 \in C /\ P(1)
      BY <1>1, <2>2
    <3>2. QED
      BY <3>1
  <2>3. QED
    BY <1>1, <2>1, <2>2
<1>3. NextId(rows) = CHOOSE n \in C : P(n)
  BY DEF NextId
<1> HIDE DEF P
<1>4. NextId(rows) \in C /\ P(NextId(rows))
  BY <1>2, <1>3
<1>5. QED
  BY <1>4 DEF P

\* What a new row leaves bounded.
LEMMA BoundedGrows ==
  ASSUME NEW rows, \A r \in rows : r.id \in Nat, Bounded(rows),
         NEW new, new.id = NextId(rows)
  PROVE  Bounded(rows \cup {new})
<1>1. NextId(rows) \in Nat /\ \A r \in rows : r.id < NextId(rows)
  BY NextIdIs
<1>2. \A r \in rows \cup {new} : r.id <= NextId(rows)
  BY <1>1
<1>3. QED
  BY <1>1, <1>2 DEF Bounded

\* What stays of a table stays bounded, and nothing is.
LEMMA BoundedShrinks ==
  ASSUME NEW rows, Bounded(rows), NEW some \in SUBSET rows
  PROVE  Bounded(some) /\ Bounded({})
  BY DEF Bounded

\* Stamping changes nothing but whether a row is open.
Stamp(s, h) == IF s.hash = h THEN [s EXCEPT !.open = FALSE] ELSE s

LEMMA StampedIs ==
  ASSUME NEW rows \in SUBSET SessionRows, NEW h
  PROVE  /\ Stamped(rows, h) \in SUBSET SessionRows
         /\ \A s \in rows : \E t \in Stamped(rows, h) :
              /\ t.id = s.id /\ t.hash = s.hash /\ t.device = s.device /\ t.born = s.born
              /\ t.open = (s.open /\ s.hash # h)
         /\ \A t \in Stamped(rows, h) : \E s \in rows :
              /\ t.id = s.id /\ t.hash = s.hash /\ t.device = s.device /\ t.born = s.born
              /\ t.open = (s.open /\ s.hash # h)
              /\ t = Stamp(s, h)
<1>1. \A s \in rows :
        /\ Stamp(s, h) \in SessionRows
        /\ Stamp(s, h).id = s.id /\ Stamp(s, h).hash = s.hash
        /\ Stamp(s, h).device = s.device /\ Stamp(s, h).born = s.born
        /\ Stamp(s, h).open = (s.open /\ s.hash # h)
  BY DEF SessionRows, Stamp
<1>2. Stamped(rows, h) = {Stamp(s, h) : s \in rows}
  BY DEF Stamped, Stamp
<1>3. /\ Stamped(rows, h) \in SUBSET SessionRows
      /\ \A s \in rows : Stamp(s, h) \in Stamped(rows, h)
      /\ \A t \in Stamped(rows, h) : \E s \in rows : t = Stamp(s, h)
  BY <1>1, <1>2
<1>4. \A t \in Stamped(rows, h) : \E s \in rows :
        /\ t.id = s.id /\ t.hash = s.hash /\ t.device = s.device /\ t.born = s.born
        /\ t.open = (s.open /\ s.hash # h)
        /\ t = Stamp(s, h)
  BY <1>1, <1>3
<1>5. \A s \in rows : \E t \in Stamped(rows, h) :
        /\ t.id = s.id /\ t.hash = s.hash /\ t.device = s.device /\ t.born = s.born
        /\ t.open = (s.open /\ s.hash # h)
  BY <1>1, <1>3
<1>6. QED
  BY <1>3, <1>4, <1>5

-----------------------------------------------------------------------------
(* Type correctness *)

\* TypeOK is not inductive: an id is chosen above all others, so there must be a
\* bound on them; and the session that is inserted must have been granted.
TypeInv ==
  /\ TypeOK
  /\ Bounded(devices) /\ Bounded(sessions)
  /\ phase = "AddSession" => current \in Hash

LEMMA ResultsType == Results \subseteq BOOLEAN
  BY DEF Results

LEMMA InitType == Init => TypeInv
<1> SUFFICES ASSUME Init PROVE TypeInv
  OBVIOUS
<1>1. Bounded({})
  BY DEF Bounded
<1>2. born \in Seq(Births)
  BY DEF Init
<1>3. /\ devices \in SUBSET DeviceRows /\ sessions \in SUBSET SessionRows
      /\ data \in SUBSET DataRows
      /\ Bounded(devices) /\ Bounded(sessions)
  BY <1>1 DEF Init
<1>4. QED
  BY <1>2, <1>3 DEF Init, TypeInv, TypeOK, MaybeHash

\* A table that loses rows, or all of them.
LEMMA FewerRowsType ==
  ASSUME TypeInv, devices' \in SUBSET devices, sessions' \in SUBSET sessions,
         data' \in SUBSET data
  PROVE  /\ devices' \in SUBSET DeviceRows /\ sessions' \in SUBSET SessionRows
         /\ data' \in SUBSET DataRows
         /\ Bounded(devices') /\ Bounded(sessions')
  BY BoundedShrinks DEF TypeInv, TypeOK

\* AddDevice's row is one.
LEMMA DeviceRowType ==
  ASSUME TypeInv, NEW rest \in SUBSET devices,
         NEW new, new = [id |-> NextId(rest), hash |-> device]
  PROVE  rest \cup {new} \in SUBSET DeviceRows /\ Bounded(rest \cup {new})
<1>1. rest \in SUBSET DeviceRows /\ Bounded(rest)
  BY BoundedShrinks DEF TypeInv, TypeOK
<1>2. \A r \in rest : r.id \in Nat
  BY <1>1 DEF DeviceRows
<1>3. NextId(rest) \in Nat
  BY <1>1, <1>2, NextIdIs
<1>4. new \in DeviceRows /\ new.id = NextId(rest)
  BY <1>3 DEF DeviceRows, TypeInv, TypeOK
<1>5. QED
  BY <1>1, <1>2, <1>4, BoundedGrows

\* AddSession's row is one.
LEMMA SessionRowType ==
  ASSUME TypeInv, NEW rest \in SUBSET sessions, current \in Hash, NEW d \in DeviceIds,
         NEW new, new = [id |-> NextId(rest), hash |-> current, open |-> TRUE,
                         device |-> d, born |-> Len(born) + 1]
  PROVE  rest \cup {new} \in SUBSET SessionRows /\ Bounded(rest \cup {new})
<1>1. rest \in SUBSET SessionRows /\ Bounded(rest)
  BY BoundedShrinks DEF TypeInv, TypeOK
<1>2. \A r \in rest : r.id \in Nat
  BY <1>1 DEF SessionRows
<1>3. NextId(rest) \in Nat
  BY <1>1, <1>2, NextIdIs
<1>4. d \in Nat /\ Len(born) + 1 \in Nat
  BY DEF DeviceIds, TypeInv, TypeOK, DeviceRows
<1>5. new \in SessionRows /\ new.id = NextId(rest)
  BY <1>3, <1>4 DEF SessionRows
<1>6. QED
  BY <1>1, <1>2, <1>5, BoundedGrows

LEMMA NextType ==
  ASSUME TypeInv, [Next]_vars
  PROVE  TypeInv'
<1>1. ASSUME NEW d \in Device, NEW init \in BOOLEAN, NEW removed \in BOOLEAN,
             StartProgram(d, init, removed)
      PROVE  TypeInv'
  <2>1. devices' \in SUBSET devices /\ sessions' \in SUBSET sessions /\ data' \in SUBSET data
    BY <1>1 DEF StartProgram
  <2>2. /\ devices' \in SUBSET DeviceRows /\ sessions' \in SUBSET SessionRows
        /\ data' \in SUBSET DataRows
        /\ Bounded(devices') /\ Bounded(sessions')
    BY <2>1, FewerRowsType
  <2>3. run' \in Nat /\ born' \in Seq(Births)
    BY <1>1 DEF StartProgram, TypeInv, TypeOK
  <2>4. created' \in BOOLEAN /\ device' \in Device /\ forced' \in BOOLEAN
    BY <1>1 DEF StartProgram, TypeInv, TypeOK
  <2>5. current' = NoHash /\ ended' = FALSE /\ phase' = "InitDatabase" /\ serving' = TRUE
    BY <1>1 DEF StartProgram
  <2>6. QED
    BY <2>2, <2>3, <2>4, <2>5 DEF TypeInv, TypeOK, MaybeHash
<1>2. CASE StopProgram
  BY <1>2 DEF StopProgram, TypeInv, TypeOK, file
<1>3. CASE InitDatabase
  <2>1. devices' \in SUBSET devices /\ sessions' \in SUBSET sessions /\ data' \in SUBSET data
    BY <1>3 DEF InitDatabase, DropTables
  <2>2. created' \in BOOLEAN /\ serving' \in BOOLEAN /\ phase' \in {"AddDevice", "recording"}
    BY <1>3, OptionAssumption DEF InitDatabase, Returns, TypeInv, TypeOK
  <2>3. UNCHANGED <<born, run, device, forced, current, ended>>
    BY <1>3 DEF InitDatabase
  <2>4. QED
    BY <2>1, <2>2, <2>3, FewerRowsType DEF TypeInv, TypeOK
<1>4. CASE AddDevice
  <2>1. PICK has \in Results, rem \in Results, add \in Results :
          LET rest == IF has /\ rem THEN WithoutHash(devices, device) ELSE devices
          IN  /\ devices' = IF add THEN rest \cup {[id |-> NextId(rest), hash |-> device]}
                            ELSE rest
              /\ Returns(add)
    BY <1>4 DEF AddDevice
  <2> DEFINE rest == IF has /\ rem THEN WithoutHash(devices, device) ELSE devices
             new == [id |-> NextId(rest), hash |-> device]
  <2>2. rest \in SUBSET devices
    BY DEF WithoutHash
  <2>3. rest \cup {new} \in SUBSET DeviceRows /\ Bounded(rest \cup {new})
    <3> HIDE DEF rest
    <3> QED
      BY <2>2, DeviceRowType
  <2>4. rest \in SUBSET DeviceRows /\ Bounded(rest)
    BY <2>2, BoundedShrinks DEF TypeInv, TypeOK
  <2>5. devices' = IF add THEN rest \cup {new} ELSE rest
    BY <2>1
  <2> HIDE DEF rest, new
  <2>6. devices' \in SUBSET DeviceRows /\ Bounded(devices')
    BY <2>3, <2>4, <2>5
  <2>7. serving' \in BOOLEAN
    BY <2>1, ResultsType, OptionAssumption DEF Returns
  <2>8. QED
    BY <1>4, <2>6, <2>7 DEF AddDevice, TypeInv, TypeOK
<1>5. ASSUME NEW h \in Hash, SetSession(h) PROVE TypeInv'
  BY <1>5 DEF SetSession, TypeInv, TypeOK, MaybeHash, file
<1>6. CASE AddSession
  <2>1. PICK has \in Results, rem \in Results, add \in Results :
          LET rest == IF has /\ rem THEN WithoutHash(sessions, current) ELSE sessions
          IN  IF add /\ DeviceIds # {}
              THEN \E id \in DeviceIds :
                     /\ sessions' = rest \cup
                          {[id |-> NextId(rest), hash |-> current, open |-> TRUE,
                            device |-> id, born |-> Len(born) + 1]}
                     /\ born' = Append(born, [hash |-> current, device |-> device, run |-> run])
                     /\ ended' = FALSE
                     /\ Returns(TRUE)
              ELSE /\ sessions' = rest
                   /\ Returns(FALSE)
                   /\ UNCHANGED <<born, ended>>
    BY <1>6 DEF AddSession
  <2> DEFINE rest == IF has /\ rem THEN WithoutHash(sessions, current) ELSE sessions
             row(d) == [id |-> NextId(rest), hash |-> current, open |-> TRUE,
                        device |-> d, born |-> Len(born) + 1]
  <2>2. rest \in SUBSET sessions /\ current \in Hash
    BY <1>6 DEF WithoutHash, AddSession, Handles, TypeInv
  <2>3. \A d \in DeviceIds :
          rest \cup {row(d)} \in SUBSET SessionRows /\ Bounded(rest \cup {row(d)})
    <3> HIDE DEF rest
    <3> QED
      BY <2>2, SessionRowType
  <2>4. rest \in SUBSET SessionRows /\ Bounded(rest)
    BY <2>2, BoundedShrinks DEF TypeInv, TypeOK
  <2>5. \/ \E d \in DeviceIds : sessions' = rest \cup {row(d)}
        \/ sessions' = rest
    BY <2>1
  <2> HIDE DEF rest, row
  <2>6. sessions' \in SUBSET SessionRows /\ Bounded(sessions')
    BY <2>3, <2>4, <2>5
  <2>7. [hash |-> current, device |-> device, run |-> run] \in Births
    BY <2>2 DEF Births, TypeInv, TypeOK
  <2>8. born' \in Seq(Births) /\ ended' \in BOOLEAN /\ serving' \in BOOLEAN
    <3> DEFINE b == [hash |-> current, device |-> device, run |-> run]
    <3>1. /\ born' = Append(born, b) \/ born' = born
          /\ ended' = FALSE \/ ended' = ended
          /\ serving' = (TRUE \/ ~QueueStops) \/ serving' = (FALSE \/ ~QueueStops)
      BY <2>1 DEF Returns
    <3>2. b \in Births
      BY <2>7
    <3> HIDE DEF b
    <3>3. born' \in Seq(Births)
      BY <3>1, <3>2 DEF TypeInv, TypeOK
    <3>4. QED
      BY <3>1, <3>3, OptionAssumption DEF TypeInv, TypeOK
  <2>9. QED
    BY <1>6, <2>6, <2>8 DEF AddSession, TypeInv, TypeOK
<1>7. CASE EndSession
  <2>1. /\ sessions' = Stamped(sessions, current) \/ sessions' = sessions
        /\ ended' \in BOOLEAN
    BY <1>7, ResultsType DEF EndSession
  <2>2. sessions \in SUBSET SessionRows
    BY DEF TypeInv, TypeOK
  <2>3. Bounded(Stamped(sessions, current))
    BY <2>2, StampedIs DEF Bounded, TypeInv
  <2>4. sessions' \in SUBSET SessionRows /\ Bounded(sessions')
    BY <2>1, <2>2, <2>3, StampedIs DEF TypeInv
  <2>5. QED
    BY <1>7, <2>1, <2>4 DEF EndSession, TypeInv, TypeOK
<1>8. CASE AddData
  <2>1. ASSUME NEW s \in OpenSessions
        PROVE  [session |-> s.id, born |-> s.born, run |-> run] \in DataRows
    BY DEF OpenSessions, TypeInv, TypeOK, SessionRows, DataRows
  <2> DEFINE row(s) == [session |-> s.id, born |-> s.born, run |-> run]
  <2> HIDE DEF row
  <2>2. data' \in SUBSET DataRows
    <3>1. data' = data \/ \E s \in OpenSessions : data' = data \cup {row(s)}
      BY <1>8 DEF AddData, row
    <3>2. \A s \in OpenSessions : row(s) \in DataRows
      BY <2>1 DEF row
    <3>3. QED
      BY <3>1, <3>2 DEF TypeInv, TypeOK
  <2>3. QED
    BY <1>8, <2>2 DEF AddData, TypeInv, TypeOK, process
<1>9. CASE UNCHANGED vars
  BY <1>9 DEF vars, file, process, TypeInv, TypeOK
<1>10. QED
  BY <1>1, <1>2, <1>3, <1>4, <1>5, <1>6, <1>7, <1>8, <1>9 DEF Next

\* Every variable keeps its type, whatever statement fails: every new row of the
\* tables finds an id above all others (AddDevice, AddSession).
THEOREM TypeCorrect == Spec => []TypeOK
<1>1. TypeInv => TypeOK
  BY DEF TypeInv
<1>2. QED
  BY <1>1, InitType, NextType, PTL DEF Spec

-----------------------------------------------------------------------------
(* Rows that are removed and added anew *)

\* A table whose rows come and go by renewal only: its ids and its hashes name
\* rows, and below the largest id there is no gap that a renewal would leave.
Dense(rows) ==
  /\ \A r \in rows : r.id \in Nat \ {0}
  /\ \A r, s \in rows : r.id = s.id \/ r.hash = s.hash => r = s
  /\ \A r \in rows : (\A s \in rows : s.id <= r.id) =>
       r.id = 1 \/ \E s \in rows : s.id + 1 = r.id

\* References that do not lie beyond the largest id.
Reached(rows, i) == \E r \in rows : i <= r.id

\* The row "new" of hash h reaches what the table reached, and what refers to its id
\* referred to the row it takes the place of.
TakesPlace(rows, h, new) ==
  \A i \in Nat : Reached(rows, i) =>
    /\ Reached(WithoutHash(rows, h) \cup {new}, i)
    /\ i = new.id => \E r \in rows : r.id = i /\ r.hash = h

LEMMA NoRows == Dense({}) /\ Bounded({})
  BY DEF Dense, Bounded

\* The row that is removed for a hash and added with the next id takes an id that
\* was referred to only if it was its own.
LEMMA Renewed ==
  ASSUME NEW rows, Dense(rows), Bounded(rows), NEW h,
         NEW new, new.id = NextId(WithoutHash(rows, h)), new.hash = h
  PROVE  /\ Dense(WithoutHash(rows, h) \cup {new})
         /\ \A r \in WithoutHash(rows, h) : r.id # new.id
         /\ TakesPlace(rows, h, new)
<1> DEFINE rest == WithoutHash(rows, h)
           n == NextId(rest)
<1>1. rest \in SUBSET rows /\ \A r \in rows : r \in rest <=> r.hash # h
  BY DEF WithoutHash
<1> HIDE DEF rest
<1>2. Bounded(rest) /\ \A r \in rest : r.id \in Nat
  BY <1>1, BoundedShrinks DEF Dense
<1>3. /\ n \in Nat \ {0}
      /\ \A r \in rest : r.id < n
      /\ n = 1 \/ \E r \in rest : n = r.id + 1
  BY <1>2, NextIdIs
<1> HIDE DEF n
<1>4. ASSUME NEW r \in rows, ~ (r.id < n) PROVE r.id = n /\ r.hash = h
  <2>1. r.id \in Nat /\ n <= r.id
    BY <1>3, <1>4 DEF Dense
  <2>2. r \notin rest
    BY <1>3, <1>4
  <2>3. r.hash = h
    BY <1>1, <2>2
  <2>4. \A s \in rows : s = r \/ s \in rest
    BY <1>1, <2>3 DEF Dense
  <2>5. \A s \in rows : s.id <= r.id
    BY <1>2, <1>3, <2>1, <2>4
  <2>6. CASE r.id = 1
    BY <1>3, <2>1, <2>3, <2>6
  <2>7. ASSUME NEW s \in rows, s.id + 1 = r.id PROVE r.id = n
    <3>1. s \in rest
      BY <2>1, <2>4, <2>7
    <3>2. s.id \in Nat /\ s.id < n
      BY <1>2, <1>3, <3>1
    <3>3. QED
      BY <1>3, <2>1, <2>7, <3>2
  <2>8. QED
    BY <2>3, <2>5, <2>6, <2>7 DEF Dense
<1>5. new.id = n
  BY DEF rest, n
<1>6. ASSUME NEW i \in Nat, Reached(rows, i)
      PROVE  /\ Reached(rest \cup {new}, i)
             /\ i = new.id => \E r \in rows : r.id = i /\ r.hash = h
  <2>1. PICK r \in rows : i <= r.id
    BY <1>6 DEF Reached
  <2>2. r.id \in Nat
    BY DEF Dense
  <2>3. r.id < n \/ (r.id = n /\ r.hash = h)
    BY <1>4
  <2>4. i <= new.id
    BY <1>3, <1>5, <2>1, <2>2, <2>3
  <2>5. i = new.id => r.id = i /\ r.hash = h
    BY <1>3, <1>5, <2>1, <2>2, <2>3
  <2>6. QED
    BY <2>4, <2>5 DEF Reached
<1>7. Dense(rest \cup {new})
  <2>1. \A r \in rest \cup {new} : r.id \in Nat \ {0}
    BY <1>1, <1>3, <1>5 DEF Dense
  <2>2. \A r, s \in rest : r.id = s.id \/ r.hash = s.hash => r = s
    BY <1>1 DEF Dense
  <2>3. \A r \in rest : r.id # new.id /\ r.hash # new.hash
    BY <1>1, <1>2, <1>3, <1>5
  <2>4. \A r, s \in rest \cup {new} : r.id = s.id \/ r.hash = s.hash => r = s
    BY <2>2, <2>3
  <2>5. ASSUME NEW r \in rest \cup {new}, \A s \in rest \cup {new} : s.id <= r.id
        PROVE  r.id = 1 \/ \E s \in rest \cup {new} : s.id + 1 = r.id
    <3>1. r = new
      <4>1. new.id <= r.id
        BY <2>5
      <4>2. QED
        BY <1>2, <1>3, <1>5, <4>1
    <3>2. QED
      BY <1>3, <1>5, <3>1
  <2>6. QED
    BY <2>1, <2>4, <2>5 DEF Dense
<1>8. \A r \in rest : r.id # new.id
  BY <1>2, <1>3, <1>5
<1>9. QED
  BY <1>6, <1>7, <1>8 DEF rest, TakesPlace

\* Stamping leaves a table as dense as it is.
LEMMA StampedDense ==
  ASSUME NEW rows \in SUBSET SessionRows, Dense(rows), NEW h
  PROVE  Dense(Stamped(rows, h))
<1>1. \A s \in rows : \E t \in Stamped(rows, h) : t.id = s.id
  BY StampedIs
<1>2. \A t \in Stamped(rows, h) : \E s \in rows :
        t.id = s.id /\ t.hash = s.hash /\ t = Stamp(s, h)
  BY StampedIs
<1>3. \A r \in Stamped(rows, h) : r.id \in Nat \ {0}
  BY <1>2 DEF Dense
<1>4. \A r, s \in Stamped(rows, h) : r.id = s.id \/ r.hash = s.hash => r = s
  BY <1>2 DEF Dense
<1>5. ASSUME NEW r \in Stamped(rows, h), \A s \in Stamped(rows, h) : s.id <= r.id
      PROVE  r.id = 1 \/ \E s \in Stamped(rows, h) : s.id + 1 = r.id
  BY <1>1, <1>2, <1>5 DEF Dense
<1>6. QED
  BY <1>3, <1>4, <1>5 DEF Dense

-----------------------------------------------------------------------------
(* The handlers when no statement fails *)

\* What the order of the requests has prepared: the tables are there when a
\* statement needs them, the device has a row when a session refers to it, and
\* nothing is current before the first session.
Prepared ==
  /\ phase # "off" => serving
  /\ phase \in {"AddDevice", "AddSession", "recording"} => created
  /\ phase \in {"AddSession", "recording"} => DeviceIds # {}
  /\ phase \in {"InitDatabase", "AddDevice"} => current = NoHash

\* History and rows agree.
Known ==
  /\ \A s \in sessions : s.born \in DOMAIN born /\ born[s.born].hash = s.hash
  /\ \A x \in data : x.born \in DOMAIN born

\* References lie within the table they refer to, or within what it was.
Referred ==
  /\ \A s \in sessions : Reached(devices, s.device)
  /\ \A x \in data : Reached(sessions, x.session)

TablesInv ==
  /\ TypeInv /\ Prepared /\ Known
  /\ Dense(devices) /\ Dense(sessions) /\ Referred
  /\ OwnDevice /\ SameHash

\* The tables exist: a query has one result.
LEMMA OneResult ==
  ASSUME QueryFails = FALSE, created = TRUE
  PROVE  Results = {TRUE}
  BY DEF Results

LEMMA InitDatabaseIs ==
  ASSUME QueryFails = FALSE, InitDatabase
  PROVE  /\ created' = TRUE /\ phase = "InitDatabase" /\ phase' = "AddDevice" /\ serving' = TRUE
         /\ \/ devices' = {} /\ sessions' = {} /\ data' = {}
            \/ UNCHANGED <<devices, sessions, data>>
         /\ UNCHANGED <<born, run, device, forced, current, ended>>
<1>1. /\ phase = "InitDatabase" /\ phase' = "AddDevice"
      /\ UNCHANGED <<born, run, device, forced, current, ended>>
  BY DEF InitDatabase, Handles
<1>2. created' = TRUE /\ serving' = TRUE
  BY DEF InitDatabase, Returns
<1>3. \/ devices' = {} /\ sessions' = {} /\ data' = {}
      \/ UNCHANGED <<devices, sessions, data>>
  BY DEF InitDatabase, DropTables
<1>4. QED
  BY <1>1, <1>2, <1>3

LEMMA AddDeviceIs ==
  ASSUME QueryFails = FALSE, TypeOK, Prepared, AddDevice
  PROVE  /\ phase = "AddDevice" /\ phase' = "recording" /\ serving' = TRUE
         /\ devices' = WithoutHash(devices, device) \cup
              {[id |-> NextId(WithoutHash(devices, device)), hash |-> device]}
         /\ UNCHANGED <<created, sessions, data, born, run, device, forced, current, ended>>
<1>1. phase = "AddDevice"
  BY DEF AddDevice, Handles
<1>2. Results = {TRUE}
  BY <1>1, OneResult DEF Prepared, TypeOK
<1>3. /\ devices' = WithoutHash(devices, device) \cup
           {[id |-> NextId(WithoutHash(devices, device)), hash |-> device]}
      /\ Returns(TRUE)
  BY <1>2 DEF AddDevice
<1>4. QED
  BY <1>1, <1>3 DEF AddDevice, Returns

SessionRow(d) ==
  [id |-> NextId(WithoutHash(sessions, current)), hash |-> current, open |-> TRUE,
   device |-> d, born |-> Len(born) + 1]
Birth == [hash |-> current, device |-> device, run |-> run]

LEMMA AddSessionIs ==
  ASSUME QueryFails = FALSE, TypeInv, Prepared, AddSession
  PROVE  /\ phase = "AddSession" /\ phase' = "recording" /\ serving' = TRUE /\ current \in Hash
         /\ \E d \in DeviceIds :
              sessions' = WithoutHash(sessions, current) \cup {SessionRow(d)}
         /\ born' = Append(born, Birth) /\ ended' = FALSE
         /\ UNCHANGED <<created, devices, data, run, device, forced, current>>
<1>1. phase = "AddSession" /\ phase' = "recording"
  BY DEF AddSession, Handles
<1>2. Results = {TRUE} /\ DeviceIds # {} /\ current \in Hash
  BY <1>1, OneResult DEF Prepared, TypeInv, TypeOK
<1>3. /\ \E d \in DeviceIds :
           sessions' = WithoutHash(sessions, current) \cup {SessionRow(d)}
      /\ born' = Append(born, Birth) /\ ended' = FALSE
      /\ Returns(TRUE)
  BY <1>2 DEF AddSession, SessionRow, Birth
<1>4. QED
  BY <1>1, <1>2, <1>3 DEF AddSession, Returns

LEMMA EndSessionIs ==
  ASSUME QueryFails = FALSE, TypeInv, Prepared, EndSession
  PROVE  /\ phase = "recording" /\ current \in Hash
         /\ sessions' = Stamped(sessions, current) /\ ended' = TRUE
         /\ UNCHANGED <<created, devices, data, born, run, phase, device, forced, current,
                        serving>>
<1>1. phase = "recording" /\ current \in Hash
  BY DEF EndSession, Handles, TypeInv, TypeOK, MaybeHash
<1>2. Results = {TRUE}
  BY <1>1, OneResult DEF Prepared, TypeInv, TypeOK
<1>3. QED
  BY <1>1, <1>2 DEF EndSession

DataRow(s) == [session |-> s.id, born |-> s.born, run |-> run]

LEMMA AddDataIs ==
  ASSUME QueryFails = FALSE, TypeInv, Prepared, AddData
  PROVE  /\ phase = "recording" /\ current \in Hash
         /\ \/ \E s \in OpenSessions : data' = data \cup {DataRow(s)}
            \/ OpenSessions = {} /\ data' = data
         /\ UNCHANGED <<created, devices, sessions, born, process>>
<1>1. phase = "recording" /\ current \in Hash
  BY DEF AddData, Handles, TypeInv, TypeOK, MaybeHash
<1>2. Results = {TRUE}
  BY <1>1, OneResult DEF Prepared, TypeInv, TypeOK
<1>3. QED
  BY <1>1, <1>2 DEF AddData, DataRow

-----------------------------------------------------------------------------
(* The tables when no statement fails *)

\* Rows and references as they were.
LEMMA SameTables ==
  ASSUME TablesInv, UNCHANGED <<devices, sessions, data, born>>
  PROVE  Known' /\ Dense(devices)' /\ Dense(sessions)' /\ Referred' /\ OwnDevice' /\ SameHash'
<1>1. Known' /\ OwnDevice' /\ SameHash'
  BY DEF TablesInv, Known, OwnDevice, SameHash
<1>2. Dense(devices)' /\ Dense(sessions)' /\ Referred'
  BY DEF TablesInv, Dense, Referred, Reached
<1>3. QED
  BY <1>1, <1>2

LEMMA NoTables ==
  ASSUME devices' = {}, sessions' = {}, data' = {}
  PROVE  Known' /\ Dense(devices)' /\ Dense(sessions)' /\ Referred' /\ OwnDevice' /\ SameHash'
<1>1. Known' /\ OwnDevice' /\ SameHash'
  BY DEF Known, OwnDevice, SameHash
<1>2. Dense(devices)' /\ Dense(sessions)' /\ Referred'
  BY DEF Dense, Referred
<1>3. QED
  BY <1>1, <1>2

\* AddDevice gives a device another id; what referred to the id it takes was its own.
LEMMA AddDeviceTables ==
  ASSUME QueryFails = FALSE, TablesInv, AddDevice
  PROVE  Known' /\ Dense(devices)' /\ Dense(sessions)' /\ Referred' /\ OwnDevice' /\ SameHash'
<1> DEFINE rest == WithoutHash(devices, device)
           new == [id |-> NextId(rest), hash |-> device]
<1>1. /\ devices' = rest \cup {new}
      /\ UNCHANGED <<sessions, data, born>>
  BY AddDeviceIs DEF TablesInv, TypeInv
<1>2. rest \subseteq devices
  BY DEF WithoutHash
<1>3. new.id = NextId(rest) /\ new.hash = device
  OBVIOUS
<1> HIDE DEF new
<1>4. /\ Dense(rest \cup {new})
      /\ \A i \in Nat : Reached(devices, i) =>
           /\ Reached(rest \cup {new}, i)
           /\ i = new.id => \E d \in devices : d.id = i /\ d.hash = device
  <2>1. Dense(devices) /\ Bounded(devices)
    BY DEF TablesInv, TypeInv
  <2>2. new.id = NextId(WithoutHash(devices, device)) /\ new.hash = device
    BY <1>3
  <2>3. Dense(rest \cup {new}) /\ TakesPlace(devices, device, new)
    BY <2>1, <2>2, Renewed
  <2>4. QED
    BY <2>3 DEF TakesPlace
<1> HIDE DEF rest
<1>5. \A s \in sessions : s.device \in Nat
  BY DEF TablesInv, TypeInv, TypeOK, SessionRows
<1>6. Dense(devices)' /\ Dense(sessions)'
  BY <1>1, <1>4 DEF TablesInv, Dense
<1>7. Referred'
  BY <1>1, <1>4, <1>5 DEF TablesInv, Referred, Reached
<1>8. OwnDevice'
  <2> SUFFICES ASSUME NEW s \in sessions, NEW d \in rest \cup {new}, s.device = d.id
               PROVE  born[s.born].device = d.hash
    BY <1>1 DEF OwnDevice
  <2>1. CASE d \in rest
    BY <1>2, <2>1 DEF TablesInv, OwnDevice
  <2>2. CASE d = new
    <3>1. PICK e \in devices : e.id = s.device /\ e.hash = device
      BY <1>4, <1>5, <2>2 DEF TablesInv, Referred
    <3>2. QED
      BY <1>3, <2>2, <3>1 DEF TablesInv, OwnDevice
  <2>3. QED
    BY <2>1, <2>2
<1>9. Known' /\ SameHash'
  BY <1>1 DEF TablesInv, Known, SameHash
<1>10. QED
  BY <1>6, <1>7, <1>8, <1>9

\* AddSession takes the place of the session with its hash, and data that stays
\* behind under the id it takes was that session's.
LEMMA AddSessionTables ==
  ASSUME QueryFails = FALSE, TablesInv, AddSession
  PROVE  Known' /\ Dense(devices)' /\ Dense(sessions)' /\ Referred' /\ OwnDevice' /\ SameHash'
<1> DEFINE rest == WithoutHash(sessions, current)
<1>1. PICK d \in DeviceIds : sessions' = rest \cup {SessionRow(d)}
  BY AddSessionIs DEF TablesInv
<1>2. born' = Append(born, Birth) /\ UNCHANGED <<devices, data>>
  BY AddSessionIs DEF TablesInv
<1> DEFINE new == SessionRow(d)
<1>3. /\ new.id = NextId(rest) /\ new.hash = current /\ new.device = d
      /\ new.born = Len(born) + 1
  BY DEF SessionRow
<1> HIDE DEF new
<1>4. rest \subseteq sessions
  BY DEF WithoutHash
<1>5. /\ Dense(rest \cup {new})
      /\ \A i \in Nat : Reached(sessions, i) =>
           /\ Reached(rest \cup {new}, i)
           /\ i = new.id => \E s \in sessions : s.id = i /\ s.hash = current
  <2>1. Dense(sessions) /\ Bounded(sessions)
    BY DEF TablesInv, TypeInv
  <2>2. new.id = NextId(WithoutHash(sessions, current)) /\ new.hash = current
    BY <1>3
  <2>3. Dense(rest \cup {new}) /\ TakesPlace(sessions, current, new)
    BY <2>1, <2>2, Renewed
  <2>4. QED
    BY <2>3 DEF TakesPlace
<1> HIDE DEF rest
<1>6. sessions' = rest \cup {new}
  BY <1>1 DEF new
<1>7. /\ born \in Seq(Births)
      /\ \A x \in data : x.session \in Nat
      /\ \A s \in sessions : s.id \in Nat
  BY DEF TablesInv, TypeInv, TypeOK, DataRows, SessionRows
<1>8. /\ DOMAIN born \subseteq DOMAIN born'
      /\ \A i \in DOMAIN born : born'[i] = born[i]
      /\ Len(born) + 1 \in DOMAIN born' /\ born'[Len(born) + 1] = Birth
  BY <1>2, <1>7
<1>9. Birth.hash = current /\ Birth.device = device
  BY DEF Birth
<1>10. Known'
  BY <1>2, <1>3, <1>4, <1>6, <1>8, <1>9 DEF TablesInv, Known
<1>11. Dense(devices)' /\ Dense(sessions)'
  BY <1>2, <1>5, <1>6 DEF TablesInv, Dense
<1>12. Referred'
  <2>1. Reached(devices, d)
    BY DEF DeviceIds, Reached, TablesInv, TypeInv, TypeOK, DeviceRows
  <2>2. \A s \in rest \cup {new} : Reached(devices, s.device)
    BY <1>3, <1>4, <2>1 DEF TablesInv, Referred
  <2>3. \A x \in data : Reached(rest \cup {new}, x.session)
    BY <1>5, <1>7 DEF TablesInv, Referred
  <2>4. QED
    BY <1>2, <1>6, <2>2, <2>3 DEF Referred, Reached
<1>13. OwnDevice'
  <2> SUFFICES ASSUME NEW s \in rest \cup {new}, NEW e \in devices, s.device = e.id
               PROVE  born'[s.born].device = e.hash
    BY <1>2, <1>6 DEF OwnDevice
  <2>1. CASE s \in rest
    BY <1>4, <1>8, <2>1 DEF TablesInv, OwnDevice, Known
  <2>2. CASE s = new
    <3>1. PICK f \in devices : f.hash = device /\ f.id = d
      BY DEF DeviceIds
    <3>2. e = f
      BY <1>3, <2>2, <3>1 DEF TablesInv, Dense
    <3>3. QED
      BY <1>3, <1>8, <1>9, <2>2, <3>1, <3>2
  <2>3. QED
    BY <2>1, <2>2
<1>14. SameHash'
  <2> SUFFICES ASSUME NEW x \in data, NEW s \in rest \cup {new}, x.session = s.id
               PROVE  born'[x.born].hash = s.hash
    BY <1>2, <1>6 DEF SameHash
  <2>1. born'[x.born].hash = born[x.born].hash
    BY <1>8 DEF TablesInv, Known
  <2>2. CASE s \in rest
    BY <1>4, <2>1, <2>2 DEF TablesInv, SameHash
  <2>3. CASE s = new
    <3>1. PICK t \in sessions : t.id = x.session /\ t.hash = current
      BY <1>5, <1>7, <2>3 DEF TablesInv, Referred
    <3>2. QED
      BY <1>3, <2>1, <2>3, <3>1 DEF TablesInv, SameHash
  <2>4. QED
    BY <2>2, <2>3
<1>15. QED
  BY <1>10, <1>11, <1>12, <1>13, <1>14

LEMMA EndSessionTables ==
  ASSUME QueryFails = FALSE, TablesInv, EndSession
  PROVE  Known' /\ Dense(devices)' /\ Dense(sessions)' /\ Referred' /\ OwnDevice' /\ SameHash'
<1> DEFINE stamped == Stamped(sessions, current)
<1>1. sessions' = stamped /\ UNCHANGED <<devices, data, born>>
  BY EndSessionIs DEF TablesInv
<1>2. sessions \in SUBSET SessionRows
  BY DEF TablesInv, TypeInv, TypeOK
<1>3. Dense(stamped)
  BY <1>2, StampedDense DEF TablesInv
<1>4. /\ \A s \in sessions : \E t \in stamped : t.id = s.id
      /\ \A t \in stamped : \E s \in sessions :
           t.id = s.id /\ t.hash = s.hash /\ t.device = s.device /\ t.born = s.born
  BY <1>2, StampedIs
<1> HIDE DEF stamped
<1>5. Known' /\ OwnDevice' /\ SameHash'
  BY <1>1, <1>4 DEF TablesInv, Known, OwnDevice, SameHash
<1>6. Dense(devices)' /\ Dense(sessions)'
  BY <1>1, <1>3 DEF TablesInv, Dense
<1>7. Referred'
  BY <1>1, <1>4 DEF TablesInv, Referred, Reached
<1>8. QED
  BY <1>5, <1>6, <1>7

LEMMA AddDataTables ==
  ASSUME QueryFails = FALSE, TablesInv, AddData
  PROVE  Known' /\ Dense(devices)' /\ Dense(sessions)' /\ Referred' /\ OwnDevice' /\ SameHash'
<1>1. UNCHANGED <<devices, sessions, born>>
  BY AddDataIs DEF TablesInv
<1>2. \/ data' = data
      \/ \E s \in sessions : data' = data \cup {DataRow(s)}
  BY AddDataIs DEF TablesInv, OpenSessions
<1>3. CASE data' = data
  BY <1>1, <1>3, SameTables
<1>4. ASSUME NEW s \in sessions, data' = data \cup {DataRow(s)}
      PROVE  Known' /\ Referred' /\ SameHash'
  <2> DEFINE new == DataRow(s)
  <2>1. new.session = s.id /\ new.born = s.born
    BY DEF DataRow
  <2> HIDE DEF new
  <2>2. data' = data \cup {new}
    BY <1>4 DEF new
  <2>3. s.id \in Nat
    BY DEF TablesInv, TypeInv, TypeOK, SessionRows
  <2>4. Known'
    BY <1>1, <2>1, <2>2 DEF TablesInv, Known
  <2>5. Referred'
    <3>1. Reached(sessions, s.id)
      BY <2>3 DEF Reached
    <3>2. QED
      BY <1>1, <2>1, <2>2, <3>1 DEF TablesInv, Referred, Reached
  <2>6. ASSUME NEW t \in sessions, new.session = t.id PROVE born[new.born].hash = t.hash
    BY <2>1, <2>6 DEF TablesInv, Dense, Known
  <2>7. QED
    BY <1>1, <2>2, <2>4, <2>5, <2>6 DEF TablesInv, SameHash
<1>5. Dense(devices)' /\ Dense(sessions)' /\ OwnDevice'
  BY <1>1 DEF TablesInv, Dense, OwnDevice
<1>6. QED
  BY <1>2, <1>3, <1>4, <1>5

LEMMA NextTables ==
  ASSUME QueryFails = FALSE, TablesInv, [Next]_vars
  PROVE  Known' /\ Dense(devices)' /\ Dense(sessions)' /\ Referred' /\ OwnDevice' /\ SameHash'
<1>1. ASSUME NEW d \in Device, NEW init \in BOOLEAN, NEW removed \in BOOLEAN,
             StartProgram(d, init, removed)
      PROVE  \/ devices' = {} /\ sessions' = {} /\ data' = {}
             \/ UNCHANGED <<devices, sessions, data, born>>
  BY <1>1 DEF StartProgram
<1>2. CASE StopProgram
  BY <1>2, SameTables DEF StopProgram, file
<1>3. CASE InitDatabase
  BY <1>3, InitDatabaseIs, SameTables, NoTables
<1>4. ASSUME NEW h \in Hash, SetSession(h) PROVE UNCHANGED <<devices, sessions, data, born>>
  BY <1>4 DEF SetSession, file
<1>5. CASE UNCHANGED vars
  BY <1>5, SameTables DEF vars, file
<1>6. QED
  BY <1>1, <1>2, <1>3, <1>4, <1>5, SameTables, NoTables, AddDeviceTables, AddSessionTables,
     EndSessionTables, AddDataTables DEF Next

LEMMA NextPrepared ==
  ASSUME QueryFails = FALSE, TypeInv, Prepared, [Next]_vars
  PROVE  Prepared'
<1>1. ASSUME NEW d \in Device, NEW init \in BOOLEAN, NEW removed \in BOOLEAN,
             StartProgram(d, init, removed)
      PROVE  Prepared'
  BY <1>1 DEF StartProgram, Prepared
<1>2. CASE StopProgram
  BY <1>2 DEF StopProgram, Prepared
<1>3. CASE InitDatabase
  BY <1>3, InitDatabaseIs DEF Prepared
<1>4. CASE AddDevice
  <2> DEFINE new == [id |-> NextId(WithoutHash(devices, device)), hash |-> device]
  <2>1. /\ phase = "AddDevice" /\ phase' = "recording" /\ serving' = TRUE
        /\ devices' = WithoutHash(devices, device) \cup {new}
        /\ UNCHANGED <<created, device>>
    BY <1>4, AddDeviceIs DEF TypeInv
  <2>2. new.hash = device
    OBVIOUS
  <2> HIDE DEF new
  <2>3. DeviceIds' # {}
    BY <2>1, <2>2 DEF DeviceIds
  <2>4. QED
    BY <2>1, <2>3 DEF Prepared
<1>5. ASSUME NEW h \in Hash, SetSession(h) PROVE Prepared'
  <2>1. /\ phase = "recording" /\ phase' \in {"AddSession", "recording"}
        /\ UNCHANGED <<created, devices, device, serving>>
    BY <1>5 DEF SetSession, file
  <2>2. DeviceIds' = DeviceIds
    BY <2>1 DEF DeviceIds
  <2>3. QED
    BY <2>1, <2>2 DEF Prepared
<1>6. CASE AddSession
  <2>1. /\ phase = "AddSession" /\ phase' = "recording" /\ serving' = TRUE
        /\ UNCHANGED <<created, devices, device>>
    BY <1>6, AddSessionIs
  <2>2. DeviceIds' = DeviceIds
    BY <2>1 DEF DeviceIds
  <2>3. QED
    BY <2>1, <2>2 DEF Prepared
<1>7. ASSUME UNCHANGED <<created, devices, device, phase, current, serving>>
      PROVE  Prepared'
  <2>1. DeviceIds' = DeviceIds
    BY <1>7 DEF DeviceIds
  <2>2. QED
    BY <1>7, <2>1 DEF Prepared
<1>8. CASE EndSession \/ AddData \/ UNCHANGED vars
  <2>1. UNCHANGED <<created, devices, device, phase, current, serving>>
    BY <1>8, EndSessionIs, AddDataIs DEF vars, file, process
  <2>2. QED
    BY <1>7, <2>1
<1>9. QED
  BY <1>1, <1>2, <1>3, <1>4, <1>5, <1>6, <1>8 DEF Next

LEMMA InitTables == Init => TablesInv
<1> SUFFICES ASSUME Init PROVE TablesInv
  OBVIOUS
<1>1. TypeInv /\ Prepared
  BY InitType DEF Init, Prepared
<1>2. devices = {} /\ sessions = {} /\ data = {}
  BY DEF Init
<1>3. QED
  BY <1>1, <1>2 DEF TablesInv, Known, Dense, Referred, OwnDevice, SameHash

LEMMA NextTablesInv ==
  ASSUME QueryFails = FALSE, TablesInv, [Next]_vars
  PROVE  TablesInv'
  BY NextType, NextPrepared, NextTables DEF TablesInv

LEMMA TablesHold ==
  ASSUME QueryFails = FALSE
  PROVE  Spec => []TablesInv
  BY InitTables, NextTablesInv, PTL DEF Spec

\* Sessions stay with the device they were recorded from, for any number of devices
\* that take turns and any number of runs, when no statement fails (AddDevice).
THEOREM OwnDeviceKept ==
  ASSUME QueryFails = FALSE
  PROVE  Spec => []OwnDevice
<1>1. TablesInv => OwnDevice
  BY DEF TablesInv
<1>2. QED
  BY <1>1, TablesHold, PTL

\* Data stays with a session of its hash, though ids of sessions are used again,
\* when no statement fails (AddSession).
THEOREM SameHashKept ==
  ASSUME QueryFails = FALSE
  PROVE  Spec => []SameHash
<1>1. TablesInv => SameHash
  BY DEF TablesInv
<1>2. QED
  BY <1>1, TablesHold, PTL

\* A hash never has two rows, when no statement fails (AddSession).
THEOREM HashIsKey ==
  ASSUME QueryFails = FALSE
  PROVE  Spec => []OneRowPerHash
<1>1. TablesInv => OneRowPerHash
  BY DEF TablesInv, Dense, OneRowPerHash
<1>2. QED
  BY <1>1, TablesHold, PTL

-----------------------------------------------------------------------------
(* The current session, when no session becomes current unrecorded *)

\* An open row of the current session is this run's.
OwnOpen == phase = "recording" => \A s \in OpenSessions : born[s.born].run = run

CurrentInv == EndedIsClosed /\ OwnOpen /\ RecordedInThisRun

LEMMA SetSessionIs ==
  ASSUME Refuses = FALSE, Prepared, NEW h \in Hash, SetSession(h)
  PROVE  /\ phase = "recording" /\ phase' = "AddSession" /\ current' = h
         /\ UNCHANGED <<file, run, device, forced, ended, serving>>
<1>1. phase = "recording" /\ serving
  BY DEF SetSession, Prepared
<1>2. QED
  BY <1>1 DEF SetSession

LEMMA NextCurrent ==
  ASSUME QueryFails = FALSE, Refuses = FALSE, TablesInv, CurrentInv, [Next]_vars
  PROVE  CurrentInv'
<1> USE DEF CurrentInv
<1>1. ASSUME NEW d \in Device, NEW init \in BOOLEAN, NEW removed \in BOOLEAN,
             StartProgram(d, init, removed)
      PROVE  CurrentInv'
  <2>1. /\ phase' = "InitDatabase" /\ UNCHANGED born
        /\ data' = {} \/ UNCHANGED data
    BY <1>1 DEF StartProgram
  <2>2. QED
    BY <2>1 DEF EndedIsClosed, OwnOpen, RecordedInThisRun
<1>2. CASE StopProgram
  BY <1>2 DEF StopProgram, file, EndedIsClosed, OwnOpen, RecordedInThisRun
<1>3. CASE InitDatabase
  <2>1. phase' = "AddDevice" /\ UNCHANGED born /\ (data' = {} \/ UNCHANGED data)
    BY <1>3, InitDatabaseIs
  <2>2. QED
    BY <2>1 DEF EndedIsClosed, OwnOpen, RecordedInThisRun
<1>4. CASE AddDevice
  <2>1. phase = "AddDevice" /\ UNCHANGED <<sessions, data, born, run, current>>
    BY <1>4, AddDeviceIs DEF TablesInv, TypeInv
  <2>2. current = NoHash
    BY <2>1 DEF TablesInv, Prepared
  <2>3. \A s \in sessions : s.hash # current
    BY <2>2, HashAssumption DEF TablesInv, TypeInv, TypeOK, SessionRows
  <2>4. QED
    BY <2>1, <2>3 DEF EndedIsClosed, OwnOpen, OpenSessions, RecordedInThisRun
<1>5. ASSUME NEW h \in Hash, SetSession(h) PROVE CurrentInv'
  <2>1. phase' = "AddSession" /\ UNCHANGED <<data, born>>
    BY <1>5, SetSessionIs DEF TablesInv, file
  <2>2. QED
    BY <2>1 DEF EndedIsClosed, OwnOpen, RecordedInThisRun
<1>6. CASE AddSession
  <2> DEFINE rest == WithoutHash(sessions, current)
  <2>1. PICK d \in DeviceIds : sessions' = rest \cup {SessionRow(d)}
    BY <1>6, AddSessionIs DEF TablesInv
  <2>2. born' = Append(born, Birth) /\ ended' = FALSE /\ UNCHANGED <<data, run, current>>
    BY <1>6, AddSessionIs DEF TablesInv
  <2>3. SessionRow(d).hash = current /\ SessionRow(d).born = Len(born) + 1
    BY DEF SessionRow
  <2>4. \A s \in rest : s.hash # current
    BY DEF WithoutHash
  <2> HIDE DEF rest
  <2>5. born \in Seq(Births)
    BY DEF TablesInv, TypeInv, TypeOK
  <2>6. /\ \A i \in DOMAIN born : born'[i] = born[i]
        /\ born'[Len(born) + 1] = Birth
    BY <2>2, <2>5
  <2>7. Birth.run = run
    BY DEF Birth
  <2>8. OwnOpen'
    BY <2>1, <2>2, <2>3, <2>4, <2>6, <2>7 DEF OwnOpen, OpenSessions
  <2>9. RecordedInThisRun'
    BY <2>2, <2>6 DEF RecordedInThisRun, TablesInv, Known
  <2>10. QED
    BY <2>2, <2>8, <2>9 DEF EndedIsClosed
<1>7. CASE EndSession
  <2>1. /\ sessions' = Stamped(sessions, current)
        /\ UNCHANGED <<data, born, run, phase, current>>
    BY <1>7, EndSessionIs DEF TablesInv
  <2>2. \A t \in Stamped(sessions, current) : \E s \in sessions :
          t.hash = s.hash /\ t.open = (s.open /\ s.hash # current)
    BY StampedIs DEF TablesInv, TypeInv, TypeOK
  <2>3. \A t \in Stamped(sessions, current) : t.hash = current => ~t.open
    BY <2>2
  <2>4. QED
    BY <2>1, <2>3 DEF EndedIsClosed, OwnOpen, OpenSessions, RecordedInThisRun
<1>8. CASE AddData
  <2>1. phase = "recording" /\ UNCHANGED <<sessions, born, run, phase, current, ended>>
    BY <1>8, AddDataIs DEF TablesInv, process
  <2>2. data' = data \/ \E s \in OpenSessions : data' = data \cup {DataRow(s)}
    BY <1>8, AddDataIs DEF TablesInv
  <2>3. \A s \in OpenSessions : DataRow(s).born = s.born /\ DataRow(s).run = run
    BY DEF DataRow
  <2>4. RecordedInThisRun'
    BY <2>1, <2>2, <2>3 DEF OwnOpen, RecordedInThisRun
  <2>5. QED
    BY <2>1, <2>4 DEF EndedIsClosed, OwnOpen, OpenSessions
<1>9. CASE UNCHANGED vars
  BY <1>9 DEF vars, file, process, EndedIsClosed, OwnOpen, OpenSessions, RecordedInThisRun
<1>10. QED
  BY <1>1, <1>2, <1>3, <1>4, <1>5, <1>6, <1>7, <1>8, <1>9 DEF Next

LEMMA InitCurrent == Init => CurrentInv
  BY DEF Init, CurrentInv, EndedIsClosed, OwnOpen, RecordedInThisRun

LEMMA CurrentHolds ==
  ASSUME QueryFails = FALSE, Refuses = FALSE
  PROVE  Spec => [](TablesInv /\ CurrentInv)
<1>1. Init => TablesInv /\ CurrentInv
  BY InitTables, InitCurrent
<1>2. TablesInv /\ CurrentInv /\ [Next]_vars => (TablesInv /\ CurrentInv)'
  BY NextTablesInv, NextCurrent
<1>3. QED
  BY <1>1, <1>2, PTL DEF Spec

\* Every data row is of a session that its own run inserted, whatever earlier runs
\* left open, when no statement fails and no session is current unrecorded.
THEOREM RecordedByOwnRun ==
  ASSUME QueryFails = FALSE, Refuses = FALSE
  PROVE  Spec => []RecordedInThisRun
<1>1. CurrentInv => RecordedInThisRun
  BY DEF CurrentInv
<1>2. QED
  BY <1>1, CurrentHolds, PTL

\* The end in memory is the end in the file, under the same conditions.
THEOREM EndsAgree ==
  ASSUME QueryFails = FALSE, Refuses = FALSE
  PROVE  Spec => []EndedIsClosed
<1>1. CurrentInv => EndedIsClosed
  BY DEF CurrentInv
<1>2. QED
  BY <1>1, CurrentHolds, PTL

-----------------------------------------------------------------------------
(* The tables implement Recording *)

\* What File!opened and the others are.
Opened == [i \in DOMAIN born |-> born[i].hash]
Present == {s.born : s \in sessions}
Closed == {s.born : s \in {t \in sessions : ~t.open}}
Fed == {x.born : x \in data}

LEMMA FunctionIsSeq ==
  ASSUME NEW n \in Nat, NEW S, NEW f \in [1 .. n -> S]
  PROVE  f \in Seq(S) /\ Len(f) = n
  OBVIOUS

LEMMA SameFile ==
  ASSUME Opened' = Opened, Present' = Present, Closed' = Closed, Active' = Active, Fed' = Fed
  PROVE  UNCHANGED File!vars
  BY DEF File!vars, Opened, Present, Closed, Fed

LEMMA NotRecording ==
  ASSUME phase # "recording" \/ OpenSessions = {}
  PROVE  Active = 0
  BY DEF Active

\* The session that takes data is the one open row of the current hash.
LEMMA ActiveIs ==
  ASSUME TablesInv, phase = "recording", NEW s \in OpenSessions
  PROVE  Active = s.born /\ s.born \in Nat \ {0} /\ OpenSessions = {s}
<1>1. OpenSessions = {s}
  BY DEF OpenSessions, TablesInv, Dense
<1>2. Active = s.born
  BY <1>1 DEF Active
<1>3. s.born \in DOMAIN born /\ born \in Seq(Births)
  BY DEF OpenSessions, TablesInv, Known, TypeInv, TypeOK
<1>4. QED
  BY <1>1, <1>2, <1>3

\* The rows and the history as they were.
LEMMA SameRows ==
  ASSUME UNCHANGED <<sessions, data, born>>
  PROVE  Opened' = Opened /\ Present' = Present /\ Closed' = Closed /\ Fed' = Fed
  BY DEF Opened, Present, Closed, Fed

\* The file is removed or its tables are dropped.
LEMMA EraseStep ==
  ASSUME Active = 0, Active' = 0, sessions' = {}, data' = {}, UNCHANGED born
  PROVE  File!Erase
<1>1. Present' = {} /\ Closed' = {} /\ Fed' = {} /\ Opened' = Opened
  BY DEF Opened, Present, Closed, Fed
<1>2. QED
  BY <1>1 DEF File!Erase, Opened, Present, Closed, Fed

\* Nobody writes any more what was active, or nothing was.
LEMMA AbandonStep ==
  ASSUME UNCHANGED <<sessions, data, born>>, Active' = 0
  PROVE  [File!Abandon]_(File!vars)
<1>1. Opened' = Opened /\ Present' = Present /\ Closed' = Closed /\ Fed' = Fed
  BY SameRows
<1>2. CASE Active = 0
  BY <1>1, <1>2, SameFile
<1>3. CASE Active # 0
  BY <1>1, <1>3 DEF File!Abandon, Opened, Present, Closed, Fed
<1>4. QED
  BY <1>2, <1>3

\* AddSession opens the next session in the place of one with its hash.
LEMMA OpenStep ==
  ASSUME QueryFails = FALSE, TablesInv, AddSession, NEW h \in Hash, h = current
  PROVE  File!Open(h)
<1> DEFINE rest == WithoutHash(sessions, current)
           kept == {i \in Present : Opened[i] # h}
<1>1. PICK d \in DeviceIds : sessions' = rest \cup {SessionRow(d)}
  BY AddSessionIs DEF TablesInv
<1> DEFINE new == SessionRow(d)
<1>2. /\ phase = "AddSession" /\ phase' = "recording"
      /\ born' = Append(born, Birth) /\ UNCHANGED <<data, current>>
  BY AddSessionIs DEF TablesInv
<1>3. new.hash = current /\ new.open = TRUE /\ new.born = Len(born) + 1
  BY DEF SessionRow
<1>4. sessions' = rest \cup {new}
  BY <1>1
<1> HIDE DEF new
<1>5. born \in Seq(Births) /\ Birth.hash = current
  BY DEF TablesInv, TypeInv, TypeOK, Birth
<1>6. \A s \in sessions : s.born \in DOMAIN born /\ Opened[s.born] = s.hash
  BY DEF TablesInv, Known, Opened
<1>7. rest = {s \in sessions : s.hash # current}
  BY DEF WithoutHash
<1> HIDE DEF rest
<1>8. kept = {s.born : s \in rest}
  BY <1>6, <1>7 DEF Present
<1>9. Closed \cap kept = {s.born : s \in {t \in rest : ~t.open}}
  BY <1>6, <1>7 DEF Present, Closed
<1> HIDE DEF kept
<1>10. Active = 0
  BY <1>2, NotRecording
<1>11. Len(Opened) = Len(born) /\ Opened' = Append(Opened, h)
  <2>1. Opened \in Seq(Hash) /\ Len(Opened) = Len(born)
    <3> DEFINE n == Len(born)
    <3>1. n \in Nat /\ born \in [1 .. n -> Births]
      BY <1>5
    <3>2. \A i \in 1 .. n : born[i].hash \in Hash
      <4> HIDE DEF n
      <4>1. \A i \in 1 .. n : born[i] \in Births
        BY <3>1
      <4>2. QED
        BY <4>1 DEF Births
    <3>3. Opened \in [1 .. n -> Hash]
      BY <1>5, <3>2 DEF Opened
    <3>4. QED
      BY <3>1, <3>3, FunctionIsSeq
  <2>2. DOMAIN born' = DOMAIN born \cup {Len(born) + 1}
    BY <1>2, <1>5
  <2>3. QED
    BY <1>2, <1>5, <2>1, <2>2 DEF Opened
<1>12. Present' = kept \cup {Len(Opened) + 1}
  BY <1>3, <1>4, <1>8, <1>11 DEF Present
<1>13. Closed' = Closed \cap kept
  BY <1>3, <1>4, <1>9 DEF Closed
<1>14. OpenSessions' = {new}
  BY <1>2, <1>3, <1>4, <1>7 DEF OpenSessions
<1>15. Active' = Len(Opened) + 1
  BY <1>2, <1>3, <1>11, <1>14 DEF Active
<1>16. Fed' = Fed
  BY <1>2 DEF Fed
<1>17. QED
  BY <1>10, <1>11, <1>12, <1>13, <1>15, <1>16
  DEF File!Open, kept, Opened, Present, Closed, Fed

\* EndSession closes the active session, or finds none.
LEMMA CloseStep ==
  ASSUME QueryFails = FALSE, TablesInv, EndSession
  PROVE  [File!Close]_(File!vars)
<1>1. /\ phase = "recording" /\ sessions' = Stamped(sessions, current)
      /\ UNCHANGED <<data, born, phase, current>>
  BY EndSessionIs DEF TablesInv
<1>2. sessions \in SUBSET SessionRows
  BY DEF TablesInv, TypeInv, TypeOK
<1> DEFINE stamped == Stamped(sessions, current)
<1>3. /\ \A s \in sessions : \E t \in stamped :
           t.born = s.born /\ t.open = (s.open /\ s.hash # current)
      /\ \A t \in stamped : \E s \in sessions :
           /\ t.hash = s.hash /\ t.born = s.born
           /\ t.open = (s.open /\ s.hash # current)
  BY <1>2, StampedIs
<1>4. sessions' = stamped
  BY <1>1
<1> HIDE DEF stamped
<1>5. OpenSessions' = {}
  BY <1>1, <1>3, <1>4 DEF OpenSessions
<1>6. Active' = 0
  BY <1>5 DEF Active
<1>7. Opened' = Opened /\ Fed' = Fed
  BY <1>1 DEF Opened, Fed
<1>8. Present' = Present
  BY <1>3, <1>4 DEF Present
<1>9. Closed' = Closed \cup {s.born : s \in OpenSessions}
  <2>1. \A s \in sessions : s.open \in BOOLEAN
    BY <1>2 DEF SessionRows
  <2>2. /\ \A s \in sessions : \E t \in stamped :
             t.born = s.born /\ (~t.open <=> ~s.open \/ s \in OpenSessions)
        /\ \A t \in stamped : \E s \in sessions :
             t.born = s.born /\ (~t.open <=> ~s.open \/ s \in OpenSessions)
    BY <1>3, <2>1 DEF OpenSessions
  <2>3. \A s \in OpenSessions : s \in sessions
    BY DEF OpenSessions
  <2>4. \A n : n \in Closed' <=> \E t \in stamped : ~t.open /\ t.born = n
    BY <1>4 DEF Closed
  <2>5. \A n : n \in Closed <=> \E s \in sessions : ~s.open /\ s.born = n
    BY DEF Closed
  <2>6. QED
    BY <2>2, <2>3, <2>4, <2>5
<1>10. CASE OpenSessions = {}
  <2>1. Active = 0
    BY <1>10, NotRecording
  <2>2. QED
    BY <1>6, <1>7, <1>8, <1>9, <1>10, <2>1, SameFile
<1>11. ASSUME NEW s \in OpenSessions PROVE File!Close
  <2>1. Active = s.born /\ Active # 0 /\ OpenSessions = {s}
    BY <1>1, ActiveIs
  <2>2. Closed' = Closed \cup {Active}
    BY <1>9, <2>1
  <2>3. QED
    BY <1>6, <1>7, <1>8, <2>1, <2>2 DEF File!Close, Opened, Present, Closed, Fed
<1>12. QED
  BY <1>10, <1>11

\* AddData feeds the active session, or finds none.
LEMMA FeedStep ==
  ASSUME QueryFails = FALSE, TablesInv, AddData
  PROVE  [File!Feed]_(File!vars)
<1>1. phase = "recording" /\ UNCHANGED <<sessions, born, phase, current>>
  BY AddDataIs DEF TablesInv, process
<1>2. \/ \E s \in OpenSessions : data' = data \cup {DataRow(s)}
      \/ data' = data
  BY AddDataIs DEF TablesInv
<1>3. Active' = Active
  BY <1>1 DEF Active, OpenSessions
<1>4. Opened' = Opened /\ Present' = Present /\ Closed' = Closed
  BY <1>1 DEF Opened, Present, Closed
<1>5. CASE data' = data
  BY <1>3, <1>4, <1>5, SameFile DEF Fed
<1>6. ASSUME NEW s \in OpenSessions, data' = data \cup {DataRow(s)} PROVE File!Feed
  <2> DEFINE row == DataRow(s)
  <2>1. row.born = s.born /\ data' = data \cup {row}
    BY <1>6 DEF DataRow
  <2> HIDE DEF row
  <2>2. Fed' = Fed \cup {s.born}
    BY <2>1 DEF Fed
  <2>3. Active = s.born /\ Active # 0
    BY <1>1, ActiveIs
  <2>4. QED
    BY <1>3, <1>4, <2>2, <2>3 DEF File!Feed, Opened, Present, Closed, Fed
<1>7. QED
  BY <1>2, <1>5, <1>6

LEMMA FileNext ==
  ASSUME QueryFails = FALSE, Refuses = FALSE, TablesInv, [Next]_vars
  PROVE  [File!Next]_(File!vars)
<1>1. ASSUME NEW d \in Device, NEW init \in BOOLEAN, NEW removed \in BOOLEAN,
             StartProgram(d, init, removed)
      PROVE  [File!Next]_(File!vars)
  <2>1. phase = "off" /\ phase' = "InitDatabase" /\ UNCHANGED born
    BY <1>1 DEF StartProgram
  <2>2. Active = 0 /\ Active' = 0
    BY <2>1 DEF Active
  <2>3. \/ sessions' = {} /\ data' = {}
        \/ UNCHANGED <<sessions, data>>
    BY <1>1 DEF StartProgram
  <2>4. QED
    BY <2>1, <2>2, <2>3, EraseStep, AbandonStep DEF File!Next
<1>2. CASE StopProgram
  <2>1. phase' = "off" /\ UNCHANGED <<sessions, data, born>>
    BY <1>2 DEF StopProgram, file
  <2>2. Active' = 0
    BY <2>1 DEF Active
  <2>3. QED
    BY <2>1, <2>2, AbandonStep DEF File!Next
<1>3. CASE InitDatabase
  <2>1. phase = "InitDatabase" /\ phase' = "AddDevice" /\ UNCHANGED born
    BY <1>3, InitDatabaseIs
  <2>2. Active = 0 /\ Active' = 0
    BY <2>1 DEF Active
  <2>3. (sessions' = {} /\ data' = {}) \/ UNCHANGED <<sessions, data>>
    BY <1>3, InitDatabaseIs
  <2>4. QED
    BY <2>1, <2>2, <2>3, EraseStep, AbandonStep DEF File!Next
<1>4. CASE AddDevice
  <2>1. phase = "AddDevice" /\ UNCHANGED <<sessions, data, born, current>>
    BY <1>4, AddDeviceIs DEF TablesInv, TypeInv
  <2>2. current = NoHash
    BY <2>1 DEF TablesInv, Prepared
  <2>3. \A s \in sessions : s.hash # current
    BY <2>2, HashAssumption DEF TablesInv, TypeInv, TypeOK, SessionRows
  <2>4. Active' = 0
    BY <2>1, <2>3 DEF Active, OpenSessions
  <2>5. QED
    BY <2>1, <2>4, AbandonStep DEF File!Next
<1>5. ASSUME NEW h \in Hash, SetSession(h) PROVE [File!Next]_(File!vars)
  <2>1. phase' = "AddSession" /\ UNCHANGED <<sessions, data, born>>
    BY <1>5, SetSessionIs DEF TablesInv, file
  <2>2. Active' = 0
    BY <2>1 DEF Active
  <2>3. QED
    BY <2>1, <2>2, AbandonStep DEF File!Next
<1>6. CASE AddSession
  <2>1. PICK h \in Hash : h = current
    BY <1>6, AddSessionIs DEF TablesInv
  <2>2. File!Open(h)
    BY <1>6, <2>1, OpenStep
  <2>3. QED
    BY <2>2 DEF File!Next
<1>7. CASE EndSession
  BY <1>7, CloseStep DEF File!Next
<1>8. CASE AddData
  BY <1>8, FeedStep DEF File!Next
<1>9. CASE UNCHANGED vars
  <2>1. Opened' = Opened /\ Present' = Present /\ Closed' = Closed /\ Fed' = Fed
    BY <1>9, SameRows DEF vars, file
  <2>2. Active' = Active
    BY <1>9 DEF vars, file, process, Active, OpenSessions
  <2>3. QED
    BY <2>1, <2>2, SameFile
<1>10. QED
  BY <1>1, <1>2, <1>3, <1>4, <1>5, <1>6, <1>7, <1>8, <1>9 DEF Next

LEMMA FileInit ==
  ASSUME Init
  PROVE  File!Init
<1>1. Present = {} /\ Closed = {} /\ Fed = {} /\ Active = 0
  BY DEF Init, Present, Closed, Fed, Active
<1>2. Opened = <<>>
  BY DEF Init, Opened
<1>3. QED
  BY <1>1, <1>2 DEF File!Init, Opened, Present, Closed, Fed

\* The tables implement Recording when no statement fails and no session is current
\* unrecorded: the session that takes data, found again at each sample by its hash
\* and its missing end, is always the one opened last (AddSession, AddData), and one
\* that has an end or was left open takes none again.
THEOREM TablesKeepRecording ==
  ASSUME QueryFails = FALSE, Refuses = FALSE
  PROVE  Spec => KeepsRecording
<1>1. Init => File!Init
  BY FileInit
<1>2. TablesInv /\ [Next]_vars => [File!Next]_(File!vars)
  BY FileNext
<1>3. QED
  BY <1>1, <1>2, TablesHold, PTL DEF Spec, KeepsRecording, File!Spec
=============================================================================
