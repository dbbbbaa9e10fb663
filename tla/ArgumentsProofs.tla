--------------------------- MODULE ArgumentsProofs ---------------------------
(***************************************************************************)
(* What holds of the command line for every text an option may be given,   *)
(* a command line of any length, and machine words of any width that holds *)
(* three seconds.                                                          *)
(***************************************************************************)
EXTENDS Arguments, TLAPS

-----------------------------------------------------------------------------
(* Machine words *)

\* A number that fits its word is not changed by it.
LEMMA FitsWord ==
  ASSUME NEW n \in Nat, NEW m \in Nat \ {0}, n < m
  PROVE  n % m = n
  OBVIOUS

\* A word is never negative.
LEMMA WordType ==
  ASSUME NEW n \in Int, NEW m \in Nat \ {0}
  PROVE  n % m \in 0 .. m - 1
  OBVIOUS

\* As many seconds as a word has room for fit when they are counted in parts.
LEMMA PartsFit ==
  ASSUME NEW n \in Nat, NEW m \in Nat \ {0}, NEW w \in Nat \ {0}, n <= (w - 1) \div m
  PROVE  n * m < w
  OBVIOUS

\* Three seconds or more are as many parts of a second or more.
LEMMA PartsGrow ==
  ASSUME NEW n \in Nat, NEW m \in Nat, 3 <= n
  PROVE  3 * m <= n * m
  OBVIOUS

-----------------------------------------------------------------------------
(* What was given first counts *)

\* Options with their values, as getopt_long returns them.
Read == UNION {{[option |-> o, value |-> v] : v \in Values(o)} : o \in Options}

\* Where option o was read, under either of its spellings.
Where(o, g) == {i \in DOMAIN g : Letter(g[i].option) = o}

\* The map has the first value of option o among those of g, or nothing.
HasFirst(o, g, a) ==
  IF Where(o, g) = {} THEN KeyOf[o] \notin DOMAIN a
  ELSE \E i \in Where(o, g) : /\ KeyOf[o] \in DOMAIN a /\ a[KeyOf[o]] = g[i].value
                              /\ \A j \in Where(o, g) : i <= j

FirstInv == given \in Seq(Read) /\ \A o \in DOMAIN KeyOf : HasFirst(o, given, args)

\* No two options have the same key.
LEMMA KeysDiffer ==
  \A o, q \in DOMAIN KeyOf : KeyOf[o] = KeyOf[q] => o = q
  BY DEF KeyOf

\* One more option at the end of the line.
LEMMA WhereNext ==
  ASSUME NEW g \in Seq(Read), NEW r \in Read, NEW o
  PROVE  /\ Append(g, r) \in Seq(Read)
         /\ Where(o, Append(g, r))
              = IF Letter(r.option) = o THEN Where(o, g) \cup {Len(g) + 1} ELSE Where(o, g)
         /\ \A i \in Where(o, g) : i \in 1 .. Len(g) /\ Append(g, r)[i] = g[i]
         /\ Append(g, r)[Len(g) + 1] = r
<1> DEFINE p == Append(g, r)
<1>1. /\ p \in Seq(Read) /\ DOMAIN p = 1 .. Len(g) + 1 /\ p[Len(g) + 1] = r
      /\ DOMAIN g = 1 .. Len(g) /\ Len(g) \in Nat
      /\ \A i \in 1 .. Len(g) : p[i] = g[i]
  OBVIOUS
<1> HIDE DEF p
<1>2. Where(o, p) = IF Letter(r.option) = o THEN Where(o, g) \cup {Len(g) + 1} ELSE Where(o, g)
  BY <1>1 DEF Where
<1>3. \A i \in Where(o, g) : i \in 1 .. Len(g) /\ p[i] = g[i]
  BY <1>1 DEF Where
<1>4. QED
  BY <1>1, <1>2, <1>3 DEF p

\* An option that is not read changes nothing for another.
LEMMA OptionRead ==
  ASSUME FirstInv, NEW x \in Options, NEW v \in Values(x), GetOption(x, v)
  PROVE  FirstInv'
<1> DEFINE r == [option |-> x, value |-> v]
           k == Letter(x)
<1>1. r \in Read /\ r.option = x /\ r.value = v /\ given \in Seq(Read)
  BY DEF Read, FirstInv
<1> HIDE DEF r
<1>2. given' = Append(given, r)
  BY DEF GetOption, r
<1>3. IF k \in DOMAIN KeyOf
      THEN /\ DOMAIN args' = DOMAIN args \cup {KeyOf[k]}
           /\ \A y \in DOMAIN args : args'[y] = args[y]
           /\ KeyOf[k] \notin DOMAIN args => args'[KeyOf[k]] = v
      ELSE args' = args
  BY DEF GetOption, Insert
<1> HIDE DEF k
<1> SUFFICES ASSUME NEW o \in DOMAIN KeyOf PROVE HasFirst(o, given', args')
  BY <1>1, <1>2, WhereNext DEF FirstInv
<1>4. HasFirst(o, given, args)
  BY DEF FirstInv
<1>5. /\ Where(o, given') = IF k = o THEN Where(o, given) \cup {Len(given) + 1}
                            ELSE Where(o, given)
      /\ \A i \in Where(o, given) : i \in 1 .. Len(given) /\ given'[i] = given[i]
      /\ given'[Len(given) + 1] = r
      /\ Len(given) \in Nat
  BY <1>1, <1>2, WhereNext DEF k
<1>6. CASE k # o
  <2>1. KeyOf[o] \in DOMAIN args' <=> KeyOf[o] \in DOMAIN args
    BY <1>3, <1>6, KeysDiffer
  <2>2. KeyOf[o] \in DOMAIN args => args'[KeyOf[o]] = args[KeyOf[o]]
    BY <1>3
  <2>3. Where(o, given') = Where(o, given)
    BY <1>5, <1>6
  <2>4. QED
    BY <1>4, <1>5, <2>1, <2>2, <2>3 DEF HasFirst
<1>7. CASE k = o
  <2>1. KeyOf[o] \in DOMAIN args' /\ Where(o, given') # {}
    BY <1>3, <1>5, <1>7
  <2>2. CASE Where(o, given) = {}
    <3>1. KeyOf[o] \notin DOMAIN args
      BY <1>4, <2>2 DEF HasFirst
    <3>2. args'[KeyOf[o]] = v /\ given'[Len(given) + 1].value = v
      BY <1>1, <1>3, <1>5, <1>7, <3>1
    <3>3. Where(o, given') = {Len(given) + 1}
      BY <1>5, <1>7, <2>2
    <3>4. QED
      BY <1>5, <2>1, <3>2, <3>3 DEF HasFirst
  <2>3. CASE Where(o, given) # {}
    <3>1. PICK i \in Where(o, given) :
            /\ KeyOf[o] \in DOMAIN args /\ args[KeyOf[o]] = given[i].value
            /\ \A j \in Where(o, given) : i <= j
      BY <1>4, <2>3 DEF HasFirst
    <3>2. args'[KeyOf[o]] = given'[i].value /\ i \in Where(o, given')
      BY <1>3, <1>5, <1>7, <3>1
    <3>3. i <= Len(given) + 1
      BY <1>5
    <3>4. \A j \in Where(o, given') : i <= j
      BY <1>5, <1>7, <3>1, <3>3
    <3>5. QED
      BY <2>1, <3>2, <3>4 DEF HasFirst
  <2>4. QED
    BY <2>2, <2>3
<1>8. QED
  BY <1>6, <1>7

LEMMA FirstInit == Init => FirstInv
<1> SUFFICES ASSUME Init PROVE FirstInv
  OBVIOUS
<1>1. given = <<>> /\ DOMAIN args = {}
  BY DEF Init
<1>2. \A o : Where(o, given) = {}
  BY <1>1 DEF Where
<1>3. QED
  BY <1>1, <1>2 DEF FirstInv, HasFirst

LEMMA FirstNext == FirstInv /\ [Next]_vars => FirstInv'
<1>1. ASSUME FirstInv, NEW o \in Options, NEW v \in Values(o), GetOption(o, v)
      PROVE  FirstInv'
  BY <1>1, OptionRead
<1>2. ASSUME FirstInv, UNCHANGED <<given, args>> PROVE FirstInv'
  BY <1>2 DEF FirstInv, HasFirst, Where
<1>3. QED
  BY <1>1, <1>2 DEF Next, EndOfOptions, PrepareData, Connect, StartStream, Done, vars

\* What an option was given first is what the handlers find, long after the
\* options were read, and its default where it was not given, for a command line
\* of any length (Arguments, std::map::insert).
THEOREM FirstCountsKept == Spec => []FirstCounts
<1>1. FirstInv => FirstCounts
  BY DEF FirstInv, HasFirst, Where, FirstCounts, GetFor
<1>2. QED
  BY <1>1, FirstInit, FirstNext, PTL DEF Spec

-----------------------------------------------------------------------------
(* The numbers *)

\* What an option's key has in the map is one of the texts it may be given.
TextsInv ==
  /\ "Port" \in DOMAIN args => args["Port"] \in Ports
  /\ "Timeout" \in DOMAIN args => args["Timeout"] \in Timeouts

\* The port is the same text in every handler, and the interval is the one that
\* was computed from the timeout.
NumbersInv ==
  /\ TextsInv
  /\ stage \in {"prepared", "connected", "streaming"} =>
       devicePort = GetFor("Port") /\ devicePort # NotANumber
  /\ stage \in {"connected", "streaming"} => sinPort = PortNumber(GetFor("Port")) % PortModulus
  /\ stage = "streaming" =>
       interval = (Seconds(GetFor("Timeout")) * Microsecond) % WordModulus

LEMMA OptionTexts ==
  ASSUME TextsInv, NEW o \in Options, NEW v \in Values(o), GetOption(o, v)
  PROVE  TextsInv'
<1>1. CASE Letter(o) \in DOMAIN KeyOf
  <2> DEFINE k == KeyOf[Letter(o)]
  <2>1. /\ DOMAIN args' = DOMAIN args \cup {k}
        /\ \A y \in DOMAIN args : args'[y] = args[y]
        /\ k \notin DOMAIN args => args'[k] = v
    BY <1>1 DEF GetOption, Insert
  <2>2. (k = "Port" => v \in Ports) /\ (k = "Timeout" => v \in Timeouts)
    <3>1. CASE k = "Port"
      <4>1. Values(o) = Ports
        BY <1>1, <3>1 DEF Values, Texts
      <4>2. QED
        BY <3>1, <4>1
    <3>2. CASE k = "Timeout"
      <4>1. Values(o) = Timeouts
        BY <1>1, <3>2 DEF Values, Texts
      <4>2. QED
        BY <3>2, <4>1
    <3>3. QED
      BY <3>1, <3>2
  <2> HIDE DEF k
  <2>3. QED
    BY <2>1, <2>2 DEF TextsInv
<1>2. CASE Letter(o) \notin DOMAIN KeyOf
  BY <1>2 DEF GetOption, TextsInv
<1>3. QED
  BY <1>1, <1>2

LEMMA NumbersNext == NumbersInv /\ [Next]_vars => NumbersInv'
<1> SUFFICES ASSUME NumbersInv, [Next]_vars PROVE NumbersInv'
  OBVIOUS
<1> USE DEF NumbersInv
<1>1. ASSUME NEW o \in Options, NEW v \in Values(o), GetOption(o, v) PROVE NumbersInv'
  <2>1. TextsInv'
    BY <1>1, OptionTexts
  <2>2. stage' = "parsing"
    BY <1>1 DEF GetOption
  <2>3. QED
    BY <2>1, <2>2
<1>2. CASE EndOfOptions
  <2>1. TextsInv' /\ stage' \in {"success", "launched", "failure"}
    BY <1>2 DEF EndOfOptions, TextsInv
  <2>2. QED
    BY <2>1
<1>3. CASE PrepareData
  BY <1>3 DEF PrepareData, TextsInv, GetFor
<1>4. CASE Connect
  BY <1>4 DEF Connect, TextsInv, GetFor
<1>5. CASE StartStream
  BY <1>5 DEF StartStream, TextsInv, GetFor
<1>6. CASE UNCHANGED vars
  BY <1>6 DEF vars, TextsInv, GetFor
<1>7. QED
  BY <1>1, <1>2, <1>3, <1>4, <1>5, <1>6 DEF Next, Done

LEMMA NumbersKept == Spec => []NumbersInv
<1>1. Init => NumbersInv
  BY DEF Init, NumbersInv, TextsInv
<1>2. QED
  BY <1>1, NumbersNext, PTL DEF Spec

\* The device that is recorded is the one that is connected to whenever its port
\* is one, though Connection::connect converts the text once more.
THEOREM SamePortKept == Spec => []SamePort
<1>1. NumbersInv => SamePort
  <2> SUFFICES ASSUME NumbersInv, stage \in {"connected", "streaming"},
                      devicePort \in 0 .. PortModulus - 1
               PROVE  sinPort = devicePort
    BY DEF SamePort
  <2>1. sinPort = devicePort % PortModulus
    BY DEF NumbersInv, PortNumber
  <2>2. PortModulus \in Nat \ {0}
    BY WidthAssumption
  <2>3. devicePort \in Nat /\ devicePort < PortModulus
    BY <2>2
  <2>4. QED
    BY <2>1, <2>2, <2>3, FitsWord
<1>2. QED
  BY <1>1, NumbersKept, PTL

\* No text of --timeout makes the inactivity timer shorter than three seconds, as
\* long as the interval fits its word (doStartStream).
THEOREM MinimumKept == Spec => []MinimumIfFits
<1>1. NumbersInv => MinimumIfFits
  <2> DEFINE text == GetFor("Timeout")
             n == Seconds(text)
  <2> SUFFICES ASSUME NumbersInv, stage = "streaming", n <= (WordModulus - 1) \div Microsecond
               PROVE  interval >= 3 * Microsecond
    BY DEF MinimumIfFits
  <2>1. WordModulus \in Nat \ {0} /\ Microsecond \in Nat \ {0} /\ Default["Timeout"] = 3
    BY WidthAssumption DEF Default
  <2>2. text \in Timeouts \cup {3}
    BY <2>1 DEF NumbersInv, TextsInv, GetFor
  <2>3. text = NotANumber \/ text \in Int
    BY <2>2, TextAssumption
  <2>4. interval = (n * Microsecond) % WordModulus
    BY DEF NumbersInv
  <2> HIDE DEF text
  <2>5. n \in Nat /\ 3 <= n
    <3>1. CASE text = NotANumber
      BY <2>1, <3>1 DEF Seconds
    <3>2. CASE text # NotANumber
      <4>1. text % WordModulus \in Nat
        BY <2>1, <2>3, <3>2, WordType
      <4>2. n = IF text % WordModulus < 3 THEN 3 ELSE text % WordModulus
        BY <2>1, <3>2 DEF Seconds
      <4>3. QED
        BY <4>1, <4>2
    <3>3. QED
      BY <3>1, <3>2
  <2> HIDE DEF n
  <2>6. n * Microsecond < WordModulus
    BY <2>1, <2>5, PartsFit
  <2>7. n * Microsecond \in Nat /\ 3 * Microsecond <= n * Microsecond
    BY <2>1, <2>5, PartsGrow
  <2>8. interval = n * Microsecond
    BY <2>1, <2>4, <2>6, <2>7, FitsWord
  <2>9. QED
    BY <2>1, <2>7, <2>8
<1>2. QED
  BY <1>1, NumbersKept, PTL
=============================================================================
