------------------------------ MODULE Arguments ------------------------------
(***************************************************************************)
(* The command line of tkmreader: main's option loop, Arguments with its   *)
(* defaults, and the places where the text of an option becomes a number,  *)
(* which is long after it was read: the port in doPrepareData and again in *)
(* Connection::connect, the timeout in doStartStream.  A text is the       *)
(* number it spells or NotANumber; the machine's words are as wide as the  *)
(* constants say, so that TLC meets their ends.                            *)
(***************************************************************************)
EXTENDS Integers, Sequences

CONSTANTS
  Ports,        \* what may be given as --port: texts
  Timeouts,     \* what may be given as --timeout: texts
  Words,        \* what may be given as a name, an address or a path
  NotANumber,   \* a text that spells no int, or one out of its range
  DefaultPort,  \* 3357
  PortModulus,  \* 2^16, the width of sin_port
  WordModulus,  \* 2^32 or 2^64, the width of unsigned long and size_t
  Microsecond,  \* 1000000, to the second
  MaxOptions    \* bound on the options of a command line

ASSUME TextAssumption == (Ports \cup Timeouts) \ {NotANumber} \subseteq Int
ASSUME WidthAssumption ==
  /\ {PortModulus, WordModulus, Microsecond} \subseteq Nat \ {0}
  /\ DefaultPort \in 0 .. PortModulus - 1
  /\ 3 * Microsecond < WordModulus

VARIABLES
  given,       \* the options that were read (history)
  args,        \* Arguments::m_opts
  version, help,
  stage,       \* how far the program has come
  devicePort,  \* DeviceData's port, which identifies the device
  sinPort,     \* the port that is connected to
  interval     \* the inactivity timer's interval, 0 when it is not armed
vars == <<given, args, version, help, stage, devicePort, sinPort, interval>>

Flags == {"Init", "Verbose", "Strict"}
Texts == {"Name", "Address", "DatabasePath", "JsonPath"}
Keys == Flags \cup Texts \cup {"Port", "Timeout"}
Stages == {"parsing", "launched", "prepared", "connected", "streaming", "success", "failure"}

\* The letter of an option; those that are spelt differently as a word are here
\* with both.
Letter(o) == CASE o = "verbose" -> "x" [] o = "version" -> "v" [] OTHER -> o
KeyOf == [n |-> "Name", i |-> "Init", a |-> "Address", p |-> "Port",
          d |-> "DatabasePath", j |-> "JsonPath", t |-> "Timeout",
          x |-> "Verbose", s |-> "Strict"]
Options == DOMAIN KeyOf \cup {"v", "h", "verbose", "version"}

Values(o) == LET k == IF Letter(o) \in DOMAIN KeyOf THEN KeyOf[Letter(o)] ELSE "" IN
  CASE k = "Port" -> Ports [] k = "Timeout" -> Timeouts [] k \in Texts -> Words
    [] OTHER -> {"True"}

\* Defaults; --init has none and a lookup of it throws.
Default == [Name |-> "unknown", Address |-> "localhost", Port |-> DefaultPort,
            DatabasePath |-> "none", JsonPath |-> "none", Timeout |-> 3,
            Strict |-> "False", Verbose |-> "False"]

GetFor(k) == IF k \in DOMAIN args THEN args[k] ELSE Default[k]

Init ==
  /\ given = <<>> /\ args = << >> /\ version = FALSE /\ help = FALSE
  /\ stage = "parsing" /\ devicePort = 0 /\ sinPort = 0 /\ interval = 0

-----------------------------------------------------------------------------
(* main *)

\* std::map::insert leaves a value that is there.
Insert_Assign(k, v) == args' = [x \in DOMAIN args \cup {k} |-> IF x = k THEN v ELSE args[x]]  \* mutant
Insert(k, v) ==
  args' = [x \in DOMAIN args \cup {k} |-> IF x \in DOMAIN args THEN args[x] ELSE v]

\* One turn of the loop around getopt_long.  An option that is not known, or
\* lacks its value, is "h" too.
GetOption(o, v) ==
  /\ stage = "parsing" /\ Len(given) < MaxOptions
  /\ given' = Append(given, [option |-> o, value |-> v])
  /\ IF Letter(o) \in DOMAIN KeyOf THEN Insert(KeyOf[Letter(o)], v) ELSE UNCHANGED args
  /\ version' = (version \/ Letter(o) = "v") /\ help' = (help \/ Letter(o) = "h")
  /\ UNCHANGED <<stage, devicePort, sinPort, interval>>

\* The program is launched, or an exception ends it: a file that cannot be
\* removed or opened.
EndOfOptions ==
  /\ stage = "parsing"
  /\ stage' \in IF version \/ help THEN {"success"} ELSE {"launched", "failure"}
  /\ UNCHANGED <<given, args, version, help, devicePort, sinPort, interval>>

-----------------------------------------------------------------------------
(* The handlers that make numbers of texts *)

\* doPrepareData: stoi throws for NotANumber.
PrepareData ==
  /\ stage = "launched"
  /\ IF GetFor("Port") = NotANumber
     THEN stage' = "failure" /\ UNCHANGED devicePort
     ELSE stage' = "prepared" /\ devicePort' = GetFor("Port")
  /\ UNCHANGED <<given, args, version, help, sinPort, interval>>

\* Connection::connect: the port is converted again, here with a default.  An
\* address that does not resolve throws.
PortNumber_Default(text) == DefaultPort  \* mutant
PortNumber(text) == IF text = NotANumber THEN DefaultPort ELSE text
Connect ==
  /\ stage = "prepared"
  /\ \/ stage' = "failure" /\ UNCHANGED sinPort
     \/ stage' = "connected" /\ sinPort' = PortNumber(GetFor("Port")) % PortModulus
  /\ UNCHANGED <<given, args, version, help, devicePort, interval>>

\* doStartStream: stoul takes a sign, and the result wraps.
Seconds_Unchecked(text) ==  \* mutant: no minimum
  IF text = NotANumber THEN Default["Timeout"] ELSE text % WordModulus
Seconds(text) ==
  LET n == IF text = NotANumber THEN Default["Timeout"] ELSE text % WordModulus
  IN  IF n < 3 THEN Default["Timeout"] ELSE n
StartStream ==
  /\ stage = "connected"
  /\ stage' = "streaming"
  /\ interval' = (Seconds(GetFor("Timeout")) * Microsecond) % WordModulus
  /\ UNCHANGED <<given, args, version, help, devicePort, sinPort>>

Done == stage \in {"streaming", "success", "failure"} /\ UNCHANGED vars

Next ==
  \/ \E o \in Options : \E v \in Values(o) : GetOption(o, v)
  \/ EndOfOptions
  \/ PrepareData \/ Connect \/ StartStream
  \/ Done

Spec == Init /\ [][Next]_vars

-----------------------------------------------------------------------------
(* Properties *)

\* What an option was given first is in force wherever it is read, however often
\* it is given again, and its default where it was not given (main, getFor).
FirstCounts ==
  stage # "parsing" => \A o \in DOMAIN KeyOf :
    LET of == {i \in DOMAIN given : Letter(given[i].option) = o} IN
    IF of = {} THEN KeyOf[o] \notin DOMAIN args
    ELSE \E i \in of : GetFor(KeyOf[o]) = given[i].value /\ \A j \in of : i <= j

\* The device that is recorded is the device that is connected to, though its
\* port is converted in two places, as long as it is a port (doPrepareData,
\* Connection::connect).
SamePort ==
  stage \in {"connected", "streaming"} /\ devicePort \in 0 .. PortModulus - 1
    => sinPort = devicePort

\* "Default and minimum value is 3 seconds." (Main.cpp), as long as the interval
\* fits its word: neither a bad text, nor a negative number, nor a small one arms
\* a shorter timer or none.
MinimumIfFits ==
  stage = "streaming" /\ Seconds(GetFor("Timeout")) <= (WordModulus - 1) \div Microsecond
    => interval >= 3 * Microsecond
=============================================================================
