---------------------------- MODULE TelnetFilter -----------------------------
(***************************************************************************)
(* telnet.go: the bytes of the upstream that are terminal output.  A byte  *)
(* is a tuple; those that mean something to telnet have a name here.       *)
(***************************************************************************)
EXTENDS Integers, Sequences, SequencesExt

CONSTANT Symbols        \* bytes, and runs of bytes that nothing here looks into

IAC == <<"IAC">>
DO == <<"DO">>          \* WILL, WONT, DO or DONT
SB == <<"SB">>
SE == <<"SE">>

ASSUME TelnetSymbols == {IAC, DO, SB, SE} \subseteq Symbols

\* A loop over a sequence: step takes the value so far and the next element.
Fold(step, base, s) ==
    LET f[n \in 0..Len(s)] == IF n = 0 THEN base ELSE step[<<f[n - 1], s[n]>>]
    IN f[Len(s)]

States == {"Data", "IAC", "SkipOption", "Subnegotiation", "SubnegotiationIAC"}

\* One byte: the state after it, and whether it is passed on.
AfterData(b) == IF b = IAC THEN [state |-> "IAC", pass |-> FALSE]
                ELSE [state |-> "Data", pass |-> TRUE]

\* Mutant of AfterIAC: an unknown command is waited out.
AfterIACStays(b) ==
    CASE b = DO -> [state |-> "SkipOption", pass |-> FALSE]
      [] b = SB -> [state |-> "Subnegotiation", pass |-> FALSE]
      [] b = IAC -> [state |-> "Data", pass |-> TRUE]
      [] OTHER -> [state |-> "IAC", pass |-> FALSE]

AfterIAC(b) ==
    CASE b = DO -> [state |-> "SkipOption", pass |-> FALSE]
      [] b = SB -> [state |-> "Subnegotiation", pass |-> FALSE]
      [] OTHER -> [state |-> "Data", pass |-> (b = IAC)]

AfterSubnegotiation(b) ==
    [state |-> IF b = IAC THEN "SubnegotiationIAC" ELSE "Subnegotiation", pass |-> FALSE]

\* An escaped IAC leaves the filter in this state: a following SE ends the
\* subnegotiation although it belongs to the data.
AfterSubnegotiationIAC(b) ==
    [state |-> CASE b = SE -> "Data"
                 [] b = IAC -> "SubnegotiationIAC"
                 [] OTHER -> "Subnegotiation",
     pass |-> FALSE]

After(state, b) ==
    CASE state = "Data" -> AfterData(b)
      [] state = "IAC" -> AfterIAC(b)
      [] state = "SkipOption" -> [state |-> "Data", pass |-> FALSE]
      [] state = "Subnegotiation" -> AfterSubnegotiation(b)
      [] state = "SubnegotiationIAC" -> AfterSubnegotiationIAC(b)

\* Filter: the state is kept from one read to the next.
Filtered(f, b) ==
    LET a == After(f.state, b)
    IN [state |-> a.state, out |-> IF a.pass THEN Append(f.out, b) ELSE f.out]

FilterStep ==
    [p \in [state : States, out : Seq(Symbols)] \X Symbols |-> Filtered(p[1], p[2])]

Filter(state, data) == Fold(FilterStep, [state |-> state, out |-> <<>>], data)
==============================================================================
