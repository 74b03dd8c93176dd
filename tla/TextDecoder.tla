----------------------------- MODULE TextDecoder -----------------------------
(***************************************************************************)
(* decoder.go: one read's bytes as text.  A symbol of the model stands for *)
(* one byte or for a run of bytes that nothing here looks into; CP1251     *)
(* maps bytes one to one, so only the byte 255, which is IAC to telnet and *)
(* a letter to the player, changes its name.                               *)
(***************************************************************************)
EXTENDS TelnetFilter

CR == <<"CR">>
LF == <<"LF">>
YA == <<"YA">>          \* the upper-case letter of the artifact
ya == <<"ya">>          \* its lower-case form, the byte 255
lower == <<"lower">>    \* another lower-case Cyrillic letter

ASSUME TextSymbols == {CR, LF, YA, ya} \subseteq Symbols

\* The telnet bytes above 223 are lower-case letters as well.
IsLower(r) == r \in {lower, ya, DO, SB, SE}

Cp1251(input) == [i \in DOMAIN input |-> IF input[i] = IAC THEN ya ELSE input[i]]

\* ReplaceAll of \r\n: an LF takes the place of the CR in front of it.
Joined(out, r) ==
    IF r = LF /\ out # <<>> /\ Last(out) = CR THEN Append(Front(out), LF) ELSE Append(out, r)

JoinStep == [p \in Seq(Symbols) \X Symbols |-> Joined(p[1], p[2])]

JoinCRLF(text) == Fold(JoinStep, <<>>, text)

\* Mutant of YaFixed: no test for the start of the text.
YaFixedAtStart(out, r) ==
    Append(out, IF r = YA /\ (out = <<>> \/ IsLower(Last(out))) THEN ya ELSE r)

\* A letter already fixed counts as lower-case for the next one.
YaFixed(out, r) ==
    Append(out, IF r = YA /\ out # <<>> /\ IsLower(Last(out)) THEN ya ELSE r)

YaStep == [p \in Seq(Symbols) \X Symbols |-> YaFixed(p[1], p[2])]

FixYa(text) == Fold(YaStep, <<>>, text)

Decode(input) == FixYa(JoinCRLF(Cp1251(input)))
==============================================================================
