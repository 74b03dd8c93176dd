------------------------------- MODULE Parser --------------------------------
(***************************************************************************)
(* parser.go: what a read's text says of the player.  Text is a sequence   *)
(* of symbols: the halves of a prompt and of a color code, a tag, a label  *)
(* of equipment in brackets or before a colon, words and sentences.        *)
(***************************************************************************)
EXTENDS TextDecoder, FiniteSetsExt

CONSTANTS
    Slots,      \* slots of equipment
    SlotsOf     \* for each label, the slots with an alias that it contains

ASSUME SlotsAssumption == \A l \in DOMAIN SlotsOf : SlotsOf[l] \subseteq Slots

Open(v) == <<"open", v>>        \* "(12/15 8", up to a cut inside a number
Close(v) == <<"close", v>>      \* "1/99 60/77 4512 |)"
Overflow == "overflow"          \* a value that Atoi rejects
Esc == <<"esc">>                \* a color code, up to a cut
ColorEnd == <<"m">>             \* and the rest of it
Tag(t) == <<"tag", t>>          \* a known tag, with its parentheses
Bracketed(l) == <<"label", l>>  \* "[label]"
Colon(l) == <<"colon", l>>      \* "label:"
Word(w) == <<"word", w>>
Sentence == <<"sentence">>      \* ends in a full stop
Nothing == Word("nothing")      \* an item that stands for no item

None == <<>>                    \* no prompt or item; <<v>> is the prompt or item v
NoLocation == <<>>
NoItem == <<>>

\* Equipment: each slot's item, if the map has an entry for it.
EquipmentMaps == [Slots -> {None} \union [1..1 -> Seq(Symbols)]]
EmptyMap == [s \in Slots |-> None]
Over(top, bottom) == [s \in Slots |-> IF top[s] # None THEN top[s] ELSE bottom[s]]

\* Color codes are removed when they are whole, in one pass over the text.
Stripped(s, r) ==
    IF s.esc /\ r = ColorEnd THEN [out |-> Front(s.out), esc |-> FALSE]
    ELSE [out |-> Append(s.out, r), esc |-> r = Esc]

StripStep ==
    [p \in [out : Seq(Symbols), esc : BOOLEAN] \X Symbols |-> Stripped(p[1], p[2])]

StripColors(text) == Fold(StripStep, [out |-> <<>>, esc |-> FALSE], text).out

Normalize(text) == JoinCRLF(StripColors(text))

\* The lines of a text: there is at least one.
Lined(ls, r) ==
    IF r = LF THEN Append(ls, <<>>) ELSE Append(Front(ls), Append(Last(ls), r))

LineStep == [p \in (Seq(Seq(Symbols)) \ {<<>>}) \X Symbols |-> Lined(p[1], p[2])]

Lines(text) == Fold(LineStep, << <<>> >>, text)

\* TrimSpace.
Trim(line) ==
    LET kept == {i \in DOMAIN line : line[i] # CR}
    IN IF kept = {} THEN <<>> ELSE SubSeq(line, Min(kept), Max(kept))

PromptsIn(text) ==
    {i \in 1..(Len(text) - 1) :
        text[i][1] = "open" /\ text[i + 1] = Close(text[i][2])}

\* Mutant of ParsePrompt: the first match counts.
ParsePromptFirst(text) ==
    IF PromptsIn(text) = {} THEN None
    ELSE LET v == text[Min(PromptsIn(text))][2] IN IF v = Overflow THEN None ELSE <<v>>

\* The last match counts; if it overflows there is none.
ParsePrompt(text) ==
    IF PromptsIn(text) = {} THEN None
    ELSE LET v == text[Max(PromptsIn(text))][2] IN IF v = Overflow THEN None ELSE <<v>>

ParseStatusTags(text) == {text[i][2] : i \in {j \in DOMAIN text : text[j][1] = "tag"}}

\* Where the label of a line ends: a bracket is at its start, a colon anywhere.
LabelEnd(line) ==
    LET colons == {i \in DOMAIN line : line[i][1] = "colon"}
    IN CASE line # <<>> /\ line[1][1] = "label" -> 1
         [] colons # {} -> Min(colons)
         [] OTHER -> 0

Item(line) == Trim(SubSeq(line, LabelEnd(line) + 1, Len(line)))

\* The slots of the labels up to the end of a line's label.
SlotsNamed(line) ==
    UNION {SlotsOf[line[i][2]] :
               i \in {j \in 1..LabelEnd(line) :
                        line[j][1] \in {"label", "colon"} /\ line[j][2] \in DOMAIN SlotsOf}}

\* Mutant of SlotsFilled: no test of an empty item.
SlotsFilledByEmpty(line) ==
    IF LabelEnd(line) = 0 \/ Contains(Item(line), Nothing) THEN {} ELSE SlotsNamed(line)

\* The slots that a line may fill: none without a label, or without an item.
SlotsFilled(line) ==
    IF LabelEnd(line) = 0 \/ Item(line) = <<>> \/ Contains(Item(line), Nothing) THEN {}
    ELSE SlotsNamed(line)

\* normalizeEquipmentSlot ranges over a map: any slot with a matching alias
\* may come first.  The result is the set of maps that Parse may return.
Worn(maps, line) ==
    IF SlotsFilled(Trim(line)) = {} THEN maps
    ELSE {[m EXCEPT ![s] = <<Item(Trim(line))>>] : m \in maps, s \in SlotsFilled(Trim(line))}

WornStep == [p \in (SUBSET EquipmentMaps) \X Seq(Symbols) |-> Worn(p[1], p[2])]

ParseEquipment(text) == Fold(WornStep, {EmptyMap}, Lines(text))

\* At least three bytes of UTF-8; the halves of a prompt have a slash or a bar.
IsLikelyLocation(line) ==
    /\ Len(line) > 1 \/ line[1][1] \in {"word", "label", "tag"}
    /\ Last(line) # Sentence
    /\ \A i \in DOMAIN line : line[i][1] \notin {"open", "close"}

IsLocation(line) ==
    /\ line # <<>>
    /\ line[1][1] # "tag"
    /\ \A i \in DOMAIN line : line[i][1] # "colon"
    /\ IsLikelyLocation(line)

ParseLocation(text) ==
    LET ls == SelectSeq([i \in DOMAIN Lines(text) |-> Trim(Lines(text)[i])], IsLocation)
    IN IF ls = <<>> THEN NoLocation ELSE ls[1]

\* The deltas that Parse may return for a text.
Parse(text) ==
    LET cleaned == Normalize(text) IN
    {[prompt |-> ParsePrompt(cleaned), tags |-> ParseStatusTags(cleaned),
      equipment |-> e, location |-> ParseLocation(cleaned)] : e \in ParseEquipment(cleaned)}

EmptyDelta == [prompt |-> None, tags |-> {}, equipment |-> EmptyMap, location |-> NoLocation]
==============================================================================
