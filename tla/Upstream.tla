------------------------------ MODULE Upstream -------------------------------
(***************************************************************************)
(* From the MUD's bytes to the player's state: readUpstream of manager.go  *)
(* with its filter and decoder, Ingest with the parser, and the in-memory  *)
(* store that service.go falls back to, with a caller that holds a         *)
(* snapshot.  TCP cuts the stream into reads wherever it likes.            *)
(***************************************************************************)
EXTENDS Parser

CONSTANTS
    Streams,    \* what the MUD may send: sequences of tokens
    MaxReads    \* bound of the model: reads

ASSUME MaxReadsAssumption == MaxReads \in Nat

\* What the MUD sends one after the other.
Tokens ==
    [kind : {"output", "subnegotiation"}, data : Seq(Symbols)] \union
    [kind : {"negotiation"}, data : [1..1 -> Symbols]] \union
    [kind : {"command"}, data : [1..1 -> Symbols \ {IAC, DO, SB}]]

ASSUME StreamsAssumption == Streams \subseteq Seq(Tokens)

\* In data a byte IAC is sent twice.
DoubleStep ==
    [p \in Seq(Symbols) \X Symbols |-> p[1] \o IF p[2] = IAC THEN <<IAC, IAC>> ELSE <<p[2]>>]
Doubled(data) == Fold(DoubleStep, <<>>, data)

\* The bytes that the MUD sends for a token.
BytesOf(t) ==
    CASE t.kind = "output" -> Doubled(t.data)
      [] t.kind = "subnegotiation" -> <<IAC, SB>> \o Doubled(t.data) \o <<IAC, SE>>
      [] t.kind = "negotiation" -> <<IAC, DO>> \o t.data
      [] t.kind = "command" -> <<IAC>> \o t.data

BytesStep == [p \in Seq(Symbols) \X Tokens |-> p[1] \o BytesOf(p[2])]
Bytes(tokens) == Fold(BytesStep, <<>>, tokens)

\* The terminal output among them.
MeaningStep ==
    [p \in Seq(Symbols) \X Tokens |-> p[1] \o IF p[2].kind = "output" THEN p[2].data ELSE <<>>]
Meaning(tokens) == Fold(MeaningStep, <<>>, tokens)

\* A subnegotiation that the filter ends too early.
Leaks(t) ==
    /\ t.kind = "subnegotiation"
    /\ \E i \in 1..(Len(t.data) - 1) : t.data[i] = IAC /\ t.data[i + 1] = SE

NoSnapshot == [taken |-> FALSE, shares |-> FALSE, was |-> EmptyMap, equipment |-> EmptyMap]

VARIABLES
    stream,     \* what the MUD sends on this connection
    pos,        \* the bytes read so far
    reads,      \* the number of reads
    state,      \* the filter's
    passed,     \* history: all that the filter has passed on
    text,       \* history: the texts of all reads, one after the other
    splitPair,  \* history: a read ended inside a pair that Decode looks at
    midPrompt,  \* history: a read ended inside a prompt
    midLine,    \* history: a read ended inside a line
    delta,      \* what Parse has returned, until it is stored; or EmptyDelta
    store,      \* the in-memory store's snapshot; equipment is its map
    held        \* a snapshot that a caller of GetLatest still uses

streamVars == <<stream, pos, reads, state, passed, text, splitPair, midPrompt, midLine>>
vars == <<streamVars, delta, store, held>>

Init ==
    /\ stream \in Streams
    /\ pos = 0 /\ reads = 0
    /\ state = "Data"
    /\ passed = <<>> /\ text = <<>>
    /\ splitPair = FALSE /\ midPrompt = FALSE /\ midLine = FALSE
    /\ delta = EmptyDelta
    /\ store = EmptyDelta
    /\ held = NoSnapshot
-----------------------------------------------------------------------------
\* CR before LF, or a lower-case letter before the letter of the artifact.
Splits(before, after) ==
    /\ before # <<>> /\ after # <<>>
    /\ \/ Last(before) = CR /\ Head(after) = LF
       \/ IsLower(Last(Decode(before))) /\ Head(after) = YA

\* The bytes end in the first half of a prompt, or in color codes after it.
InPrompt(bytes) ==
    \E i \in DOMAIN bytes :
        /\ bytes[i][1] = "open"
        /\ \A j \in (i + 1)..Len(bytes) : bytes[j] \in {Esc, ColorEnd}

\* conn.Read, Filter, Decode, and Parse in the callback of onTerminalOutput.
Read ==
    /\ delta = EmptyDelta /\ reads < MaxReads
    /\ \E n \in 1..(Len(Bytes(stream)) - pos) :
        LET f == Filter(state, SubSeq(Bytes(stream), pos + 1, pos + n)) IN
        /\ pos' = pos + n
        /\ state' = f.state
        /\ passed' = passed \o f.out
        /\ text' = text \o Decode(f.out)
        /\ delta' \in Parse(Decode(f.out))
        /\ splitPair' = (splitPair \/ Splits(passed, f.out))
        /\ midPrompt' = (midPrompt \/ InPrompt(passed'))
        /\ midLine' = (midLine \/ (passed' # <<>> /\ Last(passed') # LF))
    /\ reads' = reads + 1
    /\ UNCHANGED <<stream, store, held>>

\* Mutant of Merged: a listing replaces the stored one.
MergedReplaces(s, d) ==
    [location |-> IF d.location = NoLocation THEN s.location ELSE d.location,
     prompt |-> IF d.prompt = None THEN s.prompt ELSE d.prompt,
     tags |-> IF d.tags = {} THEN s.tags ELSE d.tags,
     equipment |-> IF d.equipment = EmptyMap THEN s.equipment ELSE d.equipment]

\* mergeSnapshot: an empty part of the delta leaves the stored part alone.
Merged(s, d) ==
    [location |-> IF d.location = NoLocation THEN s.location ELSE d.location,
     prompt |-> IF d.prompt = None THEN s.prompt ELSE d.prompt,
     tags |-> IF d.tags = {} THEN s.tags ELSE d.tags,
     equipment |-> Over(d.equipment, s.equipment)]

\* UpsertDelta writes to the store's map in place: whoever shares it sees it.
UpsertDelta ==
    /\ delta # EmptyDelta
    /\ store' = Merged(store, delta)
    /\ held' = IF held.shares THEN [held EXCEPT !.equipment = store'.equipment] ELSE held
    /\ delta' = EmptyDelta
    /\ UNCHANGED streamVars

\* Mutant of GetLatest: the map is never copied.
GetLatestShares ==
    /\ ~held.taken /\ store # EmptyDelta
    /\ held' = [taken |-> TRUE, shares |-> TRUE,
                was |-> store.equipment, equipment |-> store.equipment]
    /\ UNCHANGED <<streamVars, delta, store>>

\* GetLatest copies the map only when there is something in it.
GetLatest ==
    /\ ~held.taken /\ store # EmptyDelta
    /\ held' = [taken |-> TRUE, shares |-> store.equipment = EmptyMap,
                was |-> store.equipment, equipment |-> store.equipment]
    /\ UNCHANGED <<streamVars, delta, store>>

Release ==
    /\ held.taken
    /\ held' = NoSnapshot
    /\ UNCHANGED <<streamVars, delta, store>>

Next == Read \/ UpsertDelta \/ GetLatest \/ Release

Spec == Init /\ [][Next]_vars
-----------------------------------------------------------------------------
\* Types; no read leaves an empty item in the equipment.
TypeOK ==
    /\ pos \in 0..Len(Bytes(stream)) /\ reads \in 0..MaxReads
    /\ state \in States
    /\ splitPair \in BOOLEAN /\ midPrompt \in BOOLEAN /\ midLine \in BOOLEAN
    /\ delta.equipment \in EquipmentMaps /\ store.equipment \in EquipmentMaps
    /\ \A s \in Slots : store.equipment[s] # <<NoItem>>
    /\ held.taken \in BOOLEAN /\ held.shares \in BOOLEAN

\* At the end of each token of the stream the filter is back in its data state
\* and has passed on exactly what the MUD meant, however the stream is cut; a
\* subnegotiation that it ends too early may leak, and costs nothing later.
FilterIsTelnet ==
    \A k \in 0..Len(stream) :
        LET sent == SubSeq(stream, 1, k) IN
        pos = Len(Bytes(sent)) =>
            /\ state = "Data"
            /\ (\A i \in 1..k : ~Leaks(stream[i])) => passed = Meaning(sent)

\* A text without the CRs in front of an LF and the case of the letter; crs are
\* the CRs at its end.
Loosened(l, r) ==
    CASE r = CR -> [l EXCEPT !.crs = Append(l.crs, CR)]
      [] r = LF -> [out |-> Append(l.out, LF), crs |-> <<>>]
      [] OTHER -> [out |-> Append(l.out \o l.crs, IF r = YA THEN ya ELSE r), crs |-> <<>>]

LooseStep ==
    [p \in [out : Seq(Symbols), crs : Seq({CR})] \X Symbols |-> Loosened(p[1], p[2])]

Loose(t) == Fold(LooseStep, [out |-> <<>>, crs |-> <<>>], t)

\* The text is that of one big read unless a read ended inside a pair that
\* Decode looks at; and even then it differs only in CRs in front of an LF or in
\* a letter's case.
TextIsWhole ==
    /\ Loose(text) = Loose(Decode(passed))
    /\ splitPair \/ text = Decode(passed)

\* The stored prompt is the last one of the stream, unless a read ended inside
\* one, or one overflowed.
PromptIsNewest ==
    (/\ delta = EmptyDelta /\ ~midPrompt
     /\ \A i \in DOMAIN passed : passed[i][1] = "open" => passed[i][2] # Overflow)
    => store.prompt = ParsePrompt(Normalize(Decode(passed)))

\* The stored equipment is what one big read would have given, unless a read
\* ended inside a line.
EquipmentIsNewest ==
    (delta = EmptyDelta /\ ~midLine) =>
        store.equipment \in ParseEquipment(Normalize(Decode(passed)))

\* A snapshot with equipment in it does not change while its caller encodes it.
\* (One taken while there was none shares the store's map.)
HeldIsStable == held.was # EmptyMap => held.equipment = held.was
=============================================================================
