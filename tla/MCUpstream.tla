----------------------------- MODULE MCUpstream ------------------------------
\* Streams of up to three tokens: of telnet commands and letters, and of the
\* lines, prompts and color codes that the parser looks for.
EXTENDS Upstream

MCSlots == {"body", "held", "arms"}
MCSlotsOf == [body |-> {"body"}, hands |-> {"held", "arms"}, pocket |-> {}]

opt == <<"opt">>

Values == {"hurt", "healed", Overflow}
MCSymbols ==
    {IAC, DO, SB, SE, CR, LF, YA, ya, lower, opt, Esc, ColorEnd, Sentence, Tag("aura")} \union
    {Open(v) : v \in Values} \union {Close(v) : v \in Values} \union
    {Bracketed(l) : l \in DOMAIN MCSlotsOf} \union {Colon(l) : l \in DOMAIN MCSlotsOf} \union
    {Word(w) : w \in {"nothing", "mail", "coat", "lamp", "says", "coin", "troll", "tavern"}}

Output(data) == [kind |-> "output", data |-> data]
Negotiation(option) == [kind |-> "negotiation", data |-> <<option>>]
Command(b) == [kind |-> "command", data |-> <<b>>]
Subnegotiation(data) == [kind |-> "subnegotiation", data |-> data]

TelnetTokens ==
    {Output(<<lower>>), Output(<<YA>>), Output(<<IAC>>), Output(<<CR>>), Output(<<LF>>),
     Negotiation(IAC), Command(lower),
     Subnegotiation(<<opt, SE>>), Subnegotiation(<<opt, IAC>>),
     Subnegotiation(<<IAC, SE, lower>>)}

TextTokens ==
    {Output(<<Open(v), Close(v)>>) : v \in Values} \union
    {Output(<<Bracketed("body"), Word("mail"), Word("coat"), CR, LF>>),
     Output(<<Bracketed("hands"), Esc, ColorEnd, Word("lamp"), LF>>),
     Output(<<Colon("body"), Nothing, LF>>),
     Output(<<Word("says"), Colon("body"), Sentence, LF>>),
     Output(<<Colon("pocket"), Word("coin"), LF>>),
     Output(<<Tag("aura"), Word("troll"), LF, Word("tavern"), LF>>),
     Output(<<Open("hurt"), Esc, ColorEnd, Close("hurt")>>)}

MCStreams == SeqOf(TelnetTokens, 3) \union SeqOf(TextTokens, 3)
=============================================================================
