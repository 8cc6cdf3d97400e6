----------------------------- MODULE MCStrings -----------------------------
EXTENDS Strings

\* Cell i holds i + 1, so that every cell is recognised after a move.
MCMoveMemories == {[i \in 0 .. 7 |-> i + 1]}

\* Any of the cells may be a terminator; the last one is.
MCCopyMemories ==
    {[i \in 0 .. 5 |-> IF i \in z THEN 0 ELSE i + 1] : z \in {x \cup {5} : x \in SUBSET (0 .. 4)}}

Strings(n, alphabet) == {[i \in 0 .. n |-> IF i = n THEN 0 ELSE f[i]] : f \in [0 .. n - 1 -> alphabet]}

MCQueryMemories == Strings(4, {0, 65, 97, 200})

MCClassMemories == Strings(4, {0, 32, 65, 97, 48, 9})

\* Text of up to five characters, then the delimiter list "," at address 6.
MCTokenMemories ==
    {[i \in 0 .. 7 |-> IF i < 6 THEN m[i] ELSE IF i = 6 THEN 44 ELSE 0] :
        m \in Strings(5, {0, 44, 97})}

\* Pieces of formats with the argument type C gives them; "odd" are the two
\* kinds the parser does not follow.
MCPieces ==
    {[text |-> <<"x">>, type |-> "none"], [text |-> <<"%", "d">>, type |-> "INT"],
     [text |-> <<"%", "-", "5", ".", "2", "l", "x">>, type |-> "LONG"],
     [text |-> <<"%", "h", "h", "d">>, type |-> "CHAR"],
     [text |-> <<"%", "s">>, type |-> "STRING"], [text |-> <<"%", "m">>, type |-> "none"],
     [text |-> <<"%", "%">>, type |-> "odd"]}

\* Code points of one to four bytes; only the last has two units.
MCTexts == UNION {[1 .. n -> {97, 233, 20013, 128512}] : n \in 0 .. 3}

MCPaths ==
    {[root |-> r, dirs |-> d, stem |-> s, ext |-> e] :
        r \in BOOLEAN, d \in {<<>>, << <<97>> >>, << <<233>>, <<97>> >>},
        s \in {<<97>>, <<97, 20013>>}, e \in {<<>>, <<46, 97>>}}

\* A part that is not asked for, buffers of several sizes, and one without any.
MCBuffers == {[ptr |-> FALSE, n |-> 0]} \cup {[ptr |-> TRUE, n |-> n] : n \in {0, 2, 3, 5, 6}}

\* Every number of 8 bits, and some on both sides of the edges of a word.
MCNumbers == -129 .. 128 \cup {-32768, -300, -256, 255, 256, 300, 32767}

\* Pieces of formats, their arguments and what C makes of them (a negative
\* number is padded before its sign: no piece has one), in a build where -16
\* as an unsigned long is written so.
PiecesOf(long) ==
    {[text |-> <<"x">>, args |-> <<>>, out |-> <<"x">>, pads |-> FALSE],
     [text |-> <<"%", "%">>, args |-> <<>>, out |-> <<"%">>, pads |-> FALSE],
     [text |-> <<"%", "d">>, args |-> << -12 >>, out |-> <<"-", "1", "2">>, pads |-> FALSE],
     [text |-> <<"%", "u">>, args |-> << -1 >>, out |-> <<"2", "5", "5">>, pads |-> FALSE],
     [text |-> <<"%", "o">>, args |-> <<8>>, out |-> <<"1", "0">>, pads |-> FALSE],
     [text |-> <<"%", "0", "3", "d">>, args |-> <<7>>, out |-> <<"0", "0", "7">>, pads |-> TRUE],
     [text |-> <<"%", "0", "2", "x">>, args |-> << -1 >>, out |-> <<"f", "f">>, pads |-> TRUE],
     [text |-> <<"%", "0", "3", "X">>, args |-> <<171>>, out |-> <<"0", "A", "B">>, pads |-> TRUE],
     [text |-> <<"%", "X">>, args |-> <<10>>, out |-> <<"A">>, pads |-> FALSE],
     [text |-> <<"%", "x">>, args |-> <<0>>, out |-> <<"0">>, pads |-> FALSE],
     [text |-> <<"%", "l", "x">>, args |-> << -16 >>, out |-> long, pads |-> FALSE],
     [text |-> <<"%", "c">>, args |-> <<"y">>, out |-> <<"y">>, pads |-> FALSE],
     [text |-> <<"%", "s">>, args |-> << <<"a", "b">> >>, out |-> <<"a", "b">>, pads |-> FALSE]}

MCWidePieces == [ulong \in {255, 65535} |->
                    PiecesOf(IF ulong = 255 THEN <<"f", "0">> ELSE <<"f", "f", "f", "0">>)]

\* Formats that are wrong: an unknown conversion, a sign at the end, %l at it.
MCOddFormats == {<<"x", "%", "q">>, <<"%">>, <<"x", "%", "0", "2">>, <<"x", "%", "l">>}
============================================================================
