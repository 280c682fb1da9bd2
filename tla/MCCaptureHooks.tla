--------------------------- MODULE MCCaptureHooks ---------------------------
(***************************************************************************)
(* Inputs for the capture hooks: texts that differ in everything the       *)
(* parsers look at, cut at every length, and names, strings and segments   *)
(* around every limit.                                                     *)
(***************************************************************************)
EXTENDS CaptureHooks

MCUnits == {"M", "/", "a", "?", "SP", "V", "CRLF", "LF", "H", "CTL", "x", "fault", "NUL", "old", "over",
            "n", "w", "d1", "d2", "d3", "d4", "d5", "d6", "d7", "d8"}

Targets == {<<"/">>, <<"/", "a">>, <<"/", "?", "x">>, <<"/", "a", "?", "x">>, <<"/", "CTL">>, <<"x", "x">>}

Rests == {<<"SP", "V", "CRLF", "H", "a", "CRLF", "CRLF", "x">>,
          <<"SP", "V", "CRLF", "x", "CRLF", "H", "a", "LF", "x">>,
          <<"SP", "V", "CRLF", "CRLF", "H", "x", "CRLF">>,
          <<"SP", "x", "CRLF">>}

Texts == {<<"M">> \o t \o r : t \in Targets, r \in Rests}

Piece(text, from, to) == [i \in 1 .. to - from + 1 |-> text[i + from - 1]]

Cuts == UNION {{Piece(t, 1, n) : n \in MinRequestLine - 1 .. Len(t)} : t \in Texts}

Segment(data) == [data |-> data, ok |-> TRUE, described |-> TRUE]

MCBuffers == Texts \cup Cuts \cup {<<"x", "x", "x", "x", "x">>}

MCMessages ==
    {[iter |-> i, segs |-> <<Segment(t), Segment(<<"x">>)>>] :
       i \in {"ubuf", "iovec", "kernel"}, t \in {<<"M", "/", "a", "SP", "V", "CRLF">>}}

Header(name, value) == [name |-> name, value |-> value]

MCHeaderArrays ==
    {<<Header(":method", m), Header(n, p), Header(":authority", a)>> \o rest :
       m \in {<<"M">>, <<"M", "M", "M">>}, n \in {":path", "ordinary", "fault"},
       p \in {<<"/", "?", "x">>, <<"?", "x">>, <<"/", "fault">>},
       a \in {<<"a">>, <<"CTL">>, <<"a", "a", "a", "a", "a", "a", "a", "a", "a", "a", "a">>},
       rest \in {<<>>, <<Header(":path", <<"/", "a">>), Header("ordinary", <<"x">>), Header("fault", <<>>)>>}}

MCRequests ==
    [https : BOOLEAN, method : {<<>>, <<"M">>}, path : {<<>>, <<"/", "a">>, <<"a">>},
     host : {<<>>, <<"a">>, <<"CTL">>}, urlHost : {<<>>, <<"a", "a">>}]

Dentry(names, broken) == [names |-> names, broken |-> broken]

MCDentries ==
    {Dentry(<<>>, 0), Dentry(<<"n", "n">>, 0), Dentry(<<"n", "n", "n">>, 0), Dentry(<<"w", "w">>, 0),
     Dentry(<<"w", "n", "w">>, 0), Dentry(<<"n", "n", "n", "n">>, 0),
     Dentry(<<"n", "n">>, 1), Dentry(<<"n", "n">>, 2), NoDentry}

MCStrings == {Unreadable} \cup {[i \in 1 .. n |-> "a"] : n \in {1, PathLen - 2, PathLen - 1, PathLen, PathLen + 1}}

MCAddresses == {<<>>} \cup {[i \in 1 .. n |-> IF i = 1 THEN f ELSE l] :
                             n \in {1, SunPathLen, SunPathLen + 1}, f \in {"NUL", "/", "a"}, l \in {"a", "fault"}}

MCArgvs == {[i \in 1 .. n |-> IF i = n THEN l ELSE "a"] : n \in 1 .. ArgvLen + 1, l \in {"a", "fault"}} \cup {<<>>}

Datagram == <<"d1", "d2", "d3", "d4", "d5", "d6", "d7", "d8">>

Send(iter, segs) == [resolved |-> FALSE, iter |-> iter, name |-> "none", namePort |-> 0, sockPort |-> 53, segs |-> segs]

(* Ways to cut the datagram into segments, one of them unreadable. *)
MCSends ==
    {Send("ubuf", <<Segment(Piece(Datagram, 1, n))>>) : n \in 0 .. 6}
    \cup {Send("kernel", <<Segment(Datagram)>>)}
    \cup {Send("iovec", <<Segment(Piece(Datagram, 1, a)),
                         [data |-> Piece(Datagram, a + 1, a + b), ok |-> ok, described |-> de],
                         Segment(Piece(Datagram, a + b + 1, a + b + c)), Segment(Piece(Datagram, a + b + c + 1, 8))>>) :
            a \in 0 .. 3, b \in 0 .. 2, c \in {0, 1, 3}, ok \in BOOLEAN, de \in BOOLEAN}
    \cup {Send("iovec", <<Segment(<<"d1">>), Segment(<<"d2">>)>>)}
    \cup {[resolved |-> r, iter |-> "iovec", name |-> n, namePort |-> p, sockPort |-> q, segs |-> <<Segment(<<"d1">>)>>] :
            r \in BOOLEAN, n \in {"none", "inet", "other"}, p \in {0, 53}, q \in {0, 53}}
=============================================================================
