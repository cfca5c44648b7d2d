---------------------------- MODULE MCHttpReply ----------------------------
(* Small instances of HttpReply for TLC.                                   *)
EXTENDS HttpReply

\* Sixteen bytes, so that the size line has two digits or more; some bytes of
\* the data are hexadecimal digits, a sign, a blank.
Sixteen == <<"[", "{", "a", "1", ":", "-", "2", "}",
             "{", "f", "0", ":", "x", "}", ",", "{">>
Four == <<"b", "}", "]", " ">>
Two == <<"[", "]">>

MCData == UNION {{s[i] : i \in DOMAIN s} : s \in {Sixteen, Four, Two}}

Framed(f, sizes, chunks) == [framing |-> f, sizes |-> sizes, chunks |-> chunks]

\* Size lines of one to five digits, in both cases of letters; then lines that
\* are wrong: too long, too short, negative, blank, no number at all.
MCReplies ==
  {Framed("chunked", << <<"1", "0">>, <<"4">> >>, <<Sixteen, Four>>),
   Framed("chunked", << <<"4">>, <<"0", "2">>, <<"0", "0", "4">> >>, <<Four, Two, Four>>),
   Framed("chunked", << <<"0", "0", "0", "0", "2">> >>, <<Two>>),
   Framed("chunked", << <<"A">>, <<"a">> >>,
                     <<SubSeq(Sixteen, 1, 10), SubSeq(Sixteen, 5, 14)>>),
   Framed("length", << <<>> >>, <<Sixteen>>)}
  \cup {Framed("chunked", <<size, <<"4">> >>, <<Four, Four>>) :
          size \in {<<"5">>, <<"3">>, <<"-", "1">>, <<"-", "4">>, <<" ", "4">>,
                    <<" ">>, <<>>, <<"0", "x", "4">>, <<"[">>}}
=============================================================================
