----------------------------- MODULE HttpReply -----------------------------
(***************************************************************************)
(* HttpClient::Get, with which the GUI thread fetches the course: one      *)
(* request, then a reply that TCP delivers in pieces, cut anywhere. Each   *)
(* packet is handled by one step, each turn of the loop over the chunks by *)
(* another. The socket reports a timeout or a closed connection by FALSE,  *)
(* and an error by TRUE and no data (-1 converted to a bool).              *)
(*                                                                         *)
(* A reply is a sequence of bytes; a line of its header is one "byte".     *)
(***************************************************************************)
EXTENDS Integers, Sequences, SequencesExt

CONSTANTS
  Data,      \* the bytes a body may be made of
  Replies,   \* what the server may answer: how it is framed, the body in
             \* chunks, and the text it sends for the size of each
  RecvSize   \* bytes one recv reads: 1024

HexDigits == <<"0", "1", "2", "3", "4", "5", "6", "7", "8", "9",
               "a", "b", "c", "d", "e", "f", "A", "B", "C", "D", "E", "F">>
CRLF == <<"\r", "\n">>
Byte == Data \cup Range(HexDigits) \cup Range(CRLF)
             \cup {"HTTP/1.1 200 OK", "chunked", "length"}

ASSUME ReplyAssumption ==
  /\ \A r \in Replies : /\ r.framing \in {"chunked", "length"}
                        /\ r.chunks \in Seq(Seq(Data) \ {<<>>})
                        /\ r.sizes \in Seq(Seq(Byte))
                        /\ Len(r.sizes) = Len(r.chunks)
  /\ RecvSize \in Nat \ {0}

VARIABLES
  reply,          \* what the server sends
  at,             \* bytes of it received so far
  mFirstPacket, chunked,
  mCurrentChunk, mCurrentChunkSize,
  response, mRequestSuccess,
  pc,             \* "connect", "recv", "decode", then "done"
  badCuts,        \* kinds of the unlucky places where a piece has ended
  interrupted     \* did Get stop before the whole reply had come?

replyVars == <<reply, mFirstPacket, chunked>>
chunkVars == <<mCurrentChunk, mCurrentChunkSize>>
vars == <<reply, at, mFirstPacket, chunked, mCurrentChunk, mCurrentChunkSize,
          response, mRequestSuccess, pc, badCuts, interrupted>>

-----------------------------------------------------------------------------
(* The bytes on the wire.                                                  *)

Body(r) == FlattenSeq(r.chunks)

Header(r) == <<"HTTP/1.1 200 OK">> \o CRLF \o <<r.framing>> \o CRLF \o CRLF

SizeLine(text) == text \o CRLF

Chunk(text, data) == SizeLine(text) \o data \o CRLF

\* The first n chunks.
Coded(r, n) == FlattenSeq([i \in 1 .. n |-> Chunk(r.sizes[i], r.chunks[i])])

Wire(r) == Header(r) \o IF r.framing = "length" THEN Body(r)
                        ELSE Coded(r, Len(r.chunks)) \o <<"0">> \o CRLF \o CRLF

\* Places where the decoder does not expect a piece to end: before the first
\* byte of the body; inside a body announced by its length; in a size line of
\* which more than three bytes came, or right after it; between the data of a
\* chunk and the end of the line that follows.
LineStart(r, i) == Len(Header(r)) + Len(Coded(r, i - 1))
DataStart(r, i) == LineStart(r, i) + Len(SizeLine(r.sizes[i]))
DataEnd(r, i)   == DataStart(r, i) + Len(r.chunks[i])

CutKinds(r, p) ==
  LET lines == DOMAIN r.chunks
  IN  {k \in {"header", "length", "line", "data"} :
        \/ k = "header" /\ p <= Len(Header(r))
        \/ k = "length" /\ r.framing = "length" /\ p < Len(Wire(r))
        \/ k = "line" /\ r.framing = "chunked"
             /\ \E i \in lines : p \in LineStart(r, i) + 4 .. DataStart(r, i)
        \/ k = "data" /\ r.framing = "chunked"
             /\ \E i \in lines : p \in {DataEnd(r, i), DataEnd(r, i) + 1}}

-----------------------------------------------------------------------------
Init ==
  /\ reply \in Replies
  /\ at = 0
  /\ mFirstPacket = FALSE /\ chunked = FALSE
  /\ mCurrentChunk = <<>> /\ mCurrentChunkSize = -1
  /\ response = <<>> /\ mRequestSuccess = FALSE
  /\ pc = "connect"
  /\ badCuts = {} /\ interrupted = FALSE

\* Connect and Send, either of which may fail.
Connect ==
  /\ pc = "connect"
  /\ \/ pc' = "recv" /\ UNCHANGED interrupted
     \/ pc' = "done" /\ interrupted' = TRUE
  /\ UNCHANGED <<replyVars, at, chunkVars, response, mRequestSuccess, badCuts>>

-----------------------------------------------------------------------------
(* A packet. The first one is parsed as a header; a header line counts when  *)
(* its "\r" has come too. The last character of a line that has none is lost. *)

SeenLine(output) == Len(output) >= 4 /\ reply.framing = output[4]

ContentLength(output) ==
  IF ~SeenLine(output) \/ reply.framing = "chunked" THEN 0
  ELSE IF Len(output) = 4 THEN Len(Body(reply)) \div 10 ELSE Len(Body(reply))

ParseReplyHeader(output) ==
  [chunked       |-> reply.framing = "chunked" /\ Len(output) > 4,
   contentLength |-> ContentLength(output),
   body          |-> SubSeq(output, Len(Header(reply)) + 1, Len(output))]

FirstPacket_ReadOn(output) ==
  LET r == ParseReplyHeader(output)
      whole == Len(r.body) = r.contentLength
  IN  /\ ~mFirstPacket
      /\ mFirstPacket' = TRUE
      /\ chunked' = r.chunked
      /\ mRequestSuccess' = whole
      /\ mCurrentChunk' = mCurrentChunk \o IF r.chunked THEN r.body ELSE <<>>
      /\ response' = response \o IF r.chunked THEN <<>> ELSE r.body
      /\ pc' = IF r.chunked THEN "decode" ELSE IF whole THEN "done" ELSE "recv"

FirstPacket(output) ==
  LET r == ParseReplyHeader(output)
      whole == Len(r.body) = r.contentLength
  IN  /\ ~mFirstPacket
      /\ mFirstPacket' = TRUE
      /\ chunked' = r.chunked
      /\ mRequestSuccess' = whole
      /\ IF r.chunked
         THEN \* "output" is only replaced by the body when more must come
              /\ mCurrentChunk' = mCurrentChunk \o IF whole THEN output ELSE r.body
              /\ pc' = "decode"
              /\ UNCHANGED response
         ELSE /\ response' = response \o r.body
              /\ pc' = "done"
              /\ UNCHANGED mCurrentChunk

\* Only a chunked reply reads on after its first packet.
NextPacket(output) ==
  /\ mFirstPacket
  /\ mCurrentChunk' = mCurrentChunk \o output
  /\ pc' = "decode"
  /\ UNCHANGED <<mFirstPacket, chunked, response, mRequestSuccess>>

Packet(output) ==
  /\ FirstPacket(output) \/ NextPacket(output)
  /\ UNCHANGED <<reply, mCurrentChunkSize>>

Recv ==
  /\ pc = "recv"
  /\ \E n \in 1 .. RecvSize :
       /\ at + n <= Len(Wire(reply))
       /\ at' = at + n
       /\ badCuts' = badCuts \cup CutKinds(reply, at')
       /\ Packet(SubSeq(Wire(reply), at + 1, at'))
  /\ UNCHANGED interrupted

\* An error: the size -1 becomes TRUE, and no data. It may happen again and
\* again. Before the first byte it leaves nothing of the reply to come.
RecvError ==
  /\ pc = "recv"
  /\ interrupted' = (interrupted \/ at = 0)
  /\ Packet(<<>>)
  /\ UNCHANGED <<at, badCuts>>

GiveUp_KeepWaiting == UNCHANGED <<pc, mRequestSuccess>>
GiveUp_AsEnd == pc' = "done" /\ mRequestSuccess' = mFirstPacket
GiveUp == pc' = "done" /\ UNCHANGED mRequestSuccess

\* A timeout of five seconds, or the server has closed the connection.
RecvNothing ==
  /\ pc = "recv"
  /\ GiveUp
  /\ interrupted' = (interrupted \/ at < Len(Wire(reply)))
  /\ UNCHANGED <<replyVars, at, chunkVars, response, badCuts>>

-----------------------------------------------------------------------------
(* The loop over the chunks received so far.                               *)

\* std::getline: up to the first "\n", or everything.
LineEnd(data) == SelectInSeq(data, LAMBDA b : b = "\n")
FirstLine(data) == IF LineEnd(data) = 0 THEN data
                   ELSE SubSeq(data, 1, LineEnd(data) - 1)

IsHex(b) == Contains(HexDigits, b)
DigitOf(b) == LET k == SelectInSeq(HexDigits, LAMBDA h : h = b)
              IN  IF k > 16 THEN k - 7 ELSE k - 1

\* The hexadecimal digits in front, 0 when there are none.
HexValue(text) ==
  LET other  == SelectInSeq(text, LAMBDA b : ~IsHex(b))
      digits == IF other = 0 THEN Len(text) ELSE other - 1
      value[n \in 0 .. digits] ==
        IF n = 0 THEN 0 ELSE 16 * value[n - 1] + DigitOf(text[n])
  IN  value[digits]

Blank == {" ", "\t", "\r"}
IsBlank(text) == \A i \in DOMAIN text : text[i] \in Blank

MaxInt == 2147483647
MinInt == -MaxInt - 1

Behind(text, n) == SubSeq(text, n + 1, Len(text))

\* operator>> with std::hex into an int32_t: blanks, a sign and "0x" may come
\* first; a number that does not fit becomes the nearest one that does.
Number(text) ==
  LET blanks   == SelectInSeq(text, LAMBDA b : b \notin Blank) - 1
      word     == IF blanks < 0 THEN <<>> ELSE Behind(text, blanks)
      sign     == IF word # <<>> /\ word[1] \in {"+", "-"} THEN word[1] ELSE "+"
      unsigned == IF word # <<>> /\ word[1] \in {"+", "-"}
                  THEN Behind(word, 1) ELSE word
      prefixed == /\ Len(unsigned) > 1 /\ unsigned[1] = "0"
                  /\ unsigned[2] \in {"x", "X"}
      value    == HexValue(IF prefixed THEN Behind(unsigned, 2) ELSE unsigned)
  IN  IF sign = "-" THEN IF value > MaxInt THEN MinInt ELSE -value
                    ELSE IF value > MaxInt THEN MaxInt ELSE value

\* A text without a number in it leaves the size as it was.
ParseChunkSize(data) ==
  LET line == FirstLine(data)
  IN  /\ line # <<>> /\ Last(line) = "\r"
      /\ \E text \in {Front(line)} :
           mCurrentChunkSize' = IF IsBlank(text) THEN mCurrentChunkSize
                                ELSE Number(text)
      /\ mCurrentChunk' = IF LineEnd(data) \in 1 .. Len(data) - 1
                          THEN Behind(data, LineEnd(data))
                          ELSE data

decodeFrame == <<replyVars, at, badCuts, interrupted>>

EnoughForSize_LastLine == Len(mCurrentChunk) > 5
EnoughForSize_Always == Len(mCurrentChunk) > 0
EnoughForSize == Len(mCurrentChunk) > 3

WaitForSize ==
  /\ pc = "decode" /\ mCurrentChunkSize = -1
  /\ ~EnoughForSize
  /\ pc' = "recv"
  /\ UNCHANGED <<decodeFrame, chunkVars, response, mRequestSuccess>>

ReadSize ==
  /\ pc = "decode" /\ mCurrentChunkSize = -1
  /\ EnoughForSize
  /\ \/ /\ ParseChunkSize(mCurrentChunk)
        /\ pc' = IF mCurrentChunkSize' = -1 THEN "recv" ELSE "decode"
        /\ UNCHANGED mRequestSuccess
     \/ /\ FirstLine(mCurrentChunk) = <<>> \/ Last(FirstLine(mCurrentChunk)) # "\r"
        /\ pc' = "done" /\ mRequestSuccess' = FALSE
        /\ UNCHANGED chunkVars
  /\ UNCHANGED <<decodeFrame, response>>

LastChunk ==
  /\ pc = "decode" /\ mCurrentChunkSize = 0
  /\ pc' = "done" /\ mRequestSuccess' = TRUE
  /\ UNCHANGED <<decodeFrame, chunkVars, response>>

\* A negative size becomes a very large unsigned one.
WaitForData ==
  /\ pc = "decode"
  /\ mCurrentChunkSize < -1 \/ mCurrentChunkSize > Len(mCurrentChunk)
  /\ pc' = "recv"
  /\ UNCHANGED <<decodeFrame, chunkVars, response, mRequestSuccess>>

\* The data of a chunk, then its "\r\n"; when that is not there yet the size
\* stays what it was.
TakeChunk ==
  /\ pc = "decode" /\ mCurrentChunkSize \in 1 .. Len(mCurrentChunk)
  /\ LET size == mCurrentChunkSize
         rest == Behind(mCurrentChunk, size)
     IN  /\ response' = response \o SubSeq(mCurrentChunk, 1, size)
         /\ \/ /\ Len(rest) < 2
               /\ mCurrentChunk' = rest
               /\ pc' = "recv"
               /\ UNCHANGED <<mCurrentChunkSize, mRequestSuccess>>
            \/ /\ IsPrefix(CRLF, rest)
               /\ mCurrentChunk' = Behind(rest, 2)
               /\ mCurrentChunkSize' = -1
               /\ UNCHANGED <<pc, mRequestSuccess>>
            \/ /\ Len(rest) >= 2 /\ ~IsPrefix(CRLF, rest)
               /\ mCurrentChunk' = rest
               /\ pc' = "done" /\ mRequestSuccess' = FALSE
               /\ UNCHANGED mCurrentChunkSize
  /\ UNCHANGED decodeFrame

Decode == WaitForSize \/ ReadSize \/ LastChunk \/ WaitForData \/ TakeChunk

Get == Connect \/ Recv \/ RecvError \/ RecvNothing \/ Decode

Terminated == pc = "done" /\ UNCHANGED vars

Next == Get \/ Terminated

Spec == Init /\ [][Next]_vars

\* RecvWithTimeout returns after five seconds at the latest, with data, with
\* none, or with an error.
FairSpec == Spec /\ WF_vars(Connect \/ Recv \/ RecvNothing \/ Decode)

-----------------------------------------------------------------------------
(* Properties.                                                             *)

\* The members keep their types, whatever the server sends for the sizes; what
\* was received is a beginning of the reply; a plain reply is not read on.
TypeOK ==
  /\ reply \in Replies
  /\ at \in 0 .. Len(Wire(reply))
  /\ mFirstPacket \in BOOLEAN /\ chunked \in BOOLEAN
  /\ mCurrentChunk \in Seq(Byte)
  /\ mCurrentChunkSize \in Int
  /\ MinInt <= mCurrentChunkSize /\ mCurrentChunkSize <= MaxInt
  /\ response \in Seq(Byte)
  /\ mRequestSuccess \in BOOLEAN
  /\ pc \in {"connect", "recv", "decode", "done"}
  /\ mFirstPacket /\ pc # "done" => chunked
  /\ badCuts \subseteq {"header", "length", "line", "data"}
  /\ interrupted \in BOOLEAN

\* A size line is the number of bytes in hexadecimal digits, as many as the
\* server likes, and fits an int32_t.
WellFormed(r) ==
  r.framing = "chunked" =>
    \A i \in DOMAIN r.chunks :
      /\ \A k \in DOMAIN r.sizes[i] : IsHex(r.sizes[i][k])
      /\ HexValue(r.sizes[i]) = Len(r.chunks[i])
      /\ Len(r.chunks[i]) <= MaxInt

Clean == badCuts = {} /\ WellFormed(reply)
Delivered == pc = "done" /\ ~interrupted
Whole == mRequestSuccess /\ response = Body(reply)

\* As long as no piece has ended at an unlucky place, what is handed to
\* GetCourse is a beginning of the body. Get reports success for the whole body
\* only: a connection that is closed, times out or reports errors, anywhere
\* behind the first byte, is never taken for the end of the reply. An error
\* before the first byte is: Get then reports success and an empty body
\* (HttpClient.cpp:93).
OnlyTheBody ==
  Clean => /\ IsPrefix(response, Body(reply))
           /\ pc = "done" /\ mRequestSuccess => response = Body(reply) \/ at = 0

\* A reply that came to its end, in pieces cut anywhere but at the unlucky
\* places, with any number of errors reported between them, is decoded to the
\* whole body.
GoodCutsDecode == Delivered /\ Clean => Whole

\* The bytes between two turns of the loop are accounted for: with no unlucky
\* cut, what was decoded and what waits make up what came, chunk by chunk.
NothingDropped ==
  Clean /\ mFirstPacket /\ chunked /\ pc # "done" =>
    \E i \in 0 .. Len(reply.chunks) :
      LET done  == FlattenSeq(SubSeq(reply.chunks, 1, i))
          after == SubSeq(Wire(reply), LineStart(reply, i + 1) + 1, at)
      IN  /\ response = done
          /\ \/ mCurrentChunkSize = -1 /\ mCurrentChunk = after
             \/ /\ i < Len(reply.chunks)
                /\ mCurrentChunkSize = Len(reply.chunks[i + 1])
                /\ mCurrentChunk = SubSeq(Wire(reply), DataStart(reply, i + 1) + 1, at)
             \/ i = Len(reply.chunks) /\ mCurrentChunkSize = 0

\* Whatever the server sends, and when it sends nothing, Get returns and the
\* frame that called it ends, unless the socket reports errors for ever: a
\* chunked reply is read on after each of them (HttpClient.cpp:84-188).
GetReturns == <>(pc = "done") \/ []<><<RecvError>>_vars

\* A piece that ends between a chunk's data and its "\r\n" is completed by the
\* next one.
DataCutsDecode ==
  Delivered /\ badCuts \subseteq {"data"} /\ WellFormed(reply) => Whole
=============================================================================
