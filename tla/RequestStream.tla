--------------------------- MODULE RequestStream ---------------------------
(***************************************************************************)
(* What crate B does with the bytes of one client connection (proxy.rs):   *)
(* it reads into an 8 KiB buffer until the four bytes that end the request *)
(* head, forwards the rewritten head, and then copies whatever the client  *)
(* still sends.  Crate C does the same over TLS.                           *)
(*                                                                         *)
(* The transport delivers the client's bytes in pieces of its own choosing,*)
(* so a read returns any non-empty part of what has arrived, and the end   *)
(* of the head may straddle reads or share a read with the body.           *)
(*                                                                         *)
(* Outside this module: parsing, the pick and the connection to the        *)
(* upstream (module Connection), and the answer flowing back.              *)
(***************************************************************************)
EXTENDS Integers, Sequences

CONSTANTS Byte,      \* the bytes that occur in a request
          CR, LF,    \* the two that end a line
          Streams,   \* what a client may send on one connection
          Cap        \* HEADER_BUF_SIZE

ASSUME ByteAssumption == CR \in Byte /\ LF \in Byte
ASSUME StreamsAssumption == Streams \subseteq Seq(Byte)
ASSUME CapAssumption == Cap \in Nat \ {0}

VARIABLES stream,     \* all the client sends, if nothing stops it
          arrived,    \* how many bytes of it reached the proxy's socket
          client,     \* "open", "fin" (half-closed) or "reset"
          filled,     \* bytes read into header_buf
          stage,      \* where handle_connection is
          headerLen,  \* what read_until_headers_end returned
          received,   \* what copy_bidirectional moved from client to upstream
          lastFrom    \* history: where the read that completed the head began

streamVars == <<stream, arrived, client, filled, stage, headerLen, received, lastFrom>>

StreamInit ==
  /\ stream \in Streams
  /\ arrived = 0
  /\ client = "open"
  /\ filled = 0
  /\ stage = "reading"
  /\ headerLen = 0
  /\ received = <<>>
  /\ lastFrom = 0

-----------------------------------------------------------------------------
(* The client and the network.                                             *)

Arrive ==
  /\ client = "open" /\ arrived < Len(stream)
  /\ arrived' = arrived + 1
  /\ UNCHANGED <<stream, client, filled, stage, headerLen, received, lastFrom>>

(* It may stop at any point; "fin" leaves what arrived readable. *)
CloseClient ==
  /\ client = "open"
  /\ client' \in {"fin", "reset"}
  /\ UNCHANGED <<stream, arrived, filled, stage, headerLen, received, lastFrom>>

-----------------------------------------------------------------------------
(* read_until_headers_end                                                  *)

(* `&buf[i..i + 4] == b"\r\n\r\n"`, for the four bytes that end at k. *)
EndsAt(k) == k >= 4 /\ SubSeq(stream, k - 3, k) = <<CR, LF, CR, LF>>

(* Mutant: `0..filled - 4`, without the place of a head that ends the read. *)
ScannedExclusive(n) == 4 .. filled + n - 1

(* Mutant: the scan covers only what the last read brought in. *)
ScannedLastRead(n) == filled + 4 .. filled + n

(* The scan goes over buf[0..filled + n]: a head may end at any of these. *)
Scanned(n) == 4 .. filled + n

(* Mutant: a read that is not limited to what is left of the buffer. *)
ReadSizesUnlimited == 1 .. arrived - filled

(* What one `read(&mut buf[filled..])` may return. *)
ReadSizes == 1 .. (IF arrived < Cap THEN arrived ELSE Cap) - filled

ReadHead ==
  /\ stage = "reading" /\ client # "reset"
  /\ \E n \in ReadSizes : \E k \in Scanned(n) :
       /\ EndsAt(k) /\ \A j \in Scanned(n) : j < k => ~EndsAt(j)
       /\ filled' = filled + n
       /\ headerLen' = k
  /\ stage' = "head"
  /\ lastFrom' = filled
  /\ UNCHANGED <<stream, arrived, client, received>>

ReadMore ==
  /\ stage = "reading" /\ client # "reset"
  /\ \E n \in ReadSizes :
       /\ \A k \in Scanned(n) : ~EndsAt(k)
       /\ filled' = filled + n
  /\ UNCHANGED <<stream, arrived, client, stage, headerLen, received, lastFrom>>

(* `bail!("header buffer overflow ...")`, answered with 431. *)
Overflow ==
  /\ stage = "reading" /\ filled >= Cap
  /\ stage' = "tooLarge"
  /\ UNCHANGED <<stream, arrived, client, filled, headerLen, received, lastFrom>>

(* Mutant: a read of 0 bytes is retried. *)
ReadEofRetry ==
  /\ stage = "reading" /\ filled < Cap
  /\ client = "fin" /\ filled = arrived
  /\ UNCHANGED streamVars

(* A read of 0 bytes, `bail!("client closed ...")`, also answered with 431. *)
ReadEof ==
  /\ stage = "reading" /\ filled < Cap
  /\ client = "fin" /\ filled = arrived
  /\ stage' = "closed"
  /\ UNCHANGED <<stream, arrived, client, filled, headerLen, received, lastFrom>>

(* A read that fails; what had arrived is lost with the connection. *)
ReadError ==
  /\ stage = "reading" /\ filled < Cap
  /\ client = "reset"
  /\ stage' = "failed"
  /\ UNCHANGED <<stream, arrived, client, filled, headerLen, received, lastFrom>>

-----------------------------------------------------------------------------
(* `upstream.write_all(&rewritten)`: the head goes out, as header_buf[..len].*)
ForwardHead ==
  /\ stage = "head"
  /\ stage' = "piping"
  /\ UNCHANGED <<stream, arrived, client, filled, headerLen, received, lastFrom>>

(* How far the socket has been read: by the loop, then by the copy. *)
consumed == filled + Len(received)

(* copy_bidirectional, client to upstream: it reads the socket, not header_buf.*)
PipeBody ==
  /\ stage = "piping" /\ client # "reset"
  /\ consumed < arrived
  /\ received' = Append(received, stream[consumed + 1])
  /\ UNCHANGED <<stream, arrived, client, filled, stage, headerLen, lastFrom>>

(* The client's end of stream is passed on once everything was copied. *)
PipeEof ==
  /\ stage = "piping" /\ client = "fin"
  /\ consumed = arrived
  /\ stage' = "done"
  /\ UNCHANGED <<stream, arrived, client, filled, headerLen, received, lastFrom>>

(* The copy fails when the client resets the connection. *)
PipeError ==
  /\ stage = "piping" /\ client = "reset"
  /\ stage' = "failed"
  /\ UNCHANGED <<stream, arrived, client, filled, headerLen, received, lastFrom>>

Reader == ReadHead \/ ReadMore \/ Overflow \/ ReadEof \/ ReadError
Piper  == ForwardHead \/ PipeBody \/ PipeEof \/ PipeError

StreamNext == Arrive \/ CloseClient \/ Reader \/ Piper

(* The task runs whenever it can; nothing obliges the client to go on.     *)
StreamSpec == StreamInit /\ [][StreamNext]_streamVars /\ WF_streamVars(Reader) /\ WF_streamVars(Piper)

-----------------------------------------------------------------------------
StreamTypeOK ==
  /\ stream \in Streams
  /\ arrived \in 0 .. Len(stream)
  /\ client \in {"open", "fin", "reset"}
  /\ filled \in 0 .. arrived /\ filled <= Cap
  /\ stage \in {"reading", "head", "piping", "done", "tooLarge", "closed", "failed"}
  /\ headerLen \in 0 .. filled
  /\ received \in Seq(Byte) /\ consumed <= arrived
  /\ lastFrom \in 0 .. filled

(* The first k bytes hold no end of a head. *)
NoEndWithin(k) == \A j \in 4 .. k : ~EndsAt(j)

(***************************************************************************)
(* The verdict of read_until_headers_end is a function of the bytes alone, *)
(* not of how they were cut into reads: the head ends at the first blank   *)
(* line, wherever the reads fell; "too large" means exactly that none ends *)
(* within Cap bytes; "closed" that none ends in all the client sent.       *)
(***************************************************************************)
VerdictIsChunkIndependent ==
  /\ stage \in {"head", "piping", "done"} =>
       /\ headerLen \in 4 .. Cap /\ EndsAt(headerLen)
       /\ NoEndWithin(headerLen - 1)
  /\ stage = "tooLarge" => arrived >= Cap /\ NoEndWithin(Cap)
  /\ stage = "closed" => arrived < Cap /\ NoEndWithin(arrived)

(***************************************************************************)
(* "Pipe remaining body": once the client's end of stream has been passed  *)
(* on, the upstream has the whole body, every byte sent after the head.    *)
(***************************************************************************)
BodyIntact ==
  stage = "done" => received = SubSeq(stream, headerLen + 1, arrived)

(***************************************************************************)
(* What holds instead: what is lost is at most what followed the head in   *)
(* the one read that completed it, and all that came after that read has   *)
(* arrived upstream in order.  A client that sends its body in later       *)
(* segments than its head is served in full.                               *)
(***************************************************************************)
OnlySharedReadIsLost ==
  stage = "done" => /\ received = SubSeq(stream, filled + 1, arrived)
                    /\ lastFrom < headerLen /\ headerLen <= filled

(***************************************************************************)
(* The read loop cannot spin or hang by itself: once the client closed, or *)
(* enough bytes to decide have arrived, the connection leaves "reading".   *)
(***************************************************************************)
DecidedRequestIsAnswered ==
  (client # "open" \/ arrived >= Cap \/ ~NoEndWithin(arrived)) ~> stage # "reading"
=============================================================================
