---------------------------- MODULE RecordStream ----------------------------
(***************************************************************************)
(* How a TLS session cuts the bytes it is fed into records, and the bodies *)
(* of cleartext handshake records into handshake messages                  *)
(* (internal/tlssession: Feed, record.go and the buffers of dirState).     *)
(* Bytes come in chunks of any size; a record or a message may be split    *)
(* anywhere, its header included.                                          *)
(*                                                                         *)
(* As in TcpReassembly a byte is named by its position in the stream of    *)
(* its sender.  What a header says is a function of the position of its    *)
(* first byte: also of positions where no frame begins, for a capture may  *)
(* start in the middle of a record.                                        *)
(***************************************************************************)
EXTENDS Integers, Sequences, SequencesExt

CONSTANTS
  Dirs,           \* the two directions
  RecordHeader,   \* 5 bytes
  MessageHeader,  \* 4 bytes
  RecordLen,      \* RecordLen[s][p]: the body length in a record header at p
  MessageLen,     \* MessageLen[s][p]: the same of a handshake message at p
  Handshakes      \* Handshakes[s]: where a record header says handshake

ASSUME HeaderAssumption == RecordHeader \in Nat \ {0} /\ MessageHeader \in Nat \ {0}
ASSUME LengthAssumption ==
  \A s \in Dirs : /\ \A p \in DOMAIN RecordLen[s] : RecordLen[s][p] \in Nat
                  /\ \A p \in DOMAIN MessageLen[s] : MessageLen[s][p] \in Nat

VARIABLES
  recvBuf,   \* dirState.recvBuf: bytes not yet cut into records
  hsBuf,     \* dirState.hsBuf: bytes not yet cut into messages
  records,   \* history: the records cut so far, each with its bytes
  messages   \* history: the messages cut so far

frameVars == <<recvBuf, hsBuf, records, messages>>

FrameInit ==
  /\ recvBuf  = [s \in Dirs |-> <<>>]
  /\ hsBuf    = [s \in Dirs |-> <<>>]
  /\ records  = [s \in Dirs |-> <<>>]
  /\ messages = [s \in Dirs |-> <<>>]

\* The bytes of the frame that begins the buffer.
Size(buf, header, len) == header + len[buf[1]]

\* extractRecords and extractHandshakeMessages: a frame is taken when its
\* header and its body are there.
HasFrame(buf, header, len) == Len(buf) >= header /\ Len(buf) >= Size(buf, header, len)

HasRecord(s)  == HasFrame(recvBuf[s], RecordHeader, RecordLen[s])
HasMessage(s) == HasFrame(hsBuf[s], MessageHeader, MessageLen[s])

\* Feed has returned: nothing more can be cut.
Settled == \A s \in Dirs : ~HasRecord(s) /\ ~HasMessage(s)

\* Mutant of Feed: what was left over is overwritten.
FeedAfresh(s, bytes) ==
  /\ recvBuf' = [recvBuf EXCEPT ![s] = bytes]
  /\ UNCHANGED <<hsBuf, records, messages>>

Feed(s, bytes) ==
  /\ recvBuf' = [recvBuf EXCEPT ![s] = @ \o bytes]
  /\ UNCHANGED <<hsBuf, records, messages>>

Body(frame, header) == SubSeq(frame, header + 1, Len(frame))

\* Mutant of CutRecord: the handshake bytes kept from the last record are lost.
CutRecordAlone(s) ==
  LET n == Size(recvBuf[s], RecordHeader, RecordLen[s])
      r == SubSeq(recvBuf[s], 1, n)
  IN
  /\ HasRecord(s) /\ ~HasMessage(s)
  /\ records' = [records EXCEPT ![s] = Append(@, r)]
  /\ recvBuf' = [recvBuf EXCEPT ![s] = SubSeq(@, n + 1, Len(@))]
  /\ hsBuf' = [hsBuf EXCEPT ![s] = IF r[1] \in Handshakes[s] THEN Body(r, RecordHeader) ELSE @]
  /\ UNCHANGED messages

\* A record is cut off; the body of one that says handshake joins what the
\* records before it have left of a message.  Other records are dropped here:
\* while the direction is in the clear nothing is done with them.
CutRecord(s) ==
  LET n == Size(recvBuf[s], RecordHeader, RecordLen[s])
      r == SubSeq(recvBuf[s], 1, n)
  IN
  /\ HasRecord(s) /\ ~HasMessage(s)
  /\ records' = [records EXCEPT ![s] = Append(@, r)]
  /\ recvBuf' = [recvBuf EXCEPT ![s] = SubSeq(@, n + 1, Len(@))]
  /\ hsBuf' = [hsBuf EXCEPT ![s] = IF r[1] \in Handshakes[s] THEN @ \o Body(r, RecordHeader) ELSE @]
  /\ UNCHANGED messages

CutMessage(s) ==
  LET n == Size(hsBuf[s], MessageHeader, MessageLen[s]) IN
  /\ HasMessage(s)
  /\ messages' = [messages EXCEPT ![s] = Append(@, SubSeq(hsBuf[s], 1, n))]
  /\ hsBuf' = [hsBuf EXCEPT ![s] = SubSeq(@, n + 1, Len(@))]
  /\ UNCHANGED <<recvBuf, records>>

Cutting == \E s \in Dirs : CutRecord(s) \/ CutMessage(s)

-----------------------------------------------------------------------------
(* The reference: all of a byte sequence cut at once. *)

Frames(bytes, header, len) ==
  LET f[i \in 1..(Len(bytes) + 1)] ==
        LET rest == SubSeq(bytes, i, Len(bytes))
        IN  IF ~(Len(rest) >= header /\ Len(rest) >= header + len[rest[1]]) THEN <<>>
            ELSE LET n == header + len[rest[1]] IN <<SubSeq(rest, 1, n)>> \o f[i + n]
  IN  f[1]

\* The handshake bytes in a sequence of records.
HandshakeBytes(s, rs) ==
  FlattenSeq([i \in DOMAIN rs |->
                IF rs[i][1] \in Handshakes[s] THEN Body(rs[i], RecordHeader) ELSE <<>>])
=============================================================================
