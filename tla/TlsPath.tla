------------------------------ MODULE TlsPath ------------------------------
(***************************************************************************)
(* From captured segments to handshake messages: advanceTLS feeds what     *)
(* TcpReassembly puts in order to the session, which cuts it as            *)
(* RecordStream says before the next payload is fed.                       *)
(***************************************************************************)
EXTENDS TcpReassembly, RecordStream

ASSUME DirsAssumption == Dirs = Sides
\* Whatever bytes are at a position, they can be read as a header.
ASSUME HeadersAssumption ==
  \A s \in Sides : 0..(StreamLen - 1) \subseteq DOMAIN RecordLen[s] \intersect DOMAIN MessageLen[s]

pathVars == <<vars, frameVars>>

PathInit == Init /\ FrameInit

Packet(s, g) ==
  /\ Settled
  /\ IgnorePacket(s, g) \/ Abandon(s, g) \/ BufferAhead(s, g)
       \/ DropRetransmission(s, g) \/ TakeInOrder(s, g)
  /\ UNCHANGED frameVars

\* A round of advanceTLS calls Feed.
AdvanceAndFeed ==
  /\ Settled
  /\ Advance
  /\ Feed(work.side, OS!Positions(work.chunk.off, work.chunk.len))

PathNext ==
  \/ \E s \in Sides : \E g \in Segments[s] : Packet(s, g)
  \/ AdvanceAndFeed
  \/ Cutting /\ UNCHANGED vars

PathSpec == PathInit /\ [][PathNext]_pathVars

-----------------------------------------------------------------------------
(* Properties *)

\* Every byte fed is in one place: in a record handed on, in order, or still
\* in recvBuf; and every handshake byte is in a message or still in hsBuf.
\* This holds wherever in the stream feeding began.
FramesAbut ==
  \A s \in Sides :
    /\ out[s] = FlattenSeq(records[s]) \o recvBuf[s]
    /\ HandshakeBytes(s, records[s]) = FlattenSeq(messages[s]) \o hsBuf[s]

\* The bytes captured without a gap from the first one fed.
Run(s) ==
  LET a == out[s][1]
      gap == {b \in a..StreamLen : b \notin seen[s]}
      end == CHOOSE b \in gap : \A c \in gap : b <= c
  IN  OS!Positions(a, end - a)

\* Between packets the session has been given the very records, and the very
\* handshake messages, which may span records, that cutting all the bytes
\* captured without a gap at once would give, however segments were ordered
\* and wherever they split a header or a body.
WholeFrames ==
  work = Idle /\ Settled /\ ~abandoned =>
    \A s \in Sides : out[s] # <<>> =>
      LET whole == Frames(Run(s), RecordHeader, RecordLen[s])
      IN  /\ records[s] = whole
          /\ messages[s] = Frames(HandshakeBytes(s, whole), MessageHeader, MessageLen[s])
=============================================================================
