---------------------------- MODULE RtcmFramer ----------------------------
(***************************************************************************)
(* How the decoder finds RTCM 3 messages in the chunks of a stream: the    *)
(* loop of do_rtcm_decode_work (src/rtcm/decoder.c) over input_rtcm3x      *)
(* (src/rtcm/rtcm.c), which synchronises byte by byte and then copies      *)
(* whole pieces, and beside it input_rtcm3, which takes one byte a call    *)
(* and which decoder.c uses instead when REFINE_RTCM_DECODER is 0.  A      *)
(* chunk may end anywhere: in the header, in the message, in the parity.   *)
(*                                                                         *)
(* A byte is a model value and what the length field and the parity of a   *)
(* frame say is given by two operators, so that short frames over a small  *)
(* alphabet show every way in which a chunk can cut them.  The bytewise    *)
(* reader follows the other: what the other has taken it is owed.          *)
(***************************************************************************)
EXTENDS Naturals, Sequences

CONSTANTS Byte,
          Preamble,         \* RTCM3PREAMB
          Length(_, _),     \* getbitu(buff,14,10): bits of the 2nd and 3rd byte
          ParityOK(_, _),   \* does the CRC of the message match the parity?
          BuffSize,         \* sizeof(rtcm->buff): 1200
          MaxChunk          \* bound: bytes of a chunk

ASSUME FramerAssumption ==
  /\ Preamble \in Byte
  /\ MaxChunk \in Nat \ {0}
  /\ BuffSize \in Nat
  /\ \A b, c \in Byte : Length(b, c) \in Nat /\ Length(b, c) + 6 <= BuffSize

VARIABLES buff,       \* the first nbyte bytes of rtcm->buff
          len,        \* rtcm->len
          rest,       \* the last rlen bytes of the task's chunk
          turns,      \* turns the loop may still take: task->data.nb - i
          found,      \* history: frames handed to decode_rtcm3 in this chunk
          ref_buff,   \* buff, len and found of input_rtcm3, which is fed ...
          ref_len,
          ref_found,
          owed        \* ... with the same bytes: those it has yet to take

framer == <<buff, len, rest, turns, found, ref_buff, ref_len, ref_found, owed>>

-----------------------------------------------------------------------------
(* input_rtcm3: one byte a call; its len counts no parity.                 *)

InputRtcm3 ==
  /\ owed # <<>>
  /\ owed' = Tail(owed)
  /\ IF ref_buff = <<>> /\ Head(owed) # Preamble
     THEN UNCHANGED <<ref_buff, ref_len, ref_found>>
     ELSE LET b == Append(ref_buff, Head(owed))
              l == IF Len(b) = 3 THEN Length(b[2], b[3]) + 3 ELSE ref_len
          IN  /\ ref_len' = l
              /\ IF Len(b) < 3 \/ Len(b) < l + 3
                 THEN ref_buff' = b /\ UNCHANGED ref_found
                 ELSE /\ ref_buff' = <<>>
                      /\ ref_found' = IF ParityOK(SubSeq(b, 1, l), SubSeq(b, l + 1, l + 3))
                                      THEN Append(ref_found, b) ELSE ref_found
  /\ UNCHANGED <<buff, len, rest, turns, found>>

-----------------------------------------------------------------------------
(* The loop of do_rtcm_decode_work.                                        *)

\* Mutant: a turn for every byte but the first.
TurnsOfShort(data) == Len(data) - 1

\* The loop of do_rtcm_decode_work has one turn for every byte of the chunk.
TurnsOf(data) == Len(data)

\* The chunk is over, for both readers.
Idle == turns = 0 /\ owed = <<>>

\* A task is taken from the queue.
NewChunk ==
  /\ Idle
  /\ \E n \in 1 .. MaxChunk : \E data \in [1 .. n -> Byte] :
       rest' = data /\ turns' = TurnsOf(data)
  /\ found' = <<>> /\ ref_found' = <<>>
  /\ UNCHANGED <<buff, len, ref_buff, ref_len, owed>>

\* A call of input_rtcm3x goes on with what is left of the chunk ...
Goes == turns # 0 /\ owed = <<>>

\* ... takes n bytes of it, and is the last when nothing is left.
Took(n, left) == /\ owed' = SubSeq(rest, 1, n)
                 /\ rest' = SubSeq(rest, n + 1, Len(rest))
                 /\ turns' = IF rest' = <<>> THEN 0 ELSE left

-----------------------------------------------------------------------------
(* input_rtcm3x.                                                           *)

\* rtcm->len as sync_frame sets it: with header and parity.
FrameLength(b) == Length(b[2], b[3]) + 6

\* The byte is kept unless it is before a frame.
Header(data) == IF buff = <<>> /\ data # Preamble THEN <<>> ELSE Append(buff, data)

\* Mutant: the third byte is given back to the caller (&buf[i] for &buf[++i]).
SyncByteAgain ==
  /\ Goes /\ Len(buff) < 3
  /\ buff' = Header(Head(rest))
  /\ len' = IF Len(buff') = 3 THEN FrameLength(buff') ELSE len
  /\ Took(IF Len(buff') = 3 THEN 0 ELSE 1, turns)
  /\ UNCHANGED <<found, ref_buff, ref_len, ref_found>>

\* sync_frame: a turn of its loop.  The call returns at the end of the chunk.
SyncByte ==
  /\ Goes /\ Len(buff) < 3
  /\ buff' = Header(Head(rest))
  /\ len' = IF Len(buff') = 3 THEN FrameLength(buff') ELSE len
  /\ Took(1, turns)
  /\ UNCHANGED <<found, ref_buff, ref_len, ref_found>>

\* What the frame still lacks.
Need == len - Len(buff)

\* The header is known, the end of the frame is not in the chunk: copy it all.
CopyPart ==
  /\ Goes /\ Len(buff) >= 3 /\ Len(rest) < Need
  /\ buff' = buff \o rest
  /\ Took(Len(rest), 0)
  /\ UNCHANGED <<len, found, ref_buff, ref_len, ref_found>>

\* It is: copy up to the end, check the parity and begin anew.
CopyFrame ==
  /\ Goes /\ Len(buff) >= 3 /\ Len(rest) >= Need
  /\ LET all == buff \o SubSeq(rest, 1, Need)
     IN  found' = IF ParityOK(SubSeq(all, 1, len - 3), SubSeq(all, len - 2, len))
                  THEN Append(found, all) ELSE found
  /\ buff' = <<>>
  /\ len' = len - 3
  /\ Took(Need, turns - 1)
  /\ UNCHANGED <<ref_buff, ref_len, ref_found>>

FramerInit == /\ buff = <<>> /\ len = 0 /\ found = <<>>
              /\ rest = <<>> /\ turns = 0
              /\ ref_buff = <<>> /\ ref_len = 0 /\ ref_found = <<>>
              /\ owed = <<>>

FramerNext == NewChunk \/ SyncByte \/ CopyPart \/ CopyFrame \/ InputRtcm3

FramerSpec == FramerInit /\ [][FramerNext]_framer

-----------------------------------------------------------------------------
(* Properties.                                                             *)

FramerTypeOK == /\ buff \in Seq(Byte) /\ ref_buff \in Seq(Byte)
                /\ len \in Nat /\ ref_len \in Nat
                /\ rest \in Seq(Byte) /\ owed \in Seq(Byte)
                /\ turns \in 0 .. MaxChunk
                /\ found \in Seq(Seq(Byte)) /\ ref_found \in Seq(Seq(Byte))

\* However the stream is cut into chunks, the piecewise reader hands the same
\* frames to the decoder as the bytewise one, and stands at the same place of
\* the stream (decoder.c:100-120, test/test_rtcm_decoder.c uses either).
ReadsAlike ==
  Idle => /\ found = ref_found
          /\ buff = ref_buff
          /\ Len(buff) >= 3 => len = ref_len + 3

\* No copy goes past rtcm->buff (rtcm.c:290, :295), also when a frame is
\* gathered over many chunks: what is there is always less than a frame.
InBuffer == /\ Len(buff) <= BuffSize
            /\ Len(buff) >= 3 => Len(buff) < len /\ len <= BuffSize

\* A turn for every byte is enough to use up the chunk (decoder.c:101, :108):
\* nothing is freed unread.
ChunkUsedUp == turns = 0 => rest = <<>>

\* What holds of the buffer at every turn: it is never overrun, and when the turns
\* are over no byte of the chunk is left.
BufferSound == FramerTypeOK /\ InBuffer /\ ChunkUsedUp

=============================================================================
