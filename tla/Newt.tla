-------------------------------- MODULE Newt --------------------------------
(***************************************************************************)
(* Messages over a pipe (vere/newt.c): a tag, a length in little-endian    *)
(* bytes, and that many bytes of message.  The reader gets the stream in   *)
(* pieces cut anywhere, has one message in progress and a queue of whole   *)
(* ones, and delivers the queue at once (u3_newt_read_sync, the serf) or   *)
(* one message per turn of its loop (u3_newt_read, the king).              *)
(*                                                                         *)
(* Bytes are Byte = 0 .. Base-1, and Base is 256 in the code.  A loop over *)
(* a buffer is one action per iteration, which only the writer, another    *)
(* process, can run between.                                               *)
(***************************************************************************)
EXTENDS Naturals, Sequences, SequencesExt

CONSTANTS Base,            \* of the length in a header
          Msg,             \* the messages: jammed nouns, never empty
          MaxSent,         \* bound on messages sent
          Modes            \* which readers to consider: "sync", "async"

Byte == 0 .. (Base - 1)

ASSUME NewtAssumption ==
  /\ Base \in Nat \ {0, 1} /\ MaxSent \in Nat
  /\ \A m \in Msg : m \in Seq(Byte) /\ Len(m) \in 1 .. (Base * Base * Base * Base - 1)
  /\ Modes \subseteq {"sync", "async"}

VARIABLES sent,            \* the messages the writer has handed to u3_newt_send
          writer,          \* "live" or "dead"
          wire,            \* the bytes in the pipe
          mode,            \* the reader is "sync" or "async"
          moat,            \* the reader: "live", "ended", "refused" or "gone"
          buf,             \* the rest of the buffer being decoded
          at,              \* "idle" between callbacks, "decode" within one
          sat, hed,        \* mes_u: awaiting "head" or "tail"; hed_u, its bytes
          len, tal,        \* mes_u.tal_u: the length to come, the bytes so far
          ext,             \* the queue of whole messages
          tim,             \* tim_u is armed
          got              \* the messages delivered by pok_f

wireVars == <<sent, writer, wire>>
messVars == <<sat, hed, len, tal>>
newtVars == <<sent, writer, wire, mode, moat, buf, at, sat, hed, len, tal, ext, tim, got>>

HeadLen == 5
Tag     == 0

\* n >> 8.
Shift(n) == n \div Base

\* The header of a message of n bytes.
HeadOf(n) ==
  <<Tag, n % Base, Shift(n) % Base, Shift(Shift(n)) % Base, Shift(Shift(Shift(n))) % Base>>

\* The length that a whole header names.
HeadValue(h) == h[2] + Base * (h[3] + Base * (h[4] + Base * h[5]))

Frame(m) == HeadOf(Len(m)) \o m

Least(a, b) == IF a < b THEN a ELSE b

-----------------------------------------------------------------------------
(* The writer and the pipe between.                                        *)

\* u3_newt_send: the header and the message are one write.
Send ==
  /\ writer = "live" /\ Len(sent) < MaxSent
  /\ \E m \in Msg : sent' = Append(sent, m) /\ wire' = wire \o Frame(m)
  /\ UNCHANGED <<writer, mode, moat, buf, at, messVars, ext, tim, got>>

\* The writer dies; of what it queued, the pipe has some first part.
WriterDies ==
  /\ writer = "live" /\ writer' = "dead"
  /\ \E n \in 0 .. Len(wire) : wire' = SubSeq(wire, 1, n)
  /\ UNCHANGED <<sent, mode, moat, buf, at, messVars, ext, tim, got>>

-----------------------------------------------------------------------------
(* The reader.                                                             *)

\* _newt_mess_head: await a header.
AwaitHead == sat' = "head" /\ hed' = <<>> /\ len' = 0 /\ tal' = <<>>

\* _newt_mess_tail: await a body of n bytes.
AwaitTail(n) == sat' = "tail" /\ hed' = <<>> /\ len' = n /\ tal' = <<>>

\* _newt_meat_plan: a whole message joins the queue.
MeatPlan(t) == ext' = Append(ext, t)

\* u3_newt_moat_stop: the stream is closed, what is in progress disposed of.
Dispose ==
  /\ AwaitHead
  /\ ext' = <<>> /\ tim' = FALSE
  /\ buf' = <<>> /\ at' = "idle"

\* libuv has read some bytes: _newt_read calls u3_newt_decode.
ReadSome ==
  /\ moat = "live" /\ at = "idle" /\ wire # <<>>
  /\ \E n \in 1 .. Len(wire) :
       /\ buf' = SubSeq(wire, 1, n)
       /\ wire' = SubSeq(wire, n + 1, Len(wire))
  /\ at' = "decode"
  /\ UNCHANGED <<sent, writer, mode, moat, messVars, ext, tim, got>>

\* Faulty: a header cut by the end of a buffer starts over.
DecodeHeadRestart ==
  /\ at = "decode" /\ sat = "head" /\ buf # <<>>
  /\ LET cop == Least(HeadLen - Len(hed), Len(buf))
         h   == hed \o SubSeq(buf, 1, cop)
     IN  /\ buf' = SubSeq(buf, cop + 1, Len(buf))
         /\ IF Len(h) < HeadLen
            THEN hed' = SubSeq(buf, 1, cop) /\ UNCHANGED <<sat, len, tal>>
            ELSE AwaitTail(HeadValue(h))
         /\ UNCHANGED <<moat, at, ext, tim>>
  /\ UNCHANGED <<wireVars, mode, got>>

\* One iteration that awaits a header.  bal_f of a bad header stops the moat,
\* as each of newt's three clients does.
DecodeHead ==
  /\ at = "decode" /\ sat = "head" /\ buf # <<>>
  /\ LET cop == Least(HeadLen - Len(hed), Len(buf))
         h   == hed \o SubSeq(buf, 1, cop)
     IN  \/ /\ Len(h) < HeadLen
            /\ hed' = h
            /\ buf' = SubSeq(buf, cop + 1, Len(buf))
            /\ UNCHANGED <<moat, at, sat, len, tal, ext, tim>>
         \/ /\ Len(h) = HeadLen /\ h[1] = Tag /\ HeadValue(h) # 0
            /\ AwaitTail(HeadValue(h))
            /\ buf' = SubSeq(buf, cop + 1, Len(buf))
            /\ UNCHANGED <<moat, at, ext, tim>>
         \/ /\ Len(h) = HeadLen /\ (h[1] # Tag \/ HeadValue(h) = 0)
            /\ moat' = "refused" /\ Dispose
  /\ UNCHANGED <<wireVars, mode, got>>

\* One iteration that awaits a body.
DecodeTail ==
  /\ at = "decode" /\ sat = "tail" /\ buf # <<>>
  /\ LET cop == Least(len - Len(tal), Len(buf))
         t   == tal \o SubSeq(buf, 1, cop)
     IN  /\ buf' = SubSeq(buf, cop + 1, Len(buf))
         /\ \/ /\ Len(t) < len
               /\ tal' = t
               /\ UNCHANGED <<sat, hed, len, ext>>
            \/ /\ Len(t) = len
               /\ MeatPlan(t) /\ AwaitHead
  /\ UNCHANGED <<wireVars, mode, moat, at, tim, got>>

\* _newt_meat_next_sync: deliver them all.
MeatSync == got' = got \o ext /\ ext' = <<>> /\ UNCHANGED tim

\* Faulty: one message per read, and no timer for the others.
MeatNextOnce(t) ==
  IF ext = <<>> THEN UNCHANGED <<ext, got>> /\ tim' = FALSE
  ELSE /\ got' = Append(got, Head(ext)) /\ ext' = Tail(ext) /\ tim' = FALSE

\* _newt_meat_next, with the timer as t: deliver one message, and arm the timer
\* if there are more.
MeatNext(t) ==
  IF ext = <<>> THEN UNCHANGED <<ext, got>> /\ tim' = t
  ELSE /\ got' = Append(got, Head(ext)) /\ ext' = Tail(ext)
       /\ tim' = (t \/ Len(ext) > 1)

\* The buffer is decoded: _newt_meat_next_sync or _newt_meat_next.
Deliver ==
  /\ at = "decode" /\ buf = <<>> /\ at' = "idle"
  /\ \/ mode = "sync" /\ MeatSync
     \/ mode = "async" /\ MeatNext(tim)
  /\ UNCHANGED <<wireVars, mode, moat, buf, messVars>>

\* _newt_meat_next_cb.
Timer ==
  /\ at = "idle" /\ tim
  /\ MeatNext(FALSE)
  /\ UNCHANGED <<wireVars, mode, moat, buf, at, messVars>>

\* The end of the stream: bal_f at once, whatever is still in the queue.
ReadEnd ==
  /\ moat = "live" /\ at = "idle" /\ wire = <<>> /\ writer = "dead"
  /\ moat' = "ended" /\ Dispose
  /\ UNCHANGED <<wireVars, mode, got>>

\* The client stops reading, for reasons of its own.
Stop ==
  /\ moat = "live" /\ at = "idle"
  /\ moat' = "gone" /\ Dispose
  /\ UNCHANGED <<wireVars, mode, got>>

NewtInit ==
  /\ sent = <<>> /\ wire = <<>> /\ writer = "live"
  /\ mode \in Modes
  /\ moat = "live" /\ buf = <<>> /\ at = "idle"
  /\ sat = "head" /\ hed = <<>> /\ len = 0 /\ tal = <<>>
  /\ ext = <<>> /\ tim = FALSE /\ got = <<>>

Reader == ReadSome \/ DecodeHead \/ DecodeTail \/ Deliver \/ Timer \/ ReadEnd

NewtNext == Send \/ WriterDies \/ Reader \/ Stop

NewtSpec == NewtInit /\ [][NewtNext]_newtVars

\* libuv reads what has arrived and runs every timer that is due.
NewtFairness ==
  /\ WF_newtVars(ReadSome) /\ WF_newtVars(Timer)
  /\ WF_newtVars(DecodeHead \/ DecodeTail \/ Deliver)

-----------------------------------------------------------------------------
(* Properties.                                                             *)

NewtTypeOK ==
  /\ sent \in Seq(Msg) /\ writer \in {"live", "dead"} /\ wire \in Seq(Byte)
  /\ mode \in Modes
  /\ moat \in {"live", "ended", "refused", "gone"}
  /\ buf \in Seq(Byte) /\ at \in {"idle", "decode"}
  /\ sat \in {"head", "tail"} /\ hed \in Seq(Byte) /\ Len(hed) < HeadLen
  /\ len \in Nat /\ tal \in Seq(Byte)
  /\ sat = "tail" => Len(tal) < len
  /\ ext \in Seq(Msg) /\ tim \in BOOLEAN /\ got \in Seq(Msg)

\* Wherever reads cut the stream, what the client has got and what waits for it
\* are the first messages that were sent, whole and in order (u3_newt_decode).
MessagesInOrder == NewtTypeOK /\ IsPrefix(got \o ext, sent)

\* Every message sent is delivered, unless the writer or the client ends: no cut
\* makes the reader refuse a good header, and no message waits in the queue for
\* a read that never comes.
MessagesArrive ==
  \A n \in 1 .. MaxSent :
    Len(sent) >= n ~> (Len(got) >= n \/ writer = "dead" \/ moat = "gone")
=============================================================================
