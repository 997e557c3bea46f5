-------------------------- MODULE V4l2DmaCameraProofs --------------------------
(***************************************************************************)
(* FramesFresh for frames of any height, any number of turns and of ends   *)
(* of the process, and any number of failing reads.                        *)
(***************************************************************************)
EXTENDS V4l2DmaCamera, TLAPS

Rows == 1 .. XdmaRows
Pcs == {"down", "map", "start", "poll", "clear", "dma", "read", "send", "sleep"} \cup Settings

TypeOK ==
  /\ pc \in Pcs
  /\ settings \subseteq Settings
  /\ capture \in [turn : Nat, rows : 0 .. XdmaRows]
  /\ frame \in [Rows -> Nat \cup {Zero}]
  /\ done \in BOOLEAN
  /\ requests \in Nat
  /\ taken_with \in Seq(SUBSET Settings) /\ Len(taken_with) = requests
  /\ fpga_frame_buf \in [Rows -> Nat \cup {Zero}]
  /\ rows_read \in 0 .. XdmaRows
  /\ failed \in BOOLEAN /\ dirty \in BOOLEAN

\* The settings are written one after the other.
SettingsInv ==
  /\ pc = "exposure" => "pattern" \in settings
  /\ pc = "iso" => {"pattern", "exposure"} \subseteq settings
  /\ pc = "start" => settings = Settings

\* The request in progress was made, with all of the settings.
Requested == requests >= 1 /\ taken_with[requests] = Settings

FrameTaken == \A r \in Rows : frame[r] = requests

\* Between its handshakes the FPGA owes nothing; within one, it is capturing
\* for the request, or has captured and says so.
HandshakeInv ==
  /\ pc \notin {"poll", "clear"} => capture = NoCapture /\ ~done
  /\ pc \in {"poll", "clear", "dma", "read", "send"} => Requested
  /\ pc = "clear" => done
  /\ done => capture = NoCapture /\ FrameTaken
  /\ pc \in {"dma", "read", "send"} => FrameTaken
  /\ capture # NoCapture =>
       /\ capture.turn = requests
       /\ \A r \in Rows : r <= capture.rows => frame[r] = requests
  /\ pc = "poll" => done \/ capture # NoCapture

\* What was read is of the request, as far as read() came.
ReadInv ==
  /\ pc = "read" =>
       \A r \in Rows : fpga_frame_buf[r] = IF r <= rows_read THEN requests ELSE Zero
  /\ pc = "read" => ~failed
  /\ pc = "send" =>
       \A r \in Rows : fpga_frame_buf[r] \in {requests} \cup IF failed THEN {Zero} ELSE {}

SentInv ==
  sent # NoFrame =>
    /\ sent.turn \in 1 .. requests
    /\ taken_with[sent.turn] = Settings
    /\ \A r \in 1 .. RealRows : r <= XdmaRows =>
         sent.rows[r] \in {sent.turn} \cup IF sent.failed THEN {Zero} ELSE {}

Inv == TypeOK /\ SettingsInv /\ (~dirty => HandshakeInv /\ ReadInv /\ SentInv)

LEMMA InvInit == Init => Inv
<1> SUFFICES ASSUME Init PROVE Inv
  OBVIOUS
<1>1. TypeOK
  <2>1. <<>> \in Seq(SUBSET Settings) /\ Len(<<>>) = 0
    OBVIOUS
  <2>2. frame \in [Rows -> Nat \cup {Zero}] /\ fpga_frame_buf \in [Rows -> Nat \cup {Zero}]
    BY DEF Init, Rows
  <2>3. capture \in [turn : Nat, rows : 0 .. XdmaRows] /\ rows_read \in 0 .. XdmaRows
    BY CameraAssumption DEF Init, NoCapture
  <2> QED
    BY <2>1, <2>2, <2>3 DEF Init, TypeOK, Pcs
<1>2. SettingsInv /\ HandshakeInv /\ ReadInv /\ SentInv
  BY DEF Init, SettingsInv, HandshakeInv, ReadInv, SentInv, Requested, Settings
<1> QED
  BY <1>1, <1>2 DEF Inv

LEMMA InvNext == Inv /\ [Next]_vars => Inv'
<1> SUFFICES ASSUME Inv, [Next]_vars PROVE Inv'
  OBVIOUS
<1> USE CameraAssumption DEF Goto, fpga, reading, faults
<1> DEFINE Clean == HandshakeInv /\ ReadInv /\ SentInv
<1>1. CASE Start \/ MapBar \/ NextTurn
  <2>1. TypeOK' /\ SettingsInv'
    BY <1>1 DEF Start, MapBar, NextTurn, Inv, TypeOK, Pcs, SettingsInv, Settings
  <2>2. ASSUME ~dirty PROVE Clean'
    BY <1>1, <2>2 DEF Start, MapBar, NextTurn, Inv, HandshakeInv, ReadInv, SentInv,
       Requested, FrameTaken
  <2> QED
    BY <1>1, <2>1, <2>2 DEF Start, MapBar, NextTurn, Inv
<1>2. CASE WriteSetting
  <2>1. pc' \in {"exposure", "iso", "start"} /\ pc \in Settings
    BY <1>2 DEF WriteSetting, After, Settings
  <2>2. TypeOK'
    BY <1>2, <2>1 DEF WriteSetting, Inv, TypeOK, Pcs, Settings
  <2>3. SettingsInv'
    <3>1. settings' = settings \cup {pc} /\ settings \subseteq Settings
      BY <1>2 DEF WriteSetting, Inv, TypeOK
    <3>2. CASE pc = "pattern"
      BY <1>2, <3>1, <3>2 DEF WriteSetting, After, SettingsInv
    <3>3. CASE pc = "exposure"
      BY <1>2, <3>1, <3>3 DEF WriteSetting, After, Inv, SettingsInv
    <3>4. CASE pc = "iso"
      <4>1. pc' = "start" /\ settings' = Settings
        BY <1>2, <3>1, <3>4 DEF WriteSetting, After, Inv, SettingsInv, Settings
      <4> QED
        BY <4>1 DEF SettingsInv
    <3> QED
      BY <2>1, <3>2, <3>3, <3>4 DEF Settings
  <2>4. ASSUME ~dirty PROVE Clean'
    BY <1>2, <2>1, <2>4 DEF WriteSetting, Inv, HandshakeInv, ReadInv, SentInv, Requested,
       FrameTaken, Settings
  <2> QED
    BY <1>2, <2>2, <2>3, <2>4 DEF WriteSetting, Inv
<1>3. CASE StartCapture
  <2> DEFINE n == requests + 1
  <2>1. /\ n \in Nat /\ requests' = n
        /\ taken_with' \in Seq(SUBSET Settings) /\ Len(taken_with') = n
        /\ taken_with'[n] = Settings
        /\ \A i \in 1 .. requests : taken_with'[i] = taken_with[i]
    BY <1>3 DEF StartCapture, Inv, TypeOK, SettingsInv
  <2>2. capture' = [turn |-> n, rows |-> 0] \/ (capture # NoCapture /\ capture' = capture)
    BY <1>3 DEF StartCapture
  <2>3. TypeOK' /\ SettingsInv'
    BY <1>3, <2>1, <2>2 DEF StartCapture, Inv, TypeOK, Pcs, SettingsInv
  <2>4. ASSUME ~dirty PROVE Clean'
    <3>1. capture = NoCapture /\ ~done
      BY <1>3, <2>4 DEF StartCapture, Inv, HandshakeInv
    <3>2. capture' = [turn |-> n, rows |-> 0] /\ capture' # NoCapture
      BY <2>1, <2>2, <3>1 DEF NoCapture, Inv, TypeOK
    <3>3. HandshakeInv'
      BY <1>3, <2>1, <3>1, <3>2 DEF StartCapture, HandshakeInv, Requested, Rows, Inv, TypeOK
    <3>4. SentInv'
      BY <1>3, <2>1, <2>4 DEF StartCapture, Inv, SentInv, TypeOK
    <3> QED
      BY <1>3, <3>3, <3>4 DEF StartCapture, ReadInv
  <2> QED
    BY <1>3, <2>3, <2>4 DEF StartCapture, Inv
<1>4. CASE PollDone \/ ClearDone
  <2>1. TypeOK' /\ SettingsInv'
    BY <1>4 DEF PollDone, ClearDone, Inv, TypeOK, Pcs, SettingsInv
  <2>2. ASSUME ~dirty PROVE Clean'
    BY <1>4, <2>2 DEF PollDone, ClearDone, Inv, HandshakeInv, ReadInv, SentInv,
       Requested, FrameTaken
  <2> QED
    BY <1>4, <2>1, <2>2 DEF PollDone, ClearDone, Inv
<1>5. CASE BeginRead
  <2>1. TypeOK' /\ SettingsInv'
    <3>1. fpga_frame_buf' \in [Rows -> Nat \cup {Zero}] /\ rows_read' \in 0 .. XdmaRows
      BY <1>5 DEF BeginRead, Rows
    <3> QED
      BY <1>5, <3>1 DEF BeginRead, Inv, TypeOK, Pcs, SettingsInv
  <2>2. ASSUME ~dirty PROVE Clean'
    BY <1>5, <2>2 DEF BeginRead, Inv, HandshakeInv, ReadInv, SentInv, Requested, FrameTaken, Rows
  <2> QED
    BY <1>5, <2>1, <2>2 DEF BeginRead, Inv
<1>6. CASE ReadRow
  <2>1. rows_read + 1 \in Rows /\ frame[rows_read + 1] \in Nat \cup {Zero}
    BY <1>6 DEF ReadRow, Inv, TypeOK, Rows
  <2>2. TypeOK' /\ SettingsInv'
    BY <1>6, <2>1 DEF ReadRow, Inv, TypeOK, Pcs, Rows, SettingsInv
  <2>3. ASSUME ~dirty PROVE Clean'
    <3>1. frame[rows_read + 1] = requests
      BY <1>6, <2>1, <2>3 DEF ReadRow, Inv, HandshakeInv, FrameTaken
    <3>2. ReadInv'
      BY <1>6, <2>1, <2>3, <3>1 DEF ReadRow, Inv, TypeOK, ReadInv, Rows
    <3> QED
      BY <1>6, <2>3, <3>2 DEF ReadRow, Inv, HandshakeInv, SentInv, Requested, FrameTaken
  <2> QED
    BY <1>6, <2>2, <2>3 DEF ReadRow, Inv
<1>7. CASE ReadReturns \/ ReadFails
  <2>1. TypeOK' /\ SettingsInv'
    BY <1>7 DEF ReadReturns, ReadFails, Inv, TypeOK, Pcs, SettingsInv
  <2>2. ASSUME ~dirty PROVE Clean'
    <3>1. ReadInv'
      BY <1>7, <2>2 DEF ReadReturns, ReadFails, Inv, TypeOK, ReadInv, Rows
    <3> QED
      BY <1>7, <2>2, <3>1 DEF ReadReturns, ReadFails, Inv, HandshakeInv, SentInv, Requested,
         FrameTaken
  <2> QED
    BY <1>7, <2>1, <2>2 DEF ReadReturns, ReadFails, Inv
<1>8. CASE Send
  <2>1. TypeOK' /\ SettingsInv'
    BY <1>8 DEF Send, Inv, TypeOK, Pcs, SettingsInv
  <2>2. ASSUME ~dirty PROVE Clean'
    <3>1. HandshakeInv' /\ ReadInv'
      BY <1>8, <2>2 DEF Send, Inv, HandshakeInv, ReadInv, Requested, FrameTaken
    <3>2. sent' = [turn |-> requests, rows |-> real_video, failed |-> failed]
      BY <1>8 DEF Send
    <3>3. \A r \in 1 .. RealRows : r <= XdmaRows => real_video[r] = fpga_frame_buf[r] /\ r \in Rows
      BY DEF real_video, Rows
    <3>4. \A r \in Rows : fpga_frame_buf[r] \in {requests} \cup IF failed THEN {Zero} ELSE {}
      BY <1>8, <2>2 DEF Send, Inv, ReadInv
    <3>5. Requested
      BY <1>8, <2>2 DEF Send, Inv, HandshakeInv
    <3>6. /\ sent'.turn = requests /\ sent'.failed = failed
          /\ \A r \in 1 .. RealRows : r <= XdmaRows => sent'.rows[r] = fpga_frame_buf[r] /\ r \in Rows
      BY <3>2, <3>3
    <3>7. requests' = requests /\ taken_with' = taken_with
      BY <1>8 DEF Send
    <3>8. SentInv'
      BY <3>4, <3>5, <3>6, <3>7 DEF SentInv, Requested, Inv, TypeOK
    <3> QED
      BY <3>1, <3>8
  <2> QED
    BY <1>8, <2>1, <2>2 DEF Send, Inv
<1>9. CASE Ended
  <2>1. TypeOK' /\ SettingsInv'
    BY <1>9 DEF Ended, Inv, TypeOK, Pcs, SettingsInv
  <2>2. ASSUME ~dirty' PROVE Clean'
    BY <1>9, <2>2 DEF Ended, Inv, HandshakeInv, ReadInv, SentInv, Requested, FrameTaken
  <2> QED
    BY <2>1, <2>2 DEF Inv
<1>10. CASE CaptureRow
  <2>1. capture.rows + 1 \in Rows /\ capture.turn \in Nat
    BY <1>10 DEF CaptureRow, Inv, TypeOK, Rows
  <2>2. capture' = [turn |-> capture.turn, rows |-> capture.rows + 1]
    BY <1>10 DEF CaptureRow, Inv, TypeOK
  <2>3. TypeOK' /\ SettingsInv'
    <3>1. frame' \in [Rows -> Nat \cup {Zero}]
      BY <1>10, <2>1 DEF CaptureRow, Inv, TypeOK
    <3>2. capture' \in [turn : Nat, rows : 0 .. XdmaRows]
      BY <2>1, <2>2 DEF Rows
    <3> QED
      BY <1>10, <3>1, <3>2 DEF CaptureRow, Inv, TypeOK, SettingsInv
  <2>4. ASSUME ~dirty PROVE Clean'
    <3>1. capture.turn = requests /\ ~done /\ pc = "poll"
      BY <1>10, <2>4 DEF CaptureRow, Inv, HandshakeInv
    <3>2. \A r \in Rows : r <= capture.rows + 1 => frame'[r] = requests
      BY <1>10, <2>1, <2>4, <3>1 DEF CaptureRow, Inv, TypeOK, HandshakeInv, Rows
    <3>3. capture' # NoCapture
      BY <2>2, <1>10 DEF NoCapture, Inv, TypeOK
    <3>4. HandshakeInv'
      BY <1>10, <2>2, <2>4, <3>1, <3>2, <3>3 DEF CaptureRow, Inv, HandshakeInv, Requested
    <3> QED
      BY <1>10, <2>4, <3>1, <3>4 DEF CaptureRow, Inv, ReadInv, SentInv
  <2> QED
    BY <1>10, <2>3, <2>4 DEF CaptureRow, Inv
<1>11. CASE CaptureDone
  <2>1. TypeOK' /\ SettingsInv'
    BY <1>11 DEF CaptureDone, Inv, TypeOK, Pcs, SettingsInv, NoCapture
  <2>2. ASSUME ~dirty PROVE Clean'
    <3>1. capture # NoCapture
      BY <1>11 DEF CaptureDone, NoCapture
    <3>2. pc = "poll" /\ ~done /\ FrameTaken
      BY <1>11, <2>2, <3>1 DEF CaptureDone, Inv, TypeOK, HandshakeInv, FrameTaken, Rows
    <3> QED
      BY <1>11, <2>2, <3>2 DEF CaptureDone, Inv, HandshakeInv, ReadInv, SentInv, Requested,
         FrameTaken
  <2> QED
    BY <1>11, <2>1, <2>2 DEF CaptureDone, Inv
<1>12. CASE UNCHANGED vars
  BY <1>12 DEF vars, Inv, TypeOK, SettingsInv, HandshakeInv, ReadInv, SentInv, Requested, FrameTaken
<1> QED
  BY <1>1, <1>2, <1>3, <1>4, <1>5, <1>6, <1>7, <1>8, <1>9, <1>10, <1>11, <1>12
     DEF Next, Turn, Fpga

\* The handshake of exposure_frame pairs each turn with its own capture, however
\* high the frame is and however often the process is ended, as long as that is
\* never between the write to register 0 and the clearing of register 4.
THEOREM FramesAlwaysFresh == Spec => []FramesFresh
<1>1. Inv => FramesFresh
  BY DEF Inv, SentInv, FramesFresh
<1> QED
  BY <1>1, InvInit, InvNext, PTL DEF Spec
===============================================================================
