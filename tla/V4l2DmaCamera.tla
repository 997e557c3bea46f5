----------------------------- MODULE V4l2DmaCamera -----------------------------
(***************************************************************************)
(* The camera application: in each turn of its loop it programs the FPGA   *)
(* through the mapped user BAR, has it take a frame, waits for the done    *)
(* flag, reads the frame through the SG DMA device and sends it to the     *)
(* video device.                                                           *)
(*                                                                         *)
(* The process may be ended at any point and be started again; the FPGA's  *)
(* registers, its capture and its frame memory stay.  The FPGA is known    *)
(* from how the application uses it: a write of 1 to register 0 begins a   *)
(* capture with the settings of that moment, which fills the frame memory  *)
(* row by row and then sets register 4.                                    *)
(***************************************************************************)
EXTENDS Integers, Sequences

CONSTANTS
  XdmaRows,     \* XDMA_FRAME_HEIGHT: rows of the FPGA's frame
  RealRows,     \* real_height: rows of the frame that is sent
  Zero, Beyond, \* contents of a row: cleared, and past the end of the buffer
  MaxTurns,     \* bound: captures requested
  MaxEnds,      \* bound: times the process is ended
  MaxErrors,    \* bound: reads that fail
  BarFits       \* whether the BAR has MAP_SIZE bytes: the cases to check

ASSUME CameraAssumption ==
  /\ XdmaRows \in Nat \ {0} /\ RealRows \in Nat \ {0}
  /\ MaxTurns \in Nat /\ MaxEnds \in Nat /\ MaxErrors \in Nat
  /\ BarFits \subseteq BOOLEAN

Settings == {"pattern", "exposure", "iso"}  \* registers 0x10, 0x20, 0x30

VARIABLES
  bar_fits,    \* never changes
  pc,          \* where the process is, "down" when there is none
  settings,    \* registers that hold what main() asks for
  capture,     \* the capture in progress and the rows it has filled, or none
  frame,       \* frame memory: the capture each row is from
  done,        \* register 4
  requests,    \* writes to register 0 so far
  taken_with,  \* history: the settings at each request
  fpga_frame_buf, rows_read,  \* the buffer of read() and how far it got
  sent,        \* history: the frame last sent
  failed,      \* history: this turn's read() failed
  dirty,       \* history: the process was once ended while the FPGA owed it an answer
  ends, errors \* counters of the faults

fpga  == <<settings, capture, frame, done, requests, taken_with>>
reading == <<fpga_frame_buf, rows_read, failed>>
faults == <<dirty, ends, errors>>
vars == <<bar_fits, pc, fpga, reading, sent, faults>>

NoCapture == [turn |-> 0, rows |-> 0]
NoFrame == [turn |-> 0, rows |-> <<>>, failed |-> FALSE]

Init ==
  /\ bar_fits \in BarFits
  /\ pc = "down" /\ settings = {} /\ capture = NoCapture
  /\ frame = [r \in 1 .. XdmaRows |-> Zero] /\ done = FALSE
  /\ requests = 0 /\ taken_with = <<>>
  /\ fpga_frame_buf = [r \in 1 .. XdmaRows |-> Zero] /\ rows_read = 0
  /\ sent = NoFrame /\ failed = FALSE /\ dirty = FALSE /\ ends = 0 /\ errors = 0
-------------------------------------------------------------------------------
(* main and exposure_frame *)

Goto(from, to) == pc = from /\ pc' = to

\* main() is started and comes through open_vpipe.
Start ==
  /\ requests < MaxTurns
  /\ Goto("down", "map")
  /\ UNCHANGED <<bar_fits, fpga, reading, sent, faults>>

\* open and mmap of the user BAR; bridge_mmap refuses more than the BAR has,
\* and FATAL ends the process.
MapBar ==
  /\ Goto("map", IF bar_fits THEN "pattern" ELSE "down")
  /\ UNCHANGED <<bar_fits, fpga, reading, sent, faults>>

After == [pattern |-> "exposure", exposure |-> "iso", iso |-> "start"]
WriteSetting ==
  /\ pc \in Settings
  /\ settings' = settings \cup {pc}
  /\ pc' = After[pc]
  /\ UNCHANGED <<bar_fits, capture, frame, done, requests, taken_with, reading, sent, faults>>

\* Mutant: the FPGA is not told.
StartNothing ==
  /\ Goto("start", "poll")
  /\ UNCHANGED <<bar_fits, fpga, reading, sent, faults>>

\* 1 is written to register 0.  The FPGA begins a capture, unless it is busy
\* with one that was requested before: then it may also go on with that one.
StartCapture ==
  /\ Goto("start", "poll")
  /\ requests' = requests + 1
  /\ taken_with' = Append(taken_with, settings)
  /\ \/ capture' = [turn |-> requests + 1, rows |-> 0]
     \/ capture # NoCapture /\ UNCHANGED capture
  /\ UNCHANGED <<bar_fits, settings, frame, done, reading, sent, faults>>

\* do { usleep(100); read register 4 } while (it is 0), with no timeout.
PollDone ==
  /\ done
  /\ Goto("poll", "clear")
  /\ UNCHANGED <<bar_fits, fpga, reading, sent, faults>>

\* Mutant: the flag is left as it is.
LeaveDone ==
  /\ Goto("clear", "dma")
  /\ UNCHANGED <<bar_fits, fpga, reading, sent, faults>>

ClearDone ==
  /\ Goto("clear", "dma")
  /\ done' = FALSE
  /\ UNCHANGED <<bar_fits, settings, capture, frame, requests, taken_with, reading, sent, faults>>
-------------------------------------------------------------------------------
(* get_dma_data and send_frame *)

\* open, memset, lseek; then read() moves the rows one after the other.
BeginRead ==
  /\ Goto("dma", "read")
  /\ fpga_frame_buf' = [r \in 1 .. XdmaRows |-> Zero]
  /\ rows_read' = 0 /\ failed' = FALSE
  /\ UNCHANGED <<bar_fits, fpga, sent, faults>>

ReadRow ==
  /\ pc = "read" /\ rows_read < XdmaRows
  /\ rows_read' = rows_read + 1
  /\ fpga_frame_buf' = [fpga_frame_buf EXCEPT ![rows_read + 1] = frame[rows_read + 1]]
  /\ UNCHANGED <<bar_fits, pc, fpga, failed, sent, faults>>

ReadReturns ==
  /\ rows_read = XdmaRows
  /\ Goto("read", "send")
  /\ UNCHANGED <<bar_fits, fpga, reading, sent, faults>>

\* The result of read() is not looked at, but for a short read's message.
ReadFails ==
  /\ errors < MaxErrors
  /\ Goto("read", "send")
  /\ errors' = errors + 1
  /\ failed' = TRUE
  /\ UNCHANGED <<bar_fits, fpga, fpga_frame_buf, rows_read, sent, dirty, ends>>

\* The copy into real_video.  Its test for rows the FPGA's frame does not have
\* multiplies the row by the frame's height and is never true of this geometry.
real_video == [r \in 1 .. RealRows |-> IF r <= XdmaRows THEN fpga_frame_buf[r] ELSE Beyond]

Send ==
  /\ Goto("send", "sleep")
  /\ sent' = [turn |-> requests, rows |-> real_video, failed |-> failed]
  /\ UNCHANGED <<bar_fits, fpga, reading, faults>>

NextTurn ==
  /\ requests < MaxTurns
  /\ Goto("sleep", "map")
  /\ UNCHANGED <<bar_fits, fpga, reading, sent, faults>>

\* SIGINT: sig_handler exits, wherever the process is.
Ended ==
  /\ ends < MaxEnds
  /\ pc # "down"
  /\ pc' = "down"
  /\ ends' = ends + 1
  /\ dirty' = (dirty \/ pc \in {"poll", "clear"})
  /\ UNCHANGED <<bar_fits, fpga, reading, sent, errors>>
-------------------------------------------------------------------------------
(* The FPGA *)

CaptureRow ==
  /\ capture # NoCapture /\ capture.rows < XdmaRows
  /\ capture' = [capture EXCEPT !.rows = @ + 1]
  /\ frame' = [frame EXCEPT ![capture.rows + 1] = capture.turn]
  /\ UNCHANGED <<bar_fits, pc, settings, done, requests, taken_with, reading, sent, faults>>

CaptureDone ==
  /\ capture.rows = XdmaRows
  /\ capture' = NoCapture
  /\ done' = TRUE
  /\ UNCHANGED <<bar_fits, pc, settings, frame, requests, taken_with, reading, sent, faults>>
-------------------------------------------------------------------------------
Turn ==
  \/ MapBar \/ WriteSetting \/ StartCapture \/ PollDone \/ ClearDone
  \/ BeginRead \/ ReadRow \/ ReadReturns \/ Send
Fpga == CaptureRow \/ CaptureDone
Next == Start \/ Turn \/ ReadFails \/ NextTurn \/ Ended \/ Fpga

\* The process is scheduled and a capture comes to its end.
Spec == Init /\ [][Next]_vars /\ WF_vars(Turn) /\ WF_vars(Fpga)
-------------------------------------------------------------------------------
(* Properties *)

\* The start, the wait for the done flag and its clearing (exposure_frame) pair
\* each turn with its own capture: as long as the process was never ended in
\* the middle of that handshake, the frame a turn sends was captured for this
\* turn, with all of its settings, and is whole, up to rows that a failed read()
\* left black.  Ends at other points, even in read(), leave no trace.
FramesFresh ==
  ~dirty /\ sent # NoFrame =>
    /\ taken_with[sent.turn] = Settings
    /\ \A r \in 1 .. RealRows : r <= XdmaRows =>
         sent.rows[r] \in {sent.turn} \cup IF sent.failed THEN {Zero} ELSE {}

\* A turn that has begun sends its frame, whatever became of the turns before
\* it and of the processes that took them, unless its process is ended.
FramesKeepComing == pc = "map" ~> pc \in {"sleep", "down"}
===============================================================================
