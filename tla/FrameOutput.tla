----------------------------- MODULE FrameOutput -----------------------------
(***************************************************************************)
(* The VideoStreamOutput of objc2_screen_capture_kit_incorrect_frame_width *)
(* (src/lib.rs): the system's queue calls it with a sample buffer; it      *)
(* takes the frame out, writes its size where others read it, and sends it *)
(* down a bounded channel.                                                 *)
(*                                                                         *)
(* A frame is known by its number, and the shared size by the number of    *)
(* the frame it is of.  Who calls the output is CaptureStream's concern;   *)
(* who receives is not in src/, and may do so at any time, or go away.     *)
(***************************************************************************)
EXTENDS Naturals, Sequences

CONSTANTS
  MaxFrames,   \* bound: how many sample buffers the system makes
  Capacity     \* of the channel

ASSUME FramesAssumption == MaxFrames \in Nat /\ Capacity \in Nat

VARIABLES
  output,      \* where the output's method stands
  frame,       \* the frame it has taken out of the sample buffer
  size,        \* the frame that the shared size is of; 0 before any
  chan,        \* frames sent and not received
  received,    \* the last frame received; 0 before any
  receiving    \* the receiver is still there

outputVars == <<output, frame, size, chan, received, receiving>>

OutputTypeOK ==
  /\ output \in {"idle", "copied", "sized"}
  /\ frame \in 0 .. MaxFrames
  /\ size \in 0 .. MaxFrames
  /\ chan \in Seq(1 .. MaxFrames) /\ Len(chan) <= Capacity
  /\ received \in 0 .. MaxFrames
  /\ receiving \in BOOLEAN

OutputInit ==
  /\ output = "idle"
  /\ frame = 0
  /\ size = 0
  /\ chan = <<>>
  /\ received = 0
  /\ receiving = TRUE

\* The early returns: a buffer that is not ready, has no image, cannot be
\* locked, or is not of the screen.
Ignore == UNCHANGED outputVars

\* The image is locked, copied and unlocked.
Copy(n) ==
  /\ output = "idle"
  /\ output' = "copied"
  /\ frame' = n
  /\ UNCHANGED <<size, chan, received, receiving>>

SetSizeIfRoom ==   \* mutant: the size of a frame that is lost is not written
  /\ output = "copied"
  /\ output' = "sized"
  /\ size' = IF Len(chan) < Capacity THEN frame ELSE size
  /\ UNCHANGED <<frame, chan, received, receiving>>

\* *size.lock() = (width, height)
SetSize ==
  /\ output = "copied"
  /\ output' = "sized"
  /\ size' = frame
  /\ UNCHANGED <<frame, chan, received, receiving>>

SendUnbounded ==   \* mutant: an unbounded channel
  /\ output = "sized"
  /\ output' = "idle"
  /\ chan' = IF receiving THEN Append(chan, frame) ELSE chan
  /\ UNCHANGED <<frame, size, received, receiving>>

SendBlocks ==   \* mutant: send in the place of try_send
  /\ output = "sized"
  /\ receiving => Len(chan) < Capacity
  /\ output' = "idle"
  /\ chan' = IF receiving THEN Append(chan, frame) ELSE chan
  /\ UNCHANGED <<frame, size, received, receiving>>

\* try_send: a full channel, or one without a receiver, loses the frame.
TrySend ==
  /\ output = "sized"
  /\ output' = "idle"
  /\ chan' = IF receiving /\ Len(chan) < Capacity THEN Append(chan, frame) ELSE chan
  /\ UNCHANGED <<frame, size, received, receiving>>

Receive ==
  /\ receiving
  /\ chan # <<>>
  /\ received' = Head(chan)
  /\ chan' = Tail(chan)
  /\ UNCHANGED <<output, frame, size, receiving>>

DropReceiver ==
  /\ receiving
  /\ receiving' = FALSE
  /\ chan' = <<>>
  /\ UNCHANGED <<output, frame, size, received>>

OutputStep == SetSize \/ TrySend
ReceiverStep == Receive \/ DropReceiver

\* Who has received a frame finds the size of that frame, or of a later one,
\* and never one that a lost frame has left behind: the size is written before
\* the frame is sent, and also for the frames that are lost (lib.rs:86-89).
SizeNotOlder ==
  /\ size >= received
  /\ \A i \in 1 .. Len(chan) : size >= chan[i]
  /\ output = "idle" => size = frame
=============================================================================
