------------------------- MODULE CaptureStreamProofs -------------------------
(***************************************************************************)
(* For any number of frames and any capacity of the channel: what the      *)
(* receiver finds, what the variant "incorrect" keeps from being called,   *)
(* that it loses no unpark, and that create, without that feature, does    *)
(* not return.                                                             *)
(***************************************************************************)
EXTENDS CaptureStream, TLAPS

(* Frames are taken in order, and the size keeps up with them.               *)
FrameInv ==
  /\ frame <= called
  /\ size <= frame
  /\ output # "copied" => size = frame
  /\ output # "idle" => frame > 0
  /\ received <= size
  /\ \A i \in 1 .. Len(chan) : chan[i] <= size

(* With "incorrect", before main unparks: the capture is not past park, and  *)
(* as long as it has not begun there is no stream.                           *)
SilentInv ==
  feature = "incorrect" /\ main \in {"create", "returned"} =>
    /\ ~token
    /\ capture \in {"none", "setup", "parking"}
    /\ capture \in {"none", "setup"} => stream = "none"
    /\ stream = "none" => made = 0
    /\ stream \in {"running", "failed"} => starting
    /\ stream \in {"none", "requested", "running", "failed"}
    /\ called = 0

(* Without it, the token is never there for create to take.                  *)
StuckInv ==
  feature = "fixed" =>
    /\ ~token
    /\ main \in {"create", "busy", "capturing", "aborted", "undefined"}
    /\ capture \in {"none", "setup", "parking"}
    /\ stream # "stopped"

(* With "incorrect", from the first line of main to the last: the handler is *)
(* due once it is asked for, the queue calls no output before it is over,    *)
(* and the token of the unpark stays until park takes it.                    *)
UnparkInv ==
  feature = "incorrect" =>
    /\ main \in {"create", "returned", "unparked", "exited", "aborted"}
    /\ main \in {"returned", "unparked"} /\ capture = "none" => asked
    /\ main = "create" => capture = "none" /\ ~asked
    /\ capture # "none" => ~asked
    /\ main = "unparked" /\ capture \in {"none", "setup", "parking"} => token
    /\ capture \in {"none", "setup"} => stream = "none"
    /\ stream = "none" => made = 0
    /\ capture = "over" => stream = "stopped"
    /\ capture # "over" => output = "idle"

IInv == TypeOK /\ FrameInv /\ SilentInv /\ StuckInv /\ UnparkInv

(* The invariant holds at the start.                                         *)
LEMMA InitEstablishes == Init => IInv
<1> SUFFICES ASSUME Init PROVE IInv
  OBVIOUS
<1>1. OutputTypeOK
  <2>1. /\ output \in {"idle", "copied", "sized"} /\ receiving \in BOOLEAN
        /\ chan \in Seq(1 .. MaxFrames)
    BY DEF Init, OutputInit
  <2>2. Len(chan) = 0
    BY DEF Init, OutputInit
  <2>3. frame \in 0 .. MaxFrames /\ size \in 0 .. MaxFrames /\ received \in 0 .. MaxFrames
    BY FramesAssumption DEF Init, OutputInit
  <2> QED
    BY <2>1, <2>2, <2>3, FramesAssumption DEF OutputTypeOK
<1>2. TypeOK
  <2>1. asked \in BOOLEAN /\ stored \in BOOLEAN /\ boxed \in BOOLEAN /\ pointer \in BOOLEAN
    BY DEF Init
  <2>2. token \in BOOLEAN /\ starting \in BOOLEAN
    BY DEF Init
  <2>3. made \in 0 .. MaxFrames /\ called \in 0 .. made
    BY FramesAssumption DEF Init
  <2>4. feature \in {"incorrect", "fixed"}
    BY FeaturesAssumption DEF Init
  <2>5. /\ main = "create" /\ capture = "none" /\ stream = "none"
    BY DEF Init
  <2> QED
    BY <1>1, <2>1, <2>2, <2>3, <2>4, <2>5 DEF TypeOK
<1>3. FrameInv
  BY DEF Init, OutputInit, FrameInv
<1>4. SilentInv /\ StuckInv /\ UnparkInv
  BY FeaturesAssumption DEF Init, OutputInit, SilentInv, StuckInv, UnparkInv
<1> QED
  BY <1>2, <1>3, <1>4 DEF IInv

(* The output's variables: frames are taken, sent and received in order.     *)
LEMMA OutputStepKeeps ==
  ASSUME TypeOK, FrameInv, [Next]_vars
  PROVE  OutputTypeOK' /\ FrameInv'
<1> USE FramesAssumption DEF TypeOK, OutputTypeOK, FrameInv
<1>1. CASE RunOutput
  <2>1. called' = called + 1 /\ called' \in 1 .. MaxFrames /\ output = "idle"
    BY <1>1 DEF RunOutput, QueueIsFree
  <2>2. CASE Ignore
    BY <2>1, <2>2 DEF Ignore, outputVars
  <2>3. CASE Copy(called')
    BY <2>1, <2>3 DEF Copy
  <2> QED
    BY <1>1, <2>2, <2>3 DEF RunOutput
<1>2. CASE OutputGoesOn
  <2>1. called' = called
    BY <1>2 DEF OutputGoesOn, system
  <2>2. CASE SetSize
    BY <2>1, <2>2 DEF SetSize
  <2>3. CASE TrySend
    <3>1. frame \in 1 .. MaxFrames /\ size = frame
      BY <2>3 DEF TrySend
    <3>2. CASE receiving /\ Len(chan) < Capacity
      <4>1. chan' = Append(chan, frame)
        BY <2>3, <3>2 DEF TrySend
      <4>2. chan' \in Seq(1 .. MaxFrames) /\ Len(chan') = Len(chan) + 1
        BY <3>1, <4>1
      <4>3. \A i \in 1 .. Len(chan') : chan'[i] <= size
        BY <3>1, <4>1
      <4> QED
        BY <2>1, <2>3, <3>1, <3>2, <4>2, <4>3 DEF TrySend
    <3>3. CASE ~(receiving /\ Len(chan) < Capacity)
      BY <2>1, <2>3, <3>1, <3>3 DEF TrySend
    <3> QED
      BY <3>2, <3>3
  <2> QED
    BY <1>2, <2>2, <2>3 DEF OutputGoesOn, OutputStep
<1>3. CASE ReceiverGoesOn
  <2>1. called' = called
    BY <1>3 DEF ReceiverGoesOn, system
  <2>2. CASE Receive
    <3>1. UNCHANGED <<output, frame, size, receiving>>
      BY <2>2 DEF Receive
    <3>2. /\ chan' \in Seq(1 .. MaxFrames) /\ Len(chan') = Len(chan) - 1
          /\ \A i \in 1 .. Len(chan') : chan'[i] = chan[i + 1]
      BY <2>2 DEF Receive
    <3>3. received' = chan[1] /\ 1 \in 1 .. Len(chan) /\ chan[1] \in 1 .. MaxFrames
      BY <2>2 DEF Receive
    <3>4. ASSUME NEW i \in 1 .. Len(chan') PROVE chan'[i] <= size
      <4>1. i + 1 \in 1 .. Len(chan)
        BY <3>2
      <4> QED
        BY <3>2, <4>1
    <3> QED
      BY <2>1, <3>1, <3>2, <3>3, <3>4
  <2>3. CASE DropReceiver
    <3>1. UNCHANGED <<output, frame, size, received>> /\ receiving' = FALSE
      BY <2>3 DEF DropReceiver
    <3>2. chan' \in Seq(1 .. MaxFrames) /\ Len(chan') = 0
      BY <2>3 DEF DropReceiver
    <3>3. receiving' \in BOOLEAN
      BY <3>1
    <3>4. Len(chan') <= Capacity /\ \A i \in 1 .. Len(chan') : chan'[i] <= size
      BY <3>2
    <3> QED
      BY <2>1, <3>1, <3>2, <3>3, <3>4
  <2> QED
    BY <1>3, <2>2, <2>3 DEF ReceiverGoesOn, ReceiverStep
<1>4. CASE UNCHANGED <<called, outputVars>>
  BY <1>4 DEF outputVars
<1>5. ASSUME MainStep \/ Exit \/ CaptureStep \/ ContentStep \/ StoreStep
             \/ StreamStarts \/ RunStarted \/ MakeSample
      PROVE  UNCHANGED <<called, outputVars>>
  BY <1>5 DEF MainStep, AskContent, LoadDisplay, Unpark, Exit, CaptureStep, SetUp,
     SetUpFails, Park, Stop, ContentStep, RunContent, ContentFails, StoreStep, BoxArrives, PointerArrives,
     StreamStarts, RunStarted, MakeSample, system
<1> QED
  BY <1>1, <1>2, <1>3, <1>4, <1>5 DEF Next, vars, system

(* The variables of CaptureStream itself.                                    *)
LEMMA CaptureStepKeeps ==
  ASSUME TypeOK, SilentInv, StuckInv, [Next]_vars
  PROVE  SilentInv' /\ StuckInv'
<1> USE DEF TypeOK, SilentInv, StuckInv, Ended, publishing, system
<1>1. CASE MainStep \/ Exit
  BY <1>1 DEF MainStep, MainGoes, AskContent, LoadDisplay, Unpark, Exit
<1>2. CASE CaptureStep
  BY <1>2 DEF CaptureStep, CaptureGoes, SetUp, SetUpFails, Park, Stop
<1>3. CASE ContentStep
  BY <1>3 DEF ContentStep, RunContent, ContentFails, QueueIsFree
<1>4. CASE StoreStep \/ StreamStarts
  BY <1>4 DEF StoreStep, BoxArrives, PointerArrives, StreamStarts, creating
<1>5. CASE RunStarted \/ MakeSample
  BY <1>5 DEF RunStarted, MakeSample, creating, QueueIsFree
<1>6. CASE RunOutput
  BY <1>6 DEF RunOutput, creating, QueueIsFree
<1>7. CASE OutputGoesOn \/ ReceiverGoesOn \/ UNCHANGED vars
  BY <1>7 DEF OutputGoesOn, ReceiverGoesOn, vars, creating
<1> QED
  BY <1>1, <1>2, <1>3, <1>4, <1>5, <1>6, <1>7 DEF Next

(* With "incorrect": the unpark on its way to park.                          *)
LEMMA UnparkStepKeeps ==
  ASSUME TypeOK, UnparkInv, [Next]_vars
  PROVE  UnparkInv'
<1> USE DEF TypeOK, UnparkInv, Ended, publishing, system, outputVars
<1>1. CASE MainStep \/ Exit
  BY <1>1 DEF MainStep, MainGoes, AskContent, LoadDisplay, Unpark, Exit
<1>2. CASE CaptureStep
  BY <1>2 DEF CaptureStep, CaptureGoes, SetUp, SetUpFails, Park, Stop
<1>3. CASE ContentStep
  <2>1. CASE RunContent
    <3>1. CASE feature = "incorrect"
      <4>1. main \in {"returned", "unparked", "exited", "aborted"} /\ capture \in {"none", "over"}
        BY <2>1, <3>1 DEF RunContent, QueueIsFree
      <4> QED
        BY <2>1, <3>1, <4>1 DEF RunContent, QueueIsFree
    <3>2. CASE feature # "incorrect"
      BY <2>1, <3>2 DEF RunContent
    <3> QED
      BY <3>1, <3>2
  <2>2. CASE ContentFails
    BY <2>2 DEF ContentFails
  <2> QED
    BY <1>3, <2>1, <2>2 DEF ContentStep
<1>4. CASE StoreStep \/ StreamStarts
  BY <1>4 DEF StoreStep, BoxArrives, PointerArrives, StreamStarts, creating
<1>5. CASE RunStarted \/ MakeSample
  BY <1>5 DEF RunStarted, MakeSample, creating
<1>6. CASE RunOutput
  BY <1>6 DEF RunOutput, creating, QueueIsFree
<1>7. CASE OutputGoesOn
  BY <1>7 DEF OutputGoesOn, OutputStep, SetSize, TrySend, creating
<1>8. CASE ReceiverGoesOn
  BY <1>8 DEF ReceiverGoesOn, ReceiverStep, Receive, DropReceiver, creating
<1>9. CASE UNCHANGED vars
  BY <1>9 DEF vars, creating
<1> QED
  BY <1>1, <1>2, <1>3, <1>4, <1>5, <1>6, <1>7, <1>8, <1>9 DEF Next

(* The types of CaptureStream's own variables.                               *)
LEMMA CaptureTypeStep ==
  ASSUME TypeOK, OutputTypeOK', [Next]_vars
  PROVE  TypeOK'
<1> USE DEF TypeOK, publishing, system, creating
<1>1. CASE MainStep \/ Exit
  <2>1. CASE AskContent
    BY <2>1 DEF MainGoes, AskContent
  <2>2. CASE LoadDisplay
    BY <2>2 DEF MainGoes, LoadDisplay
  <2>3. CASE Unpark
    BY <2>3 DEF MainGoes, Unpark
  <2>4. CASE Exit
    BY <2>4 DEF MainGoes, Exit
  <2> QED
    BY <1>1, <2>1, <2>2, <2>3, <2>4 DEF MainStep
<1>2. CASE CaptureStep
  BY <1>2 DEF CaptureStep, CaptureGoes, SetUp, SetUpFails, Park, Stop
<1>3. CASE ContentStep
  BY <1>3 DEF ContentStep, RunContent, ContentFails
<1>4. CASE StoreStep \/ StreamStarts
  BY <1>4 DEF StoreStep, BoxArrives, PointerArrives, StreamStarts
<1>5. CASE RunStarted
  <2>1. starting' \in BOOLEAN
    BY <1>5 DEF RunStarted
  <2>2. UNCHANGED <<feature, main, asked, stored, boxed, pointer, capture, token, stream, made, called>>
    BY <1>5 DEF RunStarted
  <2> QED
    BY <2>1, <2>2
<1>6. CASE MakeSample
  BY <1>6, FramesAssumption DEF MakeSample
<1>7. CASE RunOutput
  BY <1>7, FramesAssumption DEF RunOutput
<1>8. CASE OutputGoesOn \/ ReceiverGoesOn \/ UNCHANGED vars
  BY <1>8 DEF OutputGoesOn, ReceiverGoesOn, vars
<1> QED
  BY <1>1, <1>2, <1>3, <1>4, <1>5, <1>6, <1>7, <1>8 DEF Next

(* The invariant is inductive.                                               *)
LEMMA StepKeeps == IInv /\ [Next]_vars => IInv'
  BY OutputStepKeeps, CaptureStepKeeps, UnparkStepKeeps, CaptureTypeStep DEF IInv

(* The variables keep their types: the channel never holds more than its     *)
(* capacity, and the output is not called for a frame that was not made.     *)
THEOREM TypeCorrect == Spec => []TypeOK
<1>1. IInv => TypeOK
  BY DEF IInv
<1> QED
  BY <1>1, InitEstablishes, StepKeeps, PTL DEF Spec

(* The size is never older than a frame that can be, or was, received        *)
(* (lib.rs:86-89 of the frame output).                                       *)
THEOREM SizeKeepsUp == Spec => []SizeNotOlder
<1>1. IInv => SizeNotOlder
  BY DEF IInv, FrameInv, TypeOK, OutputTypeOK, SizeNotOlder
<1> QED
  BY <1>1, InitEstablishes, StepKeeps, PTL DEF Spec

(* With "incorrect" nothing is called before main unparks (main.rs:126-127). *)
THEOREM SilentUntilUnparked == Spec => []IncorrectIsSilent
<1>1. IInv => IncorrectIsSilent
  BY DEF IInv, SilentInv, IncorrectIsSilent
<1> QED
  BY <1>1, InitEstablishes, StepKeeps, PTL DEF Spec

(* Without "incorrect" create never returns to main, and the stream is never *)
(* stopped: park waits for an unparker that nobody has yet (main.rs:269-273).*)
THEOREM CreateNeverReturns ==
  Spec => [](feature = "fixed" => main \notin {"returned", "unparked", "exited"} /\ stream # "stopped")
<1>1. IInv => (feature = "fixed" => main \notin {"returned", "unparked", "exited"} /\ stream # "stopped")
  BY DEF IInv, StuckInv
<1> QED
  BY <1>1, InitEstablishes, StepKeeps, PTL DEF Spec

\* What the code that sets up, parks and stops waits for is there; so it is for
\* the handler that begins it.
CaptureCanStep == ~Ended /\ (capture \in {"setup", "stopping"} \/ (capture = "parking" /\ token))
ContentCanStep == QueueIsFree /\ asked

\* The unpark is never lost: however early it comes, the handler is on its way
\* to stop the stream, with a free queue to run it and a token to pass park with
\* (main.rs:23-24, 135-187).
UnparkIsKept ==
  feature = "incorrect" /\ main = "unparked" =>
    stream = "stopped" \/ CaptureCanStep \/ ContentCanStep

(* With "incorrect" the unpark is not lost: what stands between it and the   *)
(* end of the stream can always go on (main.rs:23-24, 135-187).        *)
THEOREM UnparkReachesPark == Spec => []UnparkIsKept
<1>1. IInv => UnparkIsKept
  BY DEF IInv, TypeOK, UnparkInv, UnparkIsKept, CaptureCanStep, ContentCanStep, QueueIsFree, Ended
<1> QED
  BY <1>1, InitEstablishes, StepKeeps, PTL DEF Spec
=============================================================================
