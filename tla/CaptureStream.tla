---------------------------- MODULE CaptureStream ----------------------------
(***************************************************************************)
(* CaptureConfig::create and main of                                       *)
(* objc2_screen_capture_kit_delegate_never_called/src/main.rs, in both     *)
(* variants.  To set the stream up, park, and stop it, is the same code in *)
(* both: with the feature "incorrect" the completion handler runs it; else *)
(* the handler publishes the display in an AtomicPtr and create runs it.   *)
(*                                                                         *)
(* ScreenCaptureKit is not in src/: that it runs the completion handlers   *)
(* and the output's method one at a time, on one queue, is what the        *)
(* comments at lines 126-127, 135 and 195-199 report of it.                *)
(***************************************************************************)
EXTENDS FrameOutput

CONSTANT Features   \* the builds considered: with "incorrect", or "fixed"

ASSUME FeaturesAssumption == Features \subseteq {"incorrect", "fixed"}

VARIABLES
  feature,    \* the build
  main,       \* where the main thread stands
  asked,      \* the handler of getShareableContent is due
  stored,     \* the handler has stored the display
  boxed,      \* what is in the box is visible to the main thread
  pointer,    \* the pointer to the box is visible to the main thread
  capture,    \* where the code that sets up, parks and stops stands
  token,      \* the token of the Parker
  stream,     \* the stream
  starting,   \* the handler of startCapture is due
  made,       \* how many sample buffers the system has made
  called      \* how many of them the output was called with

publishing == <<asked, stored, boxed, pointer>>
creating == <<main, publishing, capture, token>>
system == <<stream, starting, made, called>>
vars == <<feature, creating, system, outputVars>>

TypeOK ==
  /\ OutputTypeOK
  /\ feature \in {"incorrect", "fixed"}
  /\ main \in {"create", "busy", "capturing", "returned", "unparked",
               "exited", "aborted", "undefined"}
  /\ asked \in BOOLEAN /\ stored \in BOOLEAN
  /\ boxed \in BOOLEAN /\ pointer \in BOOLEAN
  /\ capture \in {"none", "setup", "parking", "stopping", "over"}
  /\ token \in BOOLEAN
  /\ stream \in {"none", "requested", "running", "failed", "stopped"}
  /\ starting \in BOOLEAN
  /\ made \in 0 .. MaxFrames /\ called \in 0 .. made

Init ==
  /\ OutputInit
  /\ feature \in Features
  /\ main = "create" /\ capture = "none"
  /\ asked = FALSE /\ stored = FALSE /\ boxed = FALSE /\ pointer = FALSE
  /\ token = FALSE
  /\ stream = "none" /\ starting = FALSE
  /\ made = 0 /\ called = 0

\* The process is over.
Ended == main \in {"exited", "aborted", "undefined"}

(***************************************************************************)
(* The main thread.                                                        *)
(***************************************************************************)
MainGoes(from, to) == main = from /\ main' = to

\* getShareableContentWithCompletionHandler
AskContent ==
  /\ MainGoes("create", IF feature = "incorrect" THEN "returned" ELSE "busy")
  /\ asked' = TRUE
  /\ UNCHANGED <<feature, stored, boxed, pointer, capture, token, system, outputVars>>

\* The busy loop sees a pointer: it takes the box, and what is in it, which
\* under Ordering::Relaxed may not have arrived.
LoadDisplay ==
  /\ pointer
  /\ MainGoes("busy", IF boxed THEN "capturing" ELSE "undefined")
  /\ capture' = IF boxed THEN "setup" ELSE capture
  /\ UNCHANGED <<feature, publishing, token, system, outputVars>>

UnparkParked ==   \* mutant: an unpark without a token
  /\ MainGoes("returned", "unparked")
  /\ token' = (capture = "parking")
  /\ UNCHANGED <<feature, publishing, capture, system, outputVars>>

\* main has slept, and calls unparker.unpark().
Unpark ==
  /\ MainGoes("returned", "unparked")
  /\ token' = TRUE
  /\ UNCHANGED <<feature, publishing, capture, system, outputVars>>

\* main has slept again, and returns: the process ends.
Exit ==
  /\ MainGoes("unparked", "exited")
  /\ UNCHANGED <<feature, publishing, capture, token, system, outputVars>>

(***************************************************************************)
(* The capture, run by the handler or by create.                           *)
(***************************************************************************)
CaptureGoes(from, to) == ~Ended /\ capture = from /\ capture' = to

\* The stream is made, gets its output, and is started.
SetUp ==
  /\ CaptureGoes("setup", "parking")
  /\ stream' = "requested"
  /\ UNCHANGED <<feature, main, publishing, token, starting, made, called, outputVars>>

\* addStreamOutput(..).unwrap() panics, before there is a stream: in create it
\* ends the main thread, and in the handler it may not unwind into the system.
SetUpFails ==
  /\ ~Ended /\ capture = "setup"
  /\ main' = "aborted"
  /\ UNCHANGED <<feature, publishing, capture, token, system, outputVars>>

ParkNot ==   \* mutant: the capture goes on at once
  /\ CaptureGoes("parking", "stopping")
  /\ UNCHANGED <<feature, main, publishing, token, system, outputVars>>

\* park.park(): it takes the token, or waits for it.
Park ==
  /\ CaptureGoes("parking", "stopping")
  /\ token
  /\ token' = FALSE
  /\ UNCHANGED <<feature, main, publishing, system, outputVars>>

\* stopCaptureWithCompletionHandler; create, if it is that, returns the
\* unparker to main.
Stop ==
  /\ CaptureGoes("stopping", "over")
  /\ stream' = "stopped"
  /\ main' = IF feature = "fixed" THEN "returned" ELSE main
  /\ UNCHANGED <<feature, publishing, token, starting, made, called, outputVars>>

(***************************************************************************)
(* The queue of ScreenCaptureKit.                                          *)
(***************************************************************************)
QueueIsFree ==
  /\ ~Ended /\ output = "idle"
  /\ feature = "incorrect" => capture \in {"none", "over"}

\* The handler of getShareableContent stores the display, or begins the
\* capture.
RunContent ==
  /\ QueueIsFree
  /\ asked
  /\ asked' = FALSE
  /\ IF feature = "incorrect"
       THEN capture' = "setup" /\ UNCHANGED stored
       ELSE stored' = TRUE /\ UNCHANGED capture
  /\ UNCHANGED <<feature, main, boxed, pointer, token, system, outputVars>>

\* assert!(e.is_null()), or there is no display: a panic that may not unwind
\* into the system.
ContentFails ==
  /\ QueueIsFree
  /\ asked
  /\ asked' = FALSE
  /\ main' = "aborted"
  /\ UNCHANGED <<feature, stored, boxed, pointer, capture, token, system, outputVars>>

\* What the handler wrote arrives at the main thread, in either order.
BoxArrives ==
  /\ stored /\ ~boxed /\ ~Ended
  /\ boxed' = TRUE
  /\ UNCHANGED <<feature, main, asked, stored, pointer, capture, token, system, outputVars>>

PointerArrives ==
  /\ stored /\ ~pointer /\ ~Ended
  /\ pointer' = TRUE
  /\ UNCHANGED <<feature, main, asked, stored, boxed, capture, token, system, outputVars>>

\* The stream starts, or does not; its handler is then due, and only prints.
StreamStarts ==
  /\ ~Ended /\ stream = "requested"
  /\ stream' \in {"running", "failed"}
  /\ starting' = TRUE
  /\ UNCHANGED <<feature, creating, made, called, outputVars>>

RunStarted ==
  /\ QueueIsFree
  /\ starting
  /\ starting' = FALSE
  /\ UNCHANGED <<feature, creating, stream, made, called, outputVars>>

MakeSample ==
  /\ ~Ended /\ stream = "running" /\ made < MaxFrames
  /\ made' = made + 1
  /\ UNCHANGED <<feature, creating, stream, starting, called, outputVars>>

RunOutput ==
  /\ QueueIsFree
  /\ called < made
  /\ called' = called + 1
  /\ Ignore \/ Copy(called')
  /\ UNCHANGED <<feature, creating, stream, starting, made>>

OutputGoesOn == ~Ended /\ OutputStep /\ UNCHANGED <<feature, creating, system>>

ReceiverGoesOn == ~Ended /\ ReceiverStep /\ UNCHANGED <<feature, creating, system>>

(***************************************************************************)
(* The specification.                                                      *)
(***************************************************************************)
MainStep == AskContent \/ LoadDisplay \/ Unpark

CaptureStep == SetUp \/ SetUpFails \/ Park \/ Stop

ContentStep == RunContent \/ ContentFails

StoreStep == BoxArrives \/ PointerArrives

Next ==
  \/ MainStep \/ Exit
  \/ CaptureStep
  \/ ContentStep \/ StoreStep
  \/ StreamStarts \/ RunStarted \/ MakeSample
  \/ RunOutput \/ OutputGoesOn \/ ReceiverGoesOn

Spec == Init /\ [][Next]_vars

\* Threads run, stores arrive, and the system calls what is due once its queue
\* is free; the stream need not make frames, nobody need receive them, and
\* main may sleep long enough before it returns.
Fairness ==
  /\ WF_vars(MainStep) /\ WF_vars(CaptureStep)
  /\ WF_vars(ContentStep) /\ WF_vars(StoreStep)
  /\ WF_vars(StreamStarts) /\ WF_vars(RunStarted)
  /\ WF_vars(RunOutput) /\ WF_vars(OutputGoesOn)

FairSpec == Spec /\ Fairness

(***************************************************************************)
(* The properties.                                                         *)
(***************************************************************************)
\* "nothing gets printed, i.e. neither `SCStreamDelegate` nor `SCStreamOutput`
\* gets called" (lines 126-127): with "incorrect", until main unparks.
IncorrectIsSilent ==
  feature = "incorrect" /\ main \in {"create", "returned"} =>
    called = 0 /\ (stream \in {"running", "failed"} => starting)

\* "With this implementation, messages are printed and samples are handled as
\* expected" (line 199): the busy loop ends and the stream is started, unless
\* the process is over, and every frame that the stream makes is handled, whether
\* or not anyone receives it.
FixedHandlesAll ==
  /\ feature = "fixed" ~> Ended \/ stream \in {"running", "failed", "stopped"}
  /\ \A n \in 1 .. MaxFrames :
       feature = "fixed" /\ made >= n ~> Ended \/ (called >= n /\ output = "idle")

\* With "incorrect" no unpark is lost, whether it comes before the handler
\* parks or after: the handler goes on to stop the stream (lines 183-187).
UnparkStopsCapture ==
  feature = "incorrect" /\ main = "unparked" ~> Ended \/ stream = "stopped"

\* "this `unpark` resume screen capture running to the end, so that things get
\* dropped and then screen capture ends" (lines 23-24).
CaptureEnds == stream = "running" ~> Ended \/ stream = "stopped"

\* "busy loop to get SCDisplay" (line 226): what the loop ends with is the
\* display that the handler has stored.
LoopGetsDisplay == main # "undefined"
=============================================================================
