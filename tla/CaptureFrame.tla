---------------------------- MODULE CaptureFrame ----------------------------
(***************************************************************************)
(* The operator's capture of one frame (aurora_core/hardware/              *)
(* {capture_frame,capture_frame_probe,capture_frame_streaming_probe}.py):  *)
(* a probe opens the device and reads one frame; where the device cannot   *)
(* be read a second probe maps a buffer and streams into it.  Any step may *)
(* fail, be interrupted or come after the deadline, and the clean-up wipes *)
(* the frame, gives everything back and says whether it could.  The        *)
(* service then judges the result it is given.                             *)
(*                                                                         *)
(* The flags of a result are the set of the events that happened.  The     *)
(* reasons of failed acquisitions, which nothing tells apart, are one.     *)
(***************************************************************************)
EXTENDS Naturals

CONSTANTS ReadIoctls,    \* _MAX_IOCTLS of the read/write probe
          StreamIoctls,  \* _MAX_IOCTLS of the streaming probe
          MaxPolls       \* _MAX_POLLS, _MAX_READS

ASSUME CaptureAssumption == {ReadIoctls, StreamIoctls, MaxPolls} \subseteq Nat \ {0}

VARIABLES
    probe,    \* the probe at work: "readwrite", then perhaps "mmap"
    step,     \* where it is
    budget,   \* ioctls_remaining
    tries,    \* polls or reads of this step that were interrupted
    overdue,  \* the deadline has passed
    events,   \* the flags of its result
    bytes,    \* frame_byte_count
    why,      \* reason
    device,   \* external: what the kernel has for this process
    verdict   \* the report: its state and reason

attempt == <<budget, tries, overdue>>
captureVars == <<probe, step, attempt, events, bytes, why, device, verdict>>

(* A frame is in the buffer from the moment the device may have written.   *)
NoDevice == [open |-> 0, buffers |-> FALSE, mapping |-> FALSE, queued |-> FALSE,
             streaming |-> FALSE, frame |-> FALSE]

Has(event) == event \in events

CaptureInit ==
    /\ probe = "readwrite" /\ step = "open" /\ budget = ReadIoctls /\ tries = 0
    /\ overdue = FALSE /\ events = {} /\ bytes = "none" /\ why = "open"
    /\ device = NoDevice /\ verdict = <<"none", "open">>

-----------------------------------------------------------------------------
(* The kernel.  A mapping keeps the device open, as a descriptor does; the *)
(* driver stops and frees its buffers when the last of them is gone.       *)

Left(d) ==
    IF d.open = 0 /\ ~d.mapping
    THEN [d EXCEPT !.buffers = FALSE, !.queued = FALSE, !.streaming = FALSE] ELSE d

DeviceWrites ==
    /\ device.streaming /\ device.queued /\ device.mapping /\ ~device.frame
    /\ device' = [device EXCEPT !.frame = TRUE]
    /\ UNCHANGED <<probe, step, attempt, events, bytes, why, verdict>>

Deadline ==
    /\ ~overdue /\ step \notin {"judge", "reported"} /\ overdue' = TRUE
    /\ UNCHANGED <<probe, step, budget, tries, events, bytes, why, device, verdict>>

-----------------------------------------------------------------------------
(* One attempt at a step                                                   *)

To(next) == step' = next /\ tries' = 0 /\ UNCHANGED <<probe, overdue, verdict>>
Again == UNCHANGED <<probe, step, overdue, verdict>>
Sets(flags) == events' = events \union flags
Fails(reason) == To("stop") /\ why' = reason

(* An ioctl: late, out of budget, interrupted, refused, or done.           *)
Ioctl(AtOnce, Done) ==
    \/ /\ overdue \/ budget = 0
       /\ Fails("failed") /\ UNCHANGED <<budget, events, bytes, device>>
    \/ /\ ~overdue /\ budget > 0 /\ budget' = budget - 1
       /\ \/ /\ events' = events \union AtOnce /\ UNCHANGED <<bytes, device>>
             /\ \/ budget' > 0 /\ Again /\ UNCHANGED <<tries, why>>
                \/ Fails("failed")
          \/ Done

Open ==
    /\ step = "open"
    /\ \/ To("judge") /\ why' = "failed" /\ UNCHANGED <<events, device>>
       \/ To("inspect") /\ UNCHANGED why /\ Sets({"opened"})
          /\ device' = [device EXCEPT !.open = @ + 1]
    /\ UNCHANGED <<budget, bytes>>

Inspect ==
    /\ step = "inspect" /\ (Fails("failed") \/ (To("capability") /\ UNCHANGED why))
    /\ UNCHANGED <<budget, events, bytes, device>>

Capability ==
    /\ step = "capability"
    /\ Ioctl({}, /\ Sets({"capability"}) /\ UNCHANGED <<bytes, device>>
                 /\ \/ To("format") /\ UNCHANGED why
                    \/ Fails("failed")
                    \/ probe = "readwrite" /\ Fails("readwrite_io_not_supported"))

Format ==
    /\ step = "format"
    /\ Ioctl({}, /\ UNCHANGED <<bytes, device>>
                 /\ \/ Sets({"format"}) /\ Fails("failed")
                    \/ /\ Sets({"format", "sized"}) /\ UNCHANGED why
                       /\ To(IF probe = "mmap" THEN "negotiate" ELSE "allocate"))

-----------------------------------------------------------------------------
(* Reading                                                                 *)

Allocate ==
    /\ step = "allocate"
    /\ \/ Fails("failed") /\ UNCHANGED events
       \/ Sets({"allocated"}) /\ (Fails("failed") \/ (To("poll") /\ UNCHANGED why))
    /\ UNCHANGED <<budget, bytes, device>>

(* Interrupted, it is tried once more.  A failed read has read nothing.    *)
Bounded(event, Done) ==
    \/ overdue /\ Fails("failed") /\ UNCHANGED <<events, bytes, device>>
    \/ /\ ~overdue /\ Sets({event})
       /\ \/ tries + 1 < MaxPolls /\ tries' = tries + 1 /\ Again
             /\ UNCHANGED <<bytes, why, device>>
          \/ Fails("failed") /\ UNCHANGED <<bytes, device>>
          \/ Done

Poll ==
    /\ step = "poll" /\ UNCHANGED budget
    /\ \/ tries = 0 /\ Fails("failed") /\ UNCHANGED <<events, bytes, device>>
       \/ Bounded("polled", /\ To(IF probe = "mmap" THEN "dequeue" ELSE "read")
                            /\ UNCHANGED <<bytes, why, device>>)

Read ==
    /\ step = "read" /\ UNCHANGED budget
    /\ \/ Bounded("read", Fails("failed") /\ bytes' = "zero" /\ UNCHANGED device)
       \/ /\ ~overdue /\ Sets({"read", "received"}) /\ bytes' = "fits"
          /\ device' = [device EXCEPT !.frame = TRUE] /\ Fails("validated")

-----------------------------------------------------------------------------
(* Streaming into one mapped buffer                                        *)

(* The driver may give no buffer at all, or too many.                      *)
Negotiate ==
    /\ step = "negotiate"
    /\ Ioctl({}, /\ UNCHANGED bytes
                 /\ \/ Fails("failed") /\ UNCHANGED <<events, device>>
                    \/ /\ Sets({"negotiated"}) /\ device' = [device EXCEPT !.buffers = TRUE]
                       /\ (Fails("failed") \/ (To("query") /\ UNCHANGED why)))

Query ==
    /\ step = "query"
    /\ Ioctl({}, UNCHANGED <<events, bytes, device>>
                 /\ (Fails("failed") \/ (To("map") /\ UNCHANGED why)))

Map ==
    /\ step = "map" /\ UNCHANGED <<budget, bytes>>
    /\ \/ Fails("failed") /\ UNCHANGED <<events, device>>
       \/ /\ Sets({"mapped"}) /\ device' = [device EXCEPT !.mapping = TRUE]
          /\ To("queue") /\ UNCHANGED why

Queue ==
    /\ step = "queue"
    /\ Ioctl({}, Sets({"queued"}) /\ device' = [device EXCEPT !.queued = TRUE]
                 /\ To("start") /\ UNCHANGED <<bytes, why>>)

Start ==
    /\ step = "start"
    /\ Ioctl({}, Sets({"started"}) /\ device' = [device EXCEPT !.streaming = TRUE]
                 /\ To("poll") /\ UNCHANGED <<bytes, why>>)

(* A frame is taken from the driver; its size may be of any kind.          *)
Dequeue ==
    /\ step = "dequeue"
    /\ Ioctl({"dequeued"},
             /\ device' = [device EXCEPT !.queued = FALSE, !.frame = TRUE]
             /\ \/ /\ bytes' = "fits" /\ Sets({"dequeued", "received"}) /\ Fails("validated")
                \/ /\ bytes' \in {"none", "zero", "over_mapping", "over_size"}
                   /\ Sets({"dequeued"}) /\ Fails("failed"))

-----------------------------------------------------------------------------
(* The clean-up, whatever happened.  STREAMOFF and the release of the      *)
(* buffers are tried again if interrupted, once.  A close that raises may  *)
(* have closed or not.                                                     *)

Buffered == Has("mapped") \/ Has("allocated")
Onward(next) == To(next) /\ UNCHANGED <<budget, bytes, why>>

CloseFrom(d) ==
    \/ d.open > 0 /\ Sets({"closed"}) /\ device' = Left([d EXCEPT !.open = @ - 1])
    \/ UNCHANGED events
       /\ device' \in {d} \union (IF d.open > 0 THEN {Left([d EXCEPT !.open = @ - 1])} ELSE {})

(* Bug: whether the stream was stopped is not looked at.                   *)
StopUnchecked ==
    /\ step = "stop" /\ Onward("wipe")
    /\ IF ~Has("started") THEN UNCHANGED <<events, device>>
       ELSE Sets({"stopped"}) /\ \E goes_on \in BOOLEAN :
                                    device' = [device EXCEPT !.streaming = goes_on]

(* Where the stream could not be stopped the descriptor is closed early.   *)
Stop ==
    /\ step = "stop" /\ Onward("wipe")
    /\ IF ~Has("started") THEN UNCHANGED <<events, device>>
       ELSE \/ Sets({"stopped"}) /\ device' = [device EXCEPT !.streaming = FALSE]
            \/ CloseFrom(device)

SafeToWipe == Has("started") => Has("stopped") \/ Has("closed")
Wipe ==
    /\ step = "wipe" /\ Onward("unmap")
    /\ \/ /\ Buffered /\ SafeToWipe
          /\ Sets({"wiped"}) /\ device' = [device EXCEPT !.frame = FALSE]
       \/ UNCHANGED <<events, device>>

(* What was read goes with the buffer of the process.                      *)
Unmap ==
    /\ step = "unmap" /\ Onward("release")
    /\ \/ /\ Has("mapped") /\ Sets({"unmapped"})
          /\ device' = Left([device EXCEPT !.mapping = FALSE])
       \/ UNCHANGED <<events, device>>

(* Buffers that are mapped live on with the mapping.                       *)
Release ==
    /\ step = "release" /\ Onward("close")
    /\ \/ /\ Has("negotiated") /\ ~Has("closed") /\ device.open > 0
          /\ Sets({"released"}) /\ device' = [device EXCEPT !.buffers = device.mapping]
       \/ UNCHANGED <<events, device>>

CloseDevice ==
    /\ step = "close" /\ Onward("judge")
    /\ IF Has("closed") THEN UNCHANGED <<events, device>> ELSE CloseFrom(device)

-----------------------------------------------------------------------------
(* The result                                                              *)

Cleaned ==
    /\ Has("closed") /\ (Has("started") => Has("stopped"))
    /\ (Has("mapped") => Has("unmapped")) /\ (Has("negotiated") => Has("released"))
    /\ (Buffered => Has("wiped"))

(* Bug: a received frame hides what went wrong with its buffer.            *)
ReceivedFirst ==
    IF Has("received") /\ ~Has("closed")            THEN "frame_received_cleanup_unconfirmed"
    ELSE IF Buffered /\ ~Has("wiped")               THEN "frame_buffer_wipe_failed"
    ELSE IF Has("started") /\ ~Has("stopped")       THEN "stream_stop_failed"
    ELSE IF Has("mapped") /\ ~Has("unmapped")       THEN "buffer_unmap_failed"
    ELSE IF Has("negotiated") /\ ~Has("released")   THEN "buffer_release_failed"
    ELSE IF Has("opened") /\ ~Has("closed")         THEN "descriptor_close_failed"
    ELSE why

(* Failures of the clean-up come before whatever the acquisition came to.  *)
ResultCode ==
    IF Buffered /\ ~Has("wiped")                    THEN "frame_buffer_wipe_failed"
    ELSE IF Has("started") /\ ~Has("stopped")       THEN "stream_stop_failed"
    ELSE IF Has("mapped") /\ ~Has("unmapped")       THEN "buffer_unmap_failed"
    ELSE IF Has("negotiated") /\ ~Has("released")   THEN "buffer_release_failed"
    ELSE IF Has("opened") /\ ~Has("closed")
    THEN IF Has("received") THEN "frame_received_cleanup_unconfirmed"
                            ELSE "descriptor_close_failed"
    ELSE why

(* Bug: the reason of the acquisition decides, not the one of the result.  *)
FallBackEarly ==
    /\ step = "judge" /\ probe = "readwrite" /\ why = "readwrite_io_not_supported"
    /\ probe' = "mmap" /\ step' = "open" /\ budget' = StreamIoctls /\ tries' = 0
    /\ overdue' = FALSE /\ events' = {} /\ bytes' = "none" /\ why' = "open"
    /\ UNCHANGED <<device, verdict>>

(* The second probe begins where the first found it cannot read at all.    *)
CannotRead == probe = "readwrite" /\ ResultCode = "readwrite_io_not_supported"
FallBack ==
    /\ step = "judge" /\ CannotRead
    /\ probe' = "mmap" /\ step' = "open" /\ budget' = StreamIoctls /\ tries' = 0
    /\ overdue' = FALSE /\ events' = {} /\ bytes' = "none" /\ why' = "open"
    /\ UNCHANGED <<device, verdict>>

-----------------------------------------------------------------------------
(* The service's verdict                                                   *)

Method ==
    IF Has("allocated") THEN "readwrite" ELSE IF Has("negotiated") THEN "mmap" ELSE "none"
Streaming == {"negotiated", "mapped", "queued", "started", "dequeued",
              "stopped", "unmapped", "released"}

Got == Has("received") /\ Has("sized") /\ bytes = "fits" /\ Has("wiped") /\ Has("polled")
Path ==
    \/ Method = "readwrite" /\ Has("read") /\ events \intersect Streaming = {}
    \/ Method = "mmap" /\ ~Has("read") /\ Streaming \subseteq events
Healthy  == ResultCode = "validated" /\ Got /\ Has("closed") /\ Cleaned /\ Path
Degraded == ResultCode = "frame_received_cleanup_unconfirmed" /\ Got /\ ~Has("closed") /\ Path

(* What must have happened before an event, by the method that was used.   *)
Before ==
    [format |-> {"capability"}, sized |-> {"format"}, allocated |-> {"sized"},
     negotiated |-> {"sized"}, read |-> {"polled"}, mapped |-> {"negotiated"},
     queued |-> {"mapped"}, started |-> {"queued"}, dequeued |-> {"started", "polled"},
     stopped |-> {"started"}, unmapped |-> {"mapped"}, released |-> {"negotiated"}]
Ordered ==
    /\ \A event \in events \intersect DOMAIN Before : Before[event] \subseteq events
    /\ Has("wiped") => Buffered
    /\ Has("polled") => Has("allocated") \/ Has("started")
    /\ (Has("received") \/ bytes # "none") => Has("read") \/ Has("dequeued")

CleanUpReasons == {"stream_stop_failed", "buffer_unmap_failed", "buffer_release_failed"}

(* _consistent_result, of a device that was opened.                        *)
ConsistentResult ==
    /\ Ordered /\ (Has("received") => bytes = "fits")
    /\ bytes \in {"fits", "over_mapping"} => Has("received")
    /\ IF ResultCode = "validated" THEN Healthy
       ELSE IF ResultCode = "frame_received_cleanup_unconfirmed" THEN Degraded
       ELSE IF Has("received") /\ ResultCode \in CleanUpReasons THEN ~Cleaned
       ELSE IF Has("received") /\ Has("wiped") THEN FALSE
       ELSE IF ~Has("wiped") /\ Buffered THEN ResultCode = "frame_buffer_wipe_failed"
       ELSE IF ResultCode = "frame_buffer_wipe_failed" THEN FALSE
       ELSE IF ~Has("closed") THEN ResultCode = "descriptor_close_failed"
       ELSE ResultCode # "descriptor_close_failed"
            /\ (Cleaned \/ ResultCode \in CleanUpReasons)

Judge ==
    /\ step = "judge" /\ ~CannotRead /\ step' = "reported"
    /\ verdict' = IF Has("opened") /\ ~ConsistentResult THEN <<"unhealthy", "unexpected">>
                  ELSE IF Healthy  THEN <<"healthy", ResultCode>>
                  ELSE IF Degraded THEN <<"degraded", ResultCode>>
                  ELSE <<"unhealthy", ResultCode>>
    /\ UNCHANGED <<probe, attempt, events, bytes, why, device>>

CaptureNext ==
    \/ Open \/ Inspect \/ Capability \/ Format \/ Allocate \/ Poll \/ Read
    \/ Negotiate \/ Query \/ Map \/ Queue \/ Start \/ Dequeue
    \/ Stop \/ Wipe \/ Unmap \/ Release \/ CloseDevice \/ FallBack \/ Judge
    \/ Deadline \/ DeviceWrites

-----------------------------------------------------------------------------
(* Properties                                                              *)

(* Whoever is told that the clean-up is complete has nothing left: not the *)
(* device, nor a mapping or a buffer, nor a byte of the frame.  If only    *)
(* the close is in doubt, only the device may be left.                     *)
CleanMeansClean ==
    step = "reported" =>
        /\ Cleaned => device = NoDevice
        /\ verdict[1] = "degraded" => device \in {NoDevice, [NoDevice EXCEPT !.open = 1]}

(* The second probe never opens a device that the first may still have.    *)
OneDescriptor == device.open <= 1

(* A frame that was received is never judged by the wrong reason: the      *)
(* order of the probe's reasons agrees with the service's rules.           *)
FrameAccounted == step = "judge" /\ Has("received") => ConsistentResult

CaptureSpec == CaptureInit /\ [][CaptureNext]_captureVars
=============================================================================
