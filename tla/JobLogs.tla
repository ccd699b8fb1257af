------------------------------- MODULE JobLogs -------------------------------
(***************************************************************************)
(* The log stream of the in-cluster install job: the CLI follows the log   *)
(* of the container with timestamps, reattaches after a dropped connection *)
(* with --since-time, and the resumeWriter skips what was already printed. *)
(*                                                                         *)
(* A line travels in four pieces: a part of its timestamp, the rest of it  *)
(* with the head of the text, the tail and the newline. A connection may   *)
(* drop between any two of them, inside the timestamp too.                 *)
(***************************************************************************)
EXTENDS Integers, Sequences

CONSTANTS
    MaxLines,       \* bound: lines the container prints
    Stamp,          \* the timestamp of each line; lines may share one
    MaxReconnects,  \* installerLogMaxReconnects
    MaxFaults       \* bound: drops, failed attaches and reads, status reads that lag

ASSUME LogAssumption ==
    /\ MaxLines \in Nat /\ MaxReconnects \in Nat \ {0} /\ MaxFaults \in Nat
    /\ Stamp \in [1..MaxLines -> Nat \ {0}]
    /\ \A i, j \in 1..MaxLines : i < j => Stamp[i] <= Stamp[j]

VARIABLES
    \* the container and the Job
    produced,   \* lines in the container's log
    open,       \* the last of them has no newline
    job,        \* what the Job's status says
    \* the connection
    sent,       \* pieces of the log sent so far, the skipped ones included
    faults,
    \* the resumeWriter
    out,        \* the printed lines
    partial, last, lastCount, skipAtTs, resuming,
    \* streamJobLogs
    pc,
    err,        \* the last `oc logs` ended with an error
    before,     \* the lines printed before it
    failures,
    missed      \* the catch-up fetch failed

jobVars    == <<produced, open, job>>
writerVars == <<out, partial, last, lastCount, skipAtTs, resuming>>
loopVars   == <<err, before, failures, missed>>
vars       == <<jobVars, sent, faults, writerVars, pc, loopVars>>

\* "inactive": no pod is active, the condition is not written yet.
JobStates == {"pending", "running", "exited", "inactive", "terminal"}
Ended     == {"done", "gaveUp", "failed"}

Init ==
    /\ produced = 0 /\ open = FALSE /\ job = "pending"
    /\ sent = 0 /\ faults = 0
    /\ out = <<>> /\ partial = <<>>
    /\ last = 0 /\ lastCount = 0 /\ skipAtTs = 0 /\ resuming = FALSE
    /\ pc = "attach"
    /\ err = FALSE /\ before = 0 /\ failures = 0 /\ missed = FALSE

-----------------------------------------------------------------------------
(* The container and its Job. *)

Outside == UNCHANGED <<sent, faults, writerVars, pc, loopVars>>

PodStarts ==
    /\ job = "pending" /\ job' = "running"
    /\ UNCHANGED <<produced, open>> /\ Outside

Produce ==
    /\ job = "running" /\ produced < MaxLines
    /\ produced' = produced + 1
    /\ UNCHANGED <<open, job>> /\ Outside

\* The container exits, perhaps in the middle of a line.
ContainerExits ==
    /\ job = "running" /\ job' = "exited"
    /\ \/ UNCHANGED <<produced, open>>
       \/ /\ produced < MaxLines
          /\ produced' = produced + 1 /\ open' = TRUE
    /\ Outside

StatusCatchesUp ==
    /\ \/ job = "exited" /\ job' \in {"inactive", "terminal"}
       \/ job = "inactive" /\ job' = "terminal"
    /\ UNCHANGED <<produced, open>> /\ Outside

-----------------------------------------------------------------------------
(* The resumeWriter. *)

Time(l) == <<l, "time">>
Front(l) == <<l, "head">>
Back(l) == <<l, "tail">>
Text(l) == <<Time(l), Front(l), Back(l)>>
Newline(l) == <<l, "newline">>

\* A line of a resumed stream was printed before the connection dropped.
Replayed(ts) == ts < last \/ (ts = last /\ skipAtTs > 0)

\* What stands before the first space is a timestamp: the two parts of it are
\* together. Two beginnings of one, or one without the space, are none.
Stamped(line) == Len(line) >= 2 /\ line[2][2] = "head"

\* A line without a timestamp is printed as it is, and not remembered.
EmitRaw(line) ==
    /\ ~Stamped(line)
    /\ out' = Append(out, line)
    /\ UNCHANGED <<last, lastCount, skipAtTs, resuming>>

EmitStamped(line, ts) ==
    /\ Stamped(line)
    /\ IF resuming /\ Replayed(ts)
       THEN /\ skipAtTs' = IF ts = last THEN skipAtTs - 1 ELSE skipAtTs
            /\ UNCHANGED <<out, last, lastCount, resuming>>
       ELSE /\ out' = Append(out, line)
            /\ last' = ts
            /\ lastCount' = IF ts = last THEN lastCount + 1 ELSE 1
            /\ resuming' = FALSE
            /\ UNCHANGED skipAtTs

Emit(line) == EmitRaw(line) \/ EmitStamped(line, Stamp[line[1][1]])

\* A piece arrives: a newline emits the line.
Write(piece) ==
    IF piece[2] = "newline"
    THEN Emit(partial) /\ partial' = <<>>
    ELSE /\ partial' = Append(partial, piece)
         /\ UNCHANGED <<out, last, lastCount, skipAtTs, resuming>>

\* A last line without a newline is printed too.
Flush ==
    IF partial = <<>> THEN UNCHANGED writerVars ELSE Emit(partial) /\ partial' = <<>>

\* Mutant: half a line is kept.
ResumeKeepsHalf ==
    /\ resuming' = (last # 0)
    /\ skipAtTs' = IF last # 0 THEN lastCount ELSE skipAtTs
    /\ UNCHANGED <<out, last, lastCount, partial>>

Resume ==
    /\ partial' = <<>>
    /\ resuming' = (last # 0)
    /\ skipAtTs' = IF last # 0 THEN lastCount ELSE skipAtTs
    /\ UNCHANGED <<out, last, lastCount>>

-----------------------------------------------------------------------------
(* `oc logs`. *)

Fault == faults < MaxFaults /\ faults' = faults + 1

\* The pieces of the log, four to a line; an open last line has no newline.
LogSize == 4 * produced - (IF open THEN 1 ELSE 0)
PieceAt(n) ==
    LET l == ((n - 1) \div 4) + 1
    IN  CASE n % 4 = 1 -> Time(l)
          [] n % 4 = 2 -> Front(l)
          [] n % 4 = 3 -> Back(l)
          [] OTHER     -> Newline(l)

\* --since-time is inclusive, and coarser than the timestamps: the stream starts
\* at the first line of that time or at an earlier one.
Starts ==
    IF last = 0 THEN {0}
    ELSE {4 * (l - 1) : l \in {l \in 1..produced : \A j \in 1..(l - 1) : Stamp[j] < last}}

\* The follow attaches; while the pod is starting it fails.
Attach ==
    /\ pc = "attach" /\ job # "pending"
    /\ sent' \in Starts
    /\ before' = Len(out)
    /\ pc' = "follow"
    /\ UNCHANGED <<jobVars, faults, writerVars, err, failures, missed>>

AttachFails ==
    /\ pc = "attach"
    /\ \/ job = "pending" /\ UNCHANGED faults
       \/ Fault
    /\ before' = Len(out)
    /\ err' = TRUE
    /\ pc' = "check"
    /\ UNCHANGED <<jobVars, sent, writerVars, failures, missed>>

Send ==
    /\ pc \in {"follow", "final"}
    /\ sent < LogSize
    /\ sent' = sent + 1
    /\ Write(PieceAt(sent + 1))
    /\ UNCHANGED <<jobVars, faults, pc, loopVars>>

\* The follow ends without an error once the container is gone.
FollowEnds ==
    /\ pc = "follow" /\ sent = LogSize
    /\ job \in {"exited", "inactive", "terminal"}
    /\ err' = FALSE
    /\ pc' = "check"
    /\ UNCHANGED <<jobVars, sent, faults, writerVars, before, failures, missed>>

FollowDrops ==
    /\ pc = "follow"
    /\ Fault
    /\ err' = TRUE
    /\ pc' = "check"
    /\ UNCHANGED <<jobVars, sent, writerVars, before, failures, missed>>

-----------------------------------------------------------------------------
(* streamJobLogs: what happens after `oc logs` has ended. *)

\* Mutant: the Job's end is looked at after a broken stream only.
CatchUpBroken ==
    /\ pc = "check" /\ job = "terminal" /\ err
    /\ Resume
    /\ sent' \in Starts
    /\ pc' = "final"
    /\ UNCHANGED <<jobVars, faults, loopVars>>

\* The Job is terminal: fetch what was printed after the stream broke.
CatchUp ==
    /\ pc = "check" /\ job = "terminal"
    /\ Resume
    /\ sent' \in Starts
    /\ pc' = "final"
    /\ UNCHANGED <<jobVars, faults, loopVars>>

\* The error of the fetch is ignored.
FinalEnds ==
    /\ pc = "final"
    /\ \/ sent = LogSize /\ UNCHANGED <<faults, missed>>
       \/ Fault /\ missed' = TRUE
    /\ Flush
    /\ pc' = "done"
    /\ UNCHANGED <<jobVars, sent, err, before, failures>>

\* The follow ended cleanly and no pod is active: the container exited.
StreamEnds ==
    /\ pc = "check" /\ job = "inactive" /\ ~err
    /\ Flush
    /\ pc' = "done"
    /\ UNCHANGED <<jobVars, sent, faults, loopVars>>

\* The status tells nothing yet; or it could not be read, or lags behind the
\* container, a bounded number of times.
Undecided ==
    /\ pc = "check"
    /\ \/ job \in {"pending", "running"} /\ UNCHANGED faults
       \/ job = "inactive" /\ err /\ UNCHANGED faults
       \/ Fault

\* Nothing printed yet: the pod is probably still starting.  The half of a line
\* that has arrived stays where it is.
RetryAttach ==
    /\ Undecided /\ out = <<>>
    /\ pc' \in {"attach", "failed"}
    /\ UNCHANGED <<jobVars, sent, writerVars, loopVars>>

\* Only attaches that fail straight away add up: a stream that printed something
\* or held for a while sets the count back.
Reconnect ==
    /\ Undecided /\ out # <<>>
    /\ \E held \in BOOLEAN :
          failures' = IF Len(out) > before \/ held THEN 0 ELSE failures + 1
    /\ IF failures' >= MaxReconnects
       THEN pc' = "gaveUp" /\ UNCHANGED writerVars
       ELSE pc' = "attach" /\ Resume
    /\ UNCHANGED <<jobVars, sent, err, before, missed>>

-----------------------------------------------------------------------------
Container == PodStarts \/ Produce \/ ContainerExits \/ StatusCatchesUp

Stream ==
    \/ Attach \/ AttachFails \/ Send \/ FollowEnds \/ FollowDrops
    \/ CatchUp \/ FinalEnds \/ StreamEnds \/ RetryAttach \/ Reconnect

Next == Container \/ Stream

Spec == Init /\ [][Next]_vars

\* The CLI runs on; the pod and the container owe nothing.
FairSpec == Spec /\ WF_vars(Stream)

-----------------------------------------------------------------------------
(* Properties. *)

TypeOK ==
    /\ produced \in 0..MaxLines /\ open \in BOOLEAN /\ job \in JobStates
    /\ sent \in 0..LogSize /\ faults \in 0..MaxFaults
    /\ out \in Seq(Seq((1..MaxLines) \X {"time", "head", "tail"}))
    /\ partial \in Seq((1..MaxLines) \X {"time", "head", "tail"})
    /\ last \in Nat /\ lastCount \in 0..MaxLines /\ skipAtTs \in 0..lastCount
    /\ resuming \in BOOLEAN
    /\ pc \in {"attach", "follow", "check", "final"} \cup Ended
    /\ err \in BOOLEAN /\ before \in 0..Len(out) /\ failures \in 0..MaxReconnects
    /\ missed \in BOOLEAN

\* The k-th printed line is line l: all of it, but for the first one, which may be
\* made of line 1 in another way, and for the end of a stream whose catch-up fetch
\* failed, which may be a part of it, or of the timestamp of one before it.
Shows(k, l) ==
    \/ out[k] = Text(l)
    \/ k = 1 /\ l = 1 /\ \A i \in 1..Len(out[k]) : out[k][i][1] = 1
    \/ /\ k = Len(out) /\ missed
       /\ out[k] = <<Time(l), Front(l)>> \/ \E j \in 1..l : out[k] = <<Time(j)>>

\* In order and without a gap, line r a second time.
InOrder(r) == \A k \in 1..Len(out) : Shows(k, IF k <= r THEN k ELSE k - 1)

\* Wherever connections drop, every line is printed, once and in order. Only when
\* the timestamp of the first line was cut, and that line printed without being
\* remembered, one line may be printed again: the last one printed when the next
\* connection dropped, and only while all lines so far had the timestamp of the first.
EachLineOnce ==
    \/ InOrder(Len(out))
    \/ \E r \in 1..Len(out) : ~Stamped(out[1]) /\ Stamp[r] = Stamp[1] /\ InOrder(r)

\* A stream that ends well has printed the whole log, what came after the last
\* dropped connection and a last line without a newline included.
CompleteAtEnd ==
    pc = "done" /\ ~missed =>
        IF out = <<>> THEN produced = 0 ELSE out[Len(out)][1][1] = produced

\* What is printed is the log.
PrintsTheLog == TypeOK /\ EachLineOnce /\ CompleteAtEnd

\* The stream ends once the Job has: it neither follows nor reconnects for ever.
FollowingEnds == job = "terminal" ~> pc \in Ended
=============================================================================
