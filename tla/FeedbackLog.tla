------------------------------ MODULE FeedbackLog ------------------------------
(* The disagreement log of internal/webhook/feedback.go: request goroutines   *)
(* hand signals to a bounded channel without blocking, one writer goroutine   *)
(* appends them to a file, and Close ends the writer and waits for it.        *)
EXTENDS Naturals, Sequences

CONSTANTS Signals,    \* one per call of Record
          Closers,    \* one per call of Close
          NoSignal,
          BufferCap   \* feedbackBuffer

ASSUME FeedbackAssumption == BufferCap \in Nat \ {0} /\ NoSignal \notin Signals

VARIABLES ch,        \* the signals in the channel
          chClosed,
          writer,    \* where the writer goroutine is
          hand,      \* the signal it is encoding
          file,      \* the rows written
          unwritten, \* signals received but not written: open or encode failed
          recorded,  \* what Record answered: "none", "true", "false", "panic"
          closer,    \* where each call of Close is
          sent       \* history: the signals Record accepted, in order

vars == <<ch, chClosed, writer, hand, file, unwritten, recorded, closer, sent>>

Init == /\ ch = << >>
        /\ chClosed = FALSE
        /\ writer = "unstarted"
        /\ hand = NoSignal
        /\ file = << >>
        /\ unwritten = {}
        /\ recorded = [s \in Signals |-> "none"]
        /\ closer = [c \in Closers |-> "out"]
        /\ sent = << >>

(* Start: the writer goroutine begins with opening the file. *)
Start == /\ writer = "unstarted"
         /\ writer' = "opening"
         /\ UNCHANGED <<ch, chClosed, hand, file, unwritten, recorded, closer, sent>>

(* Mutant of HasRoom: one too many. *)
HasRoomOneMore == Len(ch) <= BufferCap

HasRoom == Len(ch) < BufferCap

(* Record.  A send on a closed channel panics even beside a default case; the *)
(* panic ends the request it happens in and no other.                         *)
RecordTrue(s) == /\ recorded[s] = "none"
                 /\ ~ chClosed
                 /\ HasRoom
                 /\ ch' = Append(ch, s)
                 /\ sent' = Append(sent, s)
                 /\ recorded' = [recorded EXCEPT ![s] = "true"]
                 /\ UNCHANGED <<chClosed, writer, hand, file, unwritten, closer>>

RecordFalse(s) == /\ recorded[s] = "none"
                  /\ ~ chClosed
                  /\ ~ HasRoom
                  /\ recorded' = [recorded EXCEPT ![s] = "false"]
                  /\ UNCHANGED <<ch, chClosed, writer, hand, file, unwritten, closer, sent>>

RecordPanic(s) == /\ recorded[s] = "none"
                  /\ chClosed
                  /\ recorded' = [recorded EXCEPT ![s] = "panic"]
                  /\ UNCHANGED <<ch, chClosed, writer, hand, file, unwritten, closer, sent>>

Record(s) == RecordTrue(s) \/ RecordFalse(s) \/ RecordPanic(s)

(* Mutant of AfterOpen: a failed open ends the goroutine at once. *)
AfterOpenReturns == {"writing", "done"}

(* Opened, or open failed. *)
AfterOpen == {"writing", "draining"}

Open == /\ writer = "opening"
        /\ writer' \in AfterOpen
        /\ UNCHANGED <<ch, chClosed, hand, file, unwritten, recorded, closer, sent>>

(* Mutant of Taken: the received signal stays in the channel. *)
TakenNone == ch

Taken == Tail(ch)

(* The two range loops: one encodes what it receives, the other discards it.  *)
Receive == /\ writer = "writing" /\ hand = NoSignal /\ ch # << >>
           /\ hand' = Head(ch)
           /\ ch' = Taken
           /\ UNCHANGED <<chClosed, writer, file, unwritten, recorded, closer, sent>>

Discard == /\ writer = "draining" /\ ch # << >>
           /\ unwritten' = unwritten \union {Head(ch)}
           /\ ch' = Taken
           /\ UNCHANGED <<chClosed, writer, hand, file, recorded, closer, sent>>

EncodeOk == /\ writer = "writing" /\ hand # NoSignal
            /\ file' = Append(file, hand)
            /\ hand' = NoSignal
            /\ UNCHANGED <<ch, chClosed, writer, unwritten, recorded, closer, sent>>

(* A failed write may leave a part of the row in the file; what comes of that *)
(* is up to the reader of the file (Dataset).                                 *)
EncodeError == /\ writer = "writing" /\ hand # NoSignal
               /\ unwritten' = unwritten \union {hand}
               /\ hand' = NoSignal
               /\ UNCHANGED <<ch, chClosed, writer, file, recorded, closer, sent>>

(* Mutant of RangeEnds: the loop ends at the close, with signals left. *)
RangeEndsEarly == hand = NoSignal /\ chClosed

(* Mutant of RangeEnds: a bare receive in a loop does not see the close. *)
RangeEndsNever == FALSE

(* A range loop ends when the channel is closed and empty. *)
RangeEnds == hand = NoSignal /\ chClosed /\ ch = << >>

Finish == /\ writer \in {"writing", "draining"}
          /\ RangeEnds
          /\ writer' = "done"
          /\ UNCHANGED <<ch, chClosed, hand, file, unwritten, recorded, closer, sent>>

Close(c) == /\ closer[c] = "out"
            /\ chClosed' = TRUE
            /\ closer' = [closer EXCEPT ![c] = "waiting"]
            /\ UNCHANGED <<ch, writer, hand, file, unwritten, recorded, sent>>

CloseReturns(c) == /\ closer[c] = "waiting"
                   /\ writer = "done"
                   /\ closer' = [closer EXCEPT ![c] = "returned"]
                   /\ UNCHANGED <<ch, chClosed, writer, hand, file, unwritten, recorded, sent>>

Write == Open \/ Receive \/ Discard \/ EncodeOk \/ EncodeError \/ Finish

Next == \/ Start
        \/ Write
        \/ \E s \in Signals : Record(s)
        \/ \E c \in Closers : Close(c) \/ CloseReturns(c)

Spec == Init /\ [][Next]_vars

(* Start is called before the gateway serves (main.go:88), the writer is a    *)
(* goroutine the runtime schedules, and a Close that may return does.         *)
Fairness == /\ WF_vars(Start)
            /\ WF_vars(Write)
            /\ \A c \in Closers : WF_vars(CloseReturns(c))
-----------------------------------------------------------------------------
TypeOK == /\ ch \in Seq(Signals) /\ Len(ch) <= BufferCap
          /\ chClosed \in BOOLEAN
          /\ writer \in {"unstarted", "opening", "writing", "draining", "done"}
          /\ hand \in Signals \union {NoSignal}
          /\ file \in Seq(Signals)
          /\ unwritten \subseteq Signals
          /\ recorded \in [Signals -> {"none", "true", "false", "panic"}]
          /\ closer \in [Closers -> {"out", "waiting", "returned"}]
          /\ sent \in Seq(Signals)

InHand == IF hand = NoSignal THEN << >> ELSE <<hand>>

Elements(s) == {s[i] : i \in 1 .. Len(s)}

(* These rows are the accepted signals that met no file error, each once, in  *)
(* the order in which they were accepted.                                     *)
InOrder(rows) ==
  /\ Elements(rows) = Elements(sent) \ unwritten
  /\ \A i, j \in 1 .. Len(rows), k, l \in 1 .. Len(sent) :
       i < j /\ rows[i] = sent[k] /\ rows[j] = sent[l] => k < l

(* One row per accepted signal, in the order Record accepted them: the rows,  *)
(* the signal being encoded and the channel are together exactly the accepted *)
(* signals that met no file error.  None is lost, doubled or overtaken.       *)
RowsInOrder == InOrder(file \o InHand \o ch)

(* "Close stops the writer and waits for buffered signals to flush": when a   *)
(* call of Close has returned, every accepted signal that met no file error   *)
(* is a row, also when another call closed the channel.                       *)
FlushedOnClose == \A c \in Closers : closer[c] = "returned" => InOrder(file)

(* A full buffer is a passing state: whatever the file does, the writer makes *)
(* room, so a broken log never turns into refusing every later signal.        *)
BufferFrees == Len(ch) = BufferCap ~> Len(ch) < BufferCap

(* Close comes back, with any number of signals in the buffer and whether or  *)
(* not the file could be opened.                                              *)
CloseEnds == \A c \in Closers : closer[c] = "waiting" ~> closer[c] = "returned"
=============================================================================
