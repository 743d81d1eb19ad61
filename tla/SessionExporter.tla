--------------------------- MODULE SessionExporter ---------------------------
(***************************************************************************)
(* The buffered exporter of session events (auth/src/session/exporters.ts).*)
(* `exporter` holds the number of events seen so far, the buffer, the     *)
(* batch a running flush has handed to the sink (<<>> when none runs), the *)
(* events the sink has answered for, in order, and those that clear()      *)
(* dropped.  Event number n is the n-th one the session reported.          *)
(***************************************************************************)
EXTENDS Naturals, Sequences

CONSTANT FlushSize                     \* options.flushSize

ASSUME FlushSizeAssumption == FlushSize \in Nat \ {0}

VARIABLE exporter

EmptyExporter == [seen |-> 0, buffer |-> <<>>, sinking |-> <<>>, sunk |-> <<>>, dropped |-> {}]

\* As it would be if the buffer were emptied only when the sink has answered.
MutCopies(e) == IF e.sinking # <<>> THEN e ELSE [e EXCEPT !.sinking = e.buffer]

\* flushSerial(): a flush that runs is shared; otherwise everything buffered
\* leaves the buffer at once and is handed to the sink.
FlushSerial(e) ==
    IF e.sinking # <<>> THEN e
    ELSE [e EXCEPT !.sinking = e.buffer, !.buffer = <<>>]

\* auditEvent(event)
Audited(e) ==
    LET pushed == [e EXCEPT !.seen = @ + 1, !.buffer = Append(@, e.seen + 1)]
    IN  IF Len(pushed.buffer) >= FlushSize THEN FlushSerial(pushed) ELSE pushed

\* The application flushes, on a timer or before the page goes away.
Flush ==
    /\ exporter.buffer # <<>>
    /\ exporter' = FlushSerial(exporter)

\* The sink's promise settles, either way: the batch is not sent again, and
\* what arrived meanwhile waits for the next event or flush.
SinkSettles ==
    /\ exporter.sinking # <<>>
    /\ exporter' = [exporter EXCEPT !.sunk = @ \o exporter.sinking,
                                    !.sinking = <<>>]

\* clear(): what is buffered is dropped; a batch that is with the sink is not.
Clear ==
    /\ exporter.buffer # <<>>
    /\ exporter' = [exporter EXCEPT !.buffer = <<>>,
                                    !.dropped = @ \cup {exporter.buffer[i] : i \in DOMAIN exporter.buffer}]

\* An event that was not dropped reaches the sink at most once, in the order it
\* happened, and none is between buffers: what the sink had, has and will get is
\* exactly the sequence of the events seen without those that clear() dropped,
\* which the sink never sees, whenever it is called beside a flush (exporters.ts
\* 50-88).
EventsInOrder ==
    exporter.sunk \o exporter.sinking \o exporter.buffer
        = SelectSeq([i \in 1..exporter.seen |-> i], LAMBDA i : i \notin exporter.dropped)
=============================================================================
