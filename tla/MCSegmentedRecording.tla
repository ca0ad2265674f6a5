------------------------ MODULE MCSegmentedRecording ------------------------
(* Small instances of SegmentedRecording; the constants in the configurations  *)
(* are the bounds.                                                             *)
EXTENDS SegmentedRecording, TLC

\* The files of a session that is over, that no batch works on and that nobody
\* will ask a batch for are read by nothing but the properties.
Untouched(s) ==
    /\ loop[s] \in {"unused"} \cup Over
    /\ s \notin {watch.session, rm.file, halt.file}
    /\ \A b \in DOMAIN batch : batch[b].of # s

\* What was made of a disturbed session's segments decides nothing: a source
\* that was removed has an output, and one that was not is listed again.
Files(s) ==
    IF Untouched(s) THEN <<>>
    ELSE IF s \in disturbed THEN <<seg[s], enc[s]>>
    ELSE <<seg[s], enc[s], out[s]>>

\* Two batches may change places.
Encoding == [r \in {batch[b] : b \in DOMAIN batch} |->
                Cardinality({b \in DOMAIN batch : batch[b] = r})]

Observable ==
    <<fsm, rm, watch, respawn, halt, loop, Encoding, [s \in Sessions |-> Files(s)],
      UndisturbedIsProcessed>>
=============================================================================
