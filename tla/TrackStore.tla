----------------------------- MODULE TrackStore ------------------------------
(* What the backing store promises about tracks, without keys, rows, formats or
   threads: it knows some tracks, and has a waveform for some of those. *)

CONSTANT Location

VARIABLES known,    \* tracks with a row in table file
          stored    \* tracks with a row in table wave

Init == known \in SUBSET Location /\ stored \in SUBSET known

(* A track becomes known before its waveform is written. *)
Learn(l) == known' = known \cup {l} /\ UNCHANGED stored
Write(l) == l \in known /\ stored' = stored \cup {l} /\ UNCHANGED known

(* Tracks are forgotten together with their waveforms. *)
Forget(S) == known' = known \ S /\ stored' = stored \ S

Next == \/ \E l \in Location : Learn(l) \/ Write(l)
        \/ \E S \in SUBSET Location : Forget(S)

Spec == Init /\ [][Next]_<<known, stored>>
=============================================================================
