------------------------------- MODULE Audio -------------------------------
(***************************************************************************)
(* The audio path: the workload of guests/android_stub/android_main.c and  *)
(* the hypercalls of guest/hypercall/hvc_drivers.c that record its state   *)
(* for the line a context switch prints.                                   *)
(*                                                                         *)
(* Played frames are counted in slices (4410 frames) and dropped frames in *)
(* underruns (128 frames).  The guest counts in 64 bits, the hypervisor    *)
(* keeps 32: here the report is cut to a modulus.  A step ends where the   *)
(* guest makes a hypercall or a WFI, as a context switch, with its line,   *)
(* may come between any two of them.                                       *)
(***************************************************************************)
EXTENDS Naturals

CONSTANTS SlicesPerTrack,   \* SLICES_PER_TRACK
          ReportEvery,      \* REPORT_EVERY
          Modulus,          \* the reports' fields are u32
          MaxTracks         \* bound: the workload plays for ever

VARIABLES player,           \* [track, slice, at, played, dropped] of android_main
          g_audio           \* hyp_audio_state_t

audiovars == <<player, g_audio>>

ASSUME AudioAssumption ==
    /\ {SlicesPerTrack, ReportEvery, Modulus, MaxTracks} \subseteq Nat \ {0}
    /\ SlicesPerTrack % ReportEvery = 0

AudioInit ==
    /\ player = [track |-> 0, slice |-> 0, at |-> "gap", played |-> 0, dropped |-> 0]
    /\ g_audio = [frames_played |-> 0, frames_dropped |-> 0, latency_ms |-> 0,
                  playing |-> FALSE, valid |-> FALSE]
---------------------------------------------------------------------------
hvc_audio_status(played, dropped, latency) ==
    [frames_played |-> played % Modulus, frames_dropped |-> dropped % Modulus,
     latency_ms |-> latency, playing |-> TRUE, valid |-> TRUE]

hvc_audio_play == [g_audio EXCEPT !.playing = TRUE, !.valid = TRUE]

hvc_audio_stop == [g_audio EXCEPT !.playing = FALSE]

\* The line printed when the core leaves Android, "none" when there is none.
\* The test before it, that some driver reported, is implied by valid.
sched_on_driver_ctx ==
    IF ~g_audio.valid THEN "none" ELSE IF g_audio.playing THEN "playing" ELSE "stopped"
---------------------------------------------------------------------------
\* Every seventh slice is a load spike that drops frames.
Underrun(slice) == slice % 7 = 0

Latency(slice) == IF Underrun(slice) THEN 18 ELSE IF slice % 3 = 0 THEN 10 ELSE 12

\* Mutant: one report is made too late.
Reported_late(slice) == slice % (ReportEvery + 1) = 0

Reported(slice) == slice % ReportEvery = 0

Play ==
    /\ player.at = "gap"
    /\ player.track < MaxTracks
    /\ g_audio' = hvc_audio_play
    /\ player' = [player EXCEPT !.at = "render", !.slice = 1]

\* One buffer is rendered; the guest then reports it or goes to its WFI.
Render ==
    /\ player.at = "render"
    /\ player' = [player EXCEPT
          !.played = @ + 1,
          !.dropped = IF Underrun(player.slice) THEN @ + 1 ELSE @,
          !.at = IF Reported(player.slice) THEN "report" ELSE "wfi"]
    /\ UNCHANGED g_audio

Report ==
    /\ player.at = "report"
    /\ g_audio' = hvc_audio_status(player.played, player.dropped, Latency(player.slice))
    /\ player' = [player EXCEPT !.at = "wfi"]

\* Back from the WFI: the next slice, or the end of the track.
AudioWfi ==
    /\ player.at = "wfi"
    /\ player' = IF player.slice < SlicesPerTrack
                 THEN [player EXCEPT !.slice = @ + 1, !.at = "render"]
                 ELSE [player EXCEPT !.at = "stop"]
    /\ UNCHANGED g_audio

Stop ==
    /\ player.at = "stop"
    /\ g_audio' = hvc_audio_stop
    /\ player' = [player EXCEPT !.at = "gap", !.slice = 0, !.track = @ + 1]

AudioDone ==
    /\ player.at = "gap" /\ player.track = MaxTracks
    /\ UNCHANGED audiovars

AudioNext == Play \/ Render \/ Report \/ AudioWfi \/ Stop \/ AudioDone

AudioSpec == AudioInit /\ [][AudioNext]_audiovars
---------------------------------------------------------------------------
\* The counters hvc_audio_status stores fit their 32-bit fields, however long
\* the guest plays.
AudioTypeOK ==
    /\ player.at \in {"gap", "render", "report", "wfi", "stop"}
    /\ player.track \in 0..MaxTracks
    /\ player.slice \in 0..SlicesPerTrack
    /\ {player.played, player.dropped} \subseteq Nat
    /\ {g_audio.frames_played, g_audio.frames_dropped} \subseteq 0..(Modulus - 1)
    /\ g_audio.latency_ms \in {0, 10, 12, 18}
    /\ {g_audio.playing, g_audio.valid} \subseteq BOOLEAN

\* By how much a report is behind, modulo the width of the fields.
Behind(sent, kept) == (sent + Modulus - kept) % Modulus

\* At whatever point android_main is preempted, the line of the context switch is
\* truthful: it says "playing" exactly between a PLAY and the STOP of its track
\* (sched_on_driver_ctx), and its counters are never more than the reporting
\* interval behind the guest, also across tracks and when the 32-bit fields wrap;
\* between tracks they are exact (the cadence of HVC_AUDIO_STATUS).
ReportKeepsUp ==
    /\ sched_on_driver_ctx =
           IF player.at # "gap" THEN "playing" ELSE IF player.track = 0 THEN "none" ELSE "stopped"
    /\ Behind(player.played % Modulus, g_audio.frames_played) <=
           IF player.at = "gap" THEN 0 ELSE IF player.at = "report" THEN ReportEvery ELSE ReportEvery - 1
    /\ player.at = "gap" => g_audio.frames_dropped = player.dropped % Modulus
===========================================================================
