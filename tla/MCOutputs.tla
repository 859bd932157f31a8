----------------------------- MODULE MCOutputs ------------------------------
(* What reaches the player: the presenter of the pictures, the sound, and on  *)
(* a variable output the cadence, the grid of scanouts, the timeline and the  *)
(* reserve that time them.  They meet only through values that their modules  *)
(* have as choices, so a behaviour runs one of them.                          *)
EXTENDS Presenter, AudioRing, PlayoutReserve

CONSTANTS
    Hosts, Paces, Window, Confirmation,                                 \* Cadence
    Periods, Cadences, Arrivals, Jitters, Grace, MostFailures, Reserve,
    Punctual, Tardy,                                                    \* Grid
    Jitter, Spikes, Shifts                                              \* Timeline

VARIABLES
    part,                                                               \* the one that runs
    host, at, period, moving, fast, win, slow, steadyFor, slowed,       \* Cadence
    pc, grid, next, picture, isPicture, gap, failures, retry, due, behind,      \* Grid
    network, delay, anchored, phase, late, run, kept, shown, ahead, moved, pictures \* Timeline

\* How much after its target a submission happens, by the PC of the grid.
SubmittedAfter == [steady |-> Punctual, any |-> Tardy]

Cadence == INSTANCE VrrCadence WITH phase <- at
Grid == INSTANCE VrrGrid WITH period <- grid, held <- behind, Delays <- SubmittedAfter
Timeline == INSTANCE VrrTimeline WITH Delays <- Shifts, held <- kept

ASSUME RatesAssumption == Cadence!CadenceAssumption
ASSUME GridsAssumption == Grid!GridAssumption
ASSUME DelaysAssumption == Timeline!TimelineAssumption

cadence == <<host, at, period, moving, fast, win, slow, steadyFor, slowed>>
repeats == <<pc, grid, next, picture, isPicture, gap, failures, retry, due, behind>>
timeline == <<network, delay, anchored, phase, late, run, kept, shown, ahead, moved, pictures>>
all == <<part, agcVars, cadence, repeats, timeline, reserveVars, soundVars>>

\* The components that do not run have one initial state.
OutputsInit ==
    /\ part \in {"sound", "cadence", "grid", "timeline", "playout", "presenter"}
    /\ Init /\ Cadence!Init /\ Grid!Init /\ Timeline!Init /\ ReserveInit /\ SoundInit
    /\ part # "cadence" => host = "steady"
    /\ part # "grid" => pc = "steady" /\ grid = 16666 /\ due = 16666
    /\ part # "timeline" => network = "steady" /\ delay = 0
    /\ part # "presenter" => ~output.free /\ ~output.refused

OutputsNext ==
    /\ IF part = "sound" THEN SoundNext ELSE UNCHANGED soundVars
    /\ IF part = "cadence" THEN Cadence!Next ELSE UNCHANGED cadence
    /\ IF part = "grid" THEN Grid!Next ELSE UNCHANGED repeats
    /\ IF part = "timeline" THEN Timeline!Next ELSE UNCHANGED timeline
    /\ IF part = "playout" THEN ReserveNext ELSE UNCHANGED reserveVars
    /\ IF part = "presenter" THEN Next ELSE UNCHANGED agcVars
    /\ UNCHANGED part

OutputsSpec == OutputsInit /\ [][OutputsNext]_all

(* The cadence is what the PC sends, never faster than it, and a modest       *)
(* slowdown is confirmed: observe_picture of frame_pacing.hpp.  Pictures are  *)
(* shown at the PC's pace, and a lasting delay is followed:                   *)
(* ps5_vrr_timeline.hpp.                                                      *)
PaceOK ==
    /\ part = "cadence" => Cadence!CadenceOK
    /\ part = "timeline" => Timeline!TimelineOK

(* Repeats keep the display above its lowest rate and never take a due        *)
(* picture's slot: Ps5VrrRepeats of frame_pacing.hpp.                         *)
GridOK == part = "grid" => Grid!GridOK
=============================================================================
