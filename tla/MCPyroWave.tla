----------------------------- MODULE MCPyroWave -----------------------------
(* PyroWave pictures: the backend's queue and worker, the walk over a frame   *)
(* that lost packets, the GPU's objects.  The three share no state that they   *)
(* do not model as their surroundings, so a behaviour runs one of them.       *)
EXTENDS PyroWave

CONSTANTS Payload, MaxWords, Hosts          \* Framing

VARIABLES
    part,                                                               \* the one that runs
    sent, walk,                                                         \* Framing
    gstage, made, lost                                                  \* GpuObjects

frames == <<sent, walk>>
objects == <<gstage, made, lost>>
all == <<part, frames, pyroVars, objects>>

Walk == INSTANCE Framing
Gpu == INSTANCE GpuObjects

ASSUME FramesAssumption == Walk!FramingAssumption

PyroInit ==
    /\ part \in {"frames", "backend", "objects"}
    /\ Init /\ Walk!Init /\ Gpu!Init
    /\ part # "frames" => sent.host = CHOOSE h \in Hosts : TRUE

PyroNext ==
    \/ part = "frames" /\ Walk!Next /\ UNCHANGED <<part, pyroVars, objects>>
    \/ part = "backend" /\ Next /\ UNCHANGED <<part, frames, objects>>
    \/ part = "objects" /\ Gpu!Next /\ UNCHANGED <<part, frames, pyroVars>>

\* No action that is fair is enabled in the backend's initial state.
PyroSpec == PyroInit /\ [][PyroNext]_all /\ Fairness

(* Only whole records that arrived reach the decoder, and a frame's coarsest  *)
(* level is called intact only when it is: walkRecordFrame.                   *)
ParsedOK == Walk!FramingOK

(* Whichever creation fails, what is made is destroyed, children first:       *)
(* VulkanContext, PyroWaveVideoBackend and PyroWaveRenderer.                  *)
GpuObjectsOK == Gpu!GpuObjectsOK
=============================================================================
