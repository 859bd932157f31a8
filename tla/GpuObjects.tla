----------------------------- MODULE GpuObjects -----------------------------
(***************************************************************************)
(* The Vulkan objects of a PyroWave session: VulkanContext::init and its   *)
(* destructor (src/pyrowave/vulkan/vulkan_context.cpp), initialize and     *)
(* shutdown of PyroWaveVideoBackend, PyroWaveRenderer and PyroWaveDecoder. *)
(*                                                                         *)
(* Every creation may fail; the failure unwinds what the C++ scopes own    *)
(* and setup's cleanup destroys the backend, then the context.  What a     *)
(* scope that was left had made and nobody owned yet is lost.              *)
(***************************************************************************)
EXTENDS Naturals, Sequences, FiniteSets

VARIABLES
    gstage,   \* building, ready, tearing down or gone, and how far
    made,     \* the objects that exist
    lost      \* those nobody will destroy

gpuVars == <<gstage, made, lost>>

(* Created in this order; each names what it is made from. *)
Order ==
    << [is |-> "instance",    from |-> {}],
       [is |-> "device",      from |-> {"instance"}],
       [is |-> "pyro",        from |-> {"device"}],
       [is |-> "pool",        from |-> {"device"}],
       [is |-> "fence",       from |-> {"device"}],
       [is |-> "queries",     from |-> {"device"}],
       [is |-> "decoder",     from |-> {"pyro"}],
       [is |-> "plane 1",     from |-> {"device"}],
       [is |-> "plane 2",     from |-> {"device"}],
       [is |-> "plane 3",     from |-> {"device"}],
       [is |-> "surface",     from |-> {"instance"}],
       [is |-> "swapchain",   from |-> {"device", "surface"}],
       [is |-> "acquired",    from |-> {"device"}],
       [is |-> "view",        from |-> {"swapchain"}],
       [is |-> "rendered",    from |-> {"device"}],
       [is |-> "descriptors", from |-> {"device"}],
       [is |-> "layout",      from |-> {"descriptors"}],
       [is |-> "set pool",    from |-> {"device"}],
       [is |-> "sampler",     from |-> {"device"}],
       [is |-> "plane view",  from |-> {"plane 1", "plane 2", "plane 3"}],
       [is |-> "hud buffer",  from |-> {"device"}],
       [is |-> "hud memory",  from |-> {"device"}],
       [is |-> "pass",        from |-> {"device"}],
       [is |-> "shader 1",    from |-> {"device"}],
       [is |-> "shader 2",    from |-> {"device"}],
       [is |-> "pipeline",    from |-> {"layout", "pass"}],
       [is |-> "framebuffer", from |-> {"pass", "view"}] >>

Objects == {Order[i].is : i \in DOMAIN Order}
From(o) == (CHOOSE r \in {Order[i] : i \in DOMAIN Order} : r.is = o).from

Planes == {"plane 1", "plane 2", "plane 3"}
Shaders == {"shader 1", "shader 2"}

(* What is owned by a local of the function that creates it: Output's      *)
(* images until its constructor returns, the shader modules until the      *)
(* pipeline is there.                                                      *)
Unowned(next) ==
    CASE next \in Planes -> Planes
      [] next \in Shaders \cup {"pipeline"} -> Shaders
      [] OTHER -> {}

RendererShutdown ==
    <<"framebuffer", "hud buffer", "hud memory", "pipeline", "pass", "layout", "set pool",
      "plane view", "sampler", "descriptors">>
(* BackendShutdown with the surface before the swapchain made from it. *)
SurfaceFirst ==
    RendererShutdown \o <<"decoder">> \o <<"plane 1", "plane 2", "plane 3">>
    \o <<"view", "rendered", "acquired", "surface", "swapchain">>
BackendShutdown ==
    RendererShutdown \o <<"decoder">> \o <<"plane 1", "plane 2", "plane 3">>
    \o <<"view", "rendered", "acquired", "swapchain", "surface">>
ContextDestroyed == <<"pyro", "queries", "fence", "pool", "device", "instance">>

(* shutdown does nothing before there is an Output; a decoder made before  *)
(* it goes with the backend's members.                                     *)
Destroyed(output) ==
    (IF output THEN BackendShutdown ELSE <<"decoder">>) \o ContextDestroyed

TypeOK ==
    /\ gstage \in [at : {"gone", "building", "ready", "tearing"}, next : Nat, output : BOOLEAN]
    /\ made \subseteq Objects /\ lost \subseteq made

Gone == [at |-> "gone", next |-> 0, output |-> FALSE]

Begin ==        \* what was lost before is not followed further
    /\ gstage = Gone
    /\ gstage' = [at |-> "building", next |-> 1, output |-> FALSE]
    /\ made' = {} /\ lost' = {}

(* The shader modules are destroyed once the pipeline is made. *)
Create ==
    /\ gstage.at = "building" /\ gstage.next <= Len(Order)
    /\ LET o == Order[gstage.next].is
       IN  /\ made' = (made \cup {o}) \ IF o = "pipeline" THEN Shaders ELSE {}
           /\ gstage' = [gstage EXCEPT !.next = @ + 1, !.output = @ \/ o = "plane 3"]
    /\ UNCHANGED lost

Ready ==
    /\ gstage.at = "building" /\ gstage.next > Len(Order)
    /\ gstage' = [gstage EXCEPT !.at = "ready"]
    /\ UNCHANGED <<made, lost>>

(* fail or a Vulkan error while creating the next object; a plane may have *)
(* its image by then and miss its memory.                                  *)
CreateFails ==
    /\ gstage.at = "building" /\ gstage.next <= Len(Order)
    /\ LET o == Order[gstage.next].is
       IN  \E half \in {{}, {o} \cap Planes} :
              /\ made' = made \cup half
              /\ lost' = made' \cap Unowned(o)
    /\ gstage' = [gstage EXCEPT !.at = "tearing", !.next = 1]

Cleanup ==
    /\ gstage.at = "ready"
    /\ gstage' = [gstage EXCEPT !.at = "tearing", !.next = 1]
    /\ UNCHANGED <<made, lost>>

Destroy ==
    /\ gstage.at = "tearing"
    /\ LET order == Destroyed(gstage.output)
       IN  /\ made' = made \ ({order[gstage.next]} \ lost)
           /\ gstage' = IF gstage.next = Len(order) THEN Gone
                        ELSE [gstage EXCEPT !.next = @ + 1]
    /\ UNCHANGED lost

Init == gstage = Gone /\ made = {} /\ lost = {}

Next == Begin \/ Create \/ Ready \/ CreateFails \/ Cleanup \/ Destroy

Spec == Init /\ [][Next]_gpuVars

-----------------------------------------------------------------------------
(* Properties *)

(* Nothing is destroyed before what is made from it, whichever creation    *)
(* failed; what was lost excepted.                                         *)
ChildrenFirst == \A o \in made \ lost : From(o) \subseteq made

(* A session leaves nothing behind but the planes of an Output, or the     *)
(* shader modules of a pipeline, that could not be completed.              *)
NothingLeft ==
    /\ gstage.at = "gone" => made = lost
    /\ lost \subseteq Planes \/ lost \subseteq Shaders

GpuObjectsOK == TypeOK /\ ChildrenFirst /\ NothingLeft

=============================================================================
