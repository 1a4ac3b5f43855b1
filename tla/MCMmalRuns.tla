----------------------------- MODULE MCMmalRuns -----------------------------
(* Two instances of Mmal: requests of any size in arenas that can be       *)
(* filled, and requests of at least two headers in an arena with room to   *)
(* spare.  which says whose steps a behaviour has, the other stays as it   *)
(* is initialised.                                                         *)
EXTENDS Mmal

VARIABLES
  which,
  arenas2, first_arena2, hdr2, live2, calls2, pc2, call2, h2, at2, second2, status2

roomy == INSTANCE Mmal WITH
  PAGE <- 120, SIZE_MAX <- 255, TOP <- 128, Bases <- {1}, Sizes <- {6, 7, 14},
  MaxLive <- 4, MaxCalls <- 6, MaxArenas <- 1,
  arenas <- arenas2, first_arena <- first_arena2, hdr <- hdr2, live <- live2, calls <- calls2,
  pc <- pc2, call <- call2, h <- h2, at <- at2, second <- second2, status <- status2

edgeVars == << arenas, first_arena, hdr, live, calls, pc, call, h, at, second, status >>
roomyVars == << arenas2, first_arena2, hdr2, live2, calls2, pc2, call2, h2, at2, second2, status2 >>
all == << which, edgeVars, roomyVars >>

RunsInit == which \in {"edge", "roomy"} /\ Init /\ roomy!Init

Roomy(step) == which = "roomy" /\ UNCHANGED << which, edgeVars >> /\ step
Edge(step) == which = "edge" /\ UNCHANGED << which, roomyVars >> /\ step

(* A call that was begun goes on, where there is room.                     *)
MmalSpec ==
  RunsInit /\ [][Edge(Next) \/ Roomy(roomy!Next)]_all /\ WF_all(Roomy(roomy!Step))

-----------------------------------------------------------------------------
RoomySound == roomy!Sound
RoomyFreeJoins == roomy!FreeJoins
RoomyReturns == roomy!Returns
=============================================================================
