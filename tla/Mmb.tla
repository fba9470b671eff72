-------------------------------- MODULE Mmb --------------------------------
(***************************************************************************)
(* One media memory block (ot_mmb_t) and what each critical section of     *)
(* g_mmz_lock does to it.  Every operator takes the block's record as it   *)
(* is when the lock is taken and returns the record the section leaves.    *)
(* A block whose descriptor was unlinked and freed by                      *)
(* allocator_mmb_free is NoMmb: its range may be given out again.          *)
(***************************************************************************)
EXTENDS Integers

(***************************************************************************)
(* live     - the descriptor is on its zone's mmb_list                     *)
(* phy_ref  - references taken by ot_mmb_get and media_mem_get_mmb_by_*    *)
(* map_ref  - kernel mappings taken by ot_mmb_map2kern*                    *)
(* map2kern, cached, released - the flags OT_MMB_MAP2KERN,                 *)
(*            OT_MMB_MAP2KERN_CACHED and OT_MMB_RELEASED                   *)
(***************************************************************************)
MmbRecord == [live : BOOLEAN, phy_ref : Int, map_ref : Int,
              map2kern : BOOLEAN, cached : BOOLEAN, released : BOOLEAN]

NoMmb == [live |-> FALSE, phy_ref |-> 0, map_ref |-> 0,
          map2kern |-> FALSE, cached |-> FALSE, released |-> FALSE]

\* allocator_mmb_free: unlink and free the descriptor.
AllocatorFree(m) == NoMmb

\* mmb_real_alloc: a zeroed descriptor, linked into the zone's list.
RealAlloc == [live |-> TRUE, phy_ref |-> 0, map_ref |-> 0,
              map2kern |-> FALSE, cached |-> FALSE, released |-> FALSE]

\* ot_mmb_get, and the ++phy_ref of the media_mem_get_mmb_by_* look-ups.
Get(m) == [m EXCEPT !.phy_ref = @ + 1]

\* Mutant: the last reference frees the block though the kernel maps it.
PutIgnoringMaps(m) ==
  LET n == [m EXCEPT !.phy_ref = @ - 1]
  IN  IF n.released /\ n.phy_ref = 0 THEN AllocatorFree(n) ELSE n

\* ot_mmb_put: the last reference to a released, unmapped block frees it.
Put(m) ==
  LET n == [m EXCEPT !.phy_ref = @ - 1]
  IN  IF n.released /\ n.phy_ref = 0 /\ n.map_ref = 0
        THEN AllocatorFree(n) ELSE n

\* ot_mmb_free: at once when nothing refers to the block, else deferred.
Free(m) ==
  IF m.released THEN m
  ELSE IF m.phy_ref > 0 \/ m.map2kern THEN [m EXCEPT !.released = TRUE]
  ELSE AllocatorFree(m)

\* A request for the cache attribute the existing kernel mapping lacks.
MapConflict(m, c) == m.map2kern /\ m.cached # c

\* Mutant: a mapped block is mapped again with the attribute asked for.
Map2KernAgain(m, c, ok) ==
  IF ok THEN [m EXCEPT !.map2kern = TRUE, !.cached = c, !.map_ref = @ + 1]
  ELSE [m EXCEPT !.cached = FALSE]

\* allocator_mmb_map2kern on a success path (ok) or a failing ioremap (~ok).
Map2Kern(m, c, ok) ==
  IF MapConflict(m, c) THEN m
  ELSE IF m.map2kern THEN [m EXCEPT !.map_ref = @ + 1]
  ELSE IF ok THEN [m EXCEPT !.map2kern = TRUE, !.cached = c, !.map_ref = @ + 1]
  ELSE [m EXCEPT !.cached = FALSE]

\* Mutant: the last unmapping leaves a released block behind.
UnmapOnly(m) ==
  IF m.map2kern /\ m.map_ref # 1 THEN [m EXCEPT !.map_ref = @ - 1]
  ELSE [m EXCEPT !.map_ref = IF m.map2kern THEN 0 ELSE @,
                 !.map2kern = FALSE, !.cached = FALSE]

\* allocator_mmb_unmap: the last unmapping of a released block with no
\* reference left frees it.
Unmap(m) ==
  IF m.map2kern /\ m.map_ref # 1 THEN [m EXCEPT !.map_ref = @ - 1]
  ELSE IF m.released /\ m.phy_ref = 0 THEN AllocatorFree(m)
  ELSE [m EXCEPT !.map_ref = IF m.map2kern THEN 0 ELSE @,
                 !.map2kern = FALSE, !.cached = FALSE]
=============================================================================
