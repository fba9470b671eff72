----------------------------- MODULE MmzUserdev -----------------------------
(***************************************************************************)
(* The life of media memory blocks under several open files of             *)
(* /dev/mmz_userdev and the kernel modules that allocate and map blocks.   *)
(*                                                                         *)
(* Every action is one critical section of g_mmz_lock together with the    *)
(* statements of the same call that touch only the file's own list, which  *)
(* pmu->sem protects; another file's section may run between two of them.  *)
(* op[f] says where the call that file f is executing stands.              *)
(***************************************************************************)
EXTENDS Mmb, FiniteSets

CONSTANTS
  Files,       \* open descriptions of /dev/mmz_userdev
  Blocks,      \* block descriptors (mmb addresses) with their ranges
  OSync,       \* the files opened with O_SYNC
  NoFile,      \* no owner
  NoBlock,     \* no block
  Kernel,      \* the kernel modules that call the exported mmb functions
  MaxUserMap,  \* bound: mappings of a block counted by its node
  MaxKernMap   \* bound: kernel mappings of a block

ASSUME UserdevConstants ==
  /\ IsFiniteSet(Files)
  /\ OSync \subseteq Files
  /\ NoFile \notin Files /\ Kernel \notin Files
  /\ NoBlock \notin Blocks
  /\ MaxUserMap \in Nat /\ MaxKernMap \in Nat

VARIABLES
  mmb,     \* the descriptor of each block
  node,    \* the mmb_node that a file's list holds for the block
  opened,  \* where each file stands between open and release
  op,      \* the call each file is executing
  kown,    \* blocks a kernel module allocated and has not freed
  kmaps    \* kernel mappings the kernel modules hold on each block

vars == <<mmb, node, opened, op, kown, kmaps>>
-----------------------------------------------------------------------------
NodeRecord == [owner : Files \union {NoFile}, mapped : BOOLEAN, map_cached : BOOLEAN,
               delayed_free : BOOLEAN, map_ref : Int, mmb_ref : Int]

\* ioctl_mmb_alloc copies the caller's mmb_info, which the library fills with
\* zeroes but for names, sizes and addresses.
NewNode(f) == [owner |-> f, mapped |-> FALSE, map_cached |-> FALSE,
               delayed_free |-> FALSE, map_ref |-> 0, mmb_ref |-> 0]
NoNode == NewNode(NoFile)

(***************************************************************************)
(* Places inside a call: after ot_mmb_alloc (alloced); in the mmap handler *)
(* between its get and its put (mmapping); between vm_mmap and ot_mmb_get  *)
(* (remapped); between the put and the munmap of an unmap (unmapping);     *)
(* between the ot_mmb_put and the ot_mmb_free of mmz_usrdev_mmb_free       *)
(* (freeing); holding a looked-up block (held); in the loop of release     *)
(* (releasing between nodes, dropping inside one).                         *)
(***************************************************************************)
Places == {"idle", "alloced", "mmapping", "remapped", "unmapping", "freeing",
           "held", "releasing", "dropping"}

At(place, b) == [at |-> place, b |-> b]

\* The call of f reaches a place where it concerns no block (any more).
Goto(f, place) == op' = [op EXCEPT ![f] = At(place, NoBlock)]

Init ==
  /\ mmb = [b \in Blocks |-> NoMmb]
  /\ node = [b \in Blocks |-> NoNode]
  /\ opened = [f \in Files |-> FALSE]
  /\ op = [f \in Files |-> At("idle", NoBlock)]
  /\ kown = {}
  /\ kmaps = [b \in Blocks |-> 0]

\* The call of f may start: f is open and pmu->sem is free.
Ready(f) == opened[f] /\ op[f].at = "idle"

\* get_mmb_node finds the block in the list of f.
HasNode(f, b) == node[b].owner = f

UnchangedKernel == UNCHANGED <<kown, kmaps>>
-----------------------------------------------------------------------------
\* mmz_userdev_open
Open(f) ==
  /\ ~opened[f] /\ op[f].at = "idle"
  /\ opened' = [opened EXCEPT ![f] = TRUE]
  /\ UNCHANGED <<mmb, node, op>> /\ UnchangedKernel

\* ioctl_mmb_alloc, up to the return of ot_mmb_alloc.
Alloc(f, b) ==
  /\ Ready(f) /\ ~mmb[b].live
  /\ mmb' = [mmb EXCEPT ![b] = RealAlloc]
  /\ op' = [op EXCEPT ![f] = At("alloced", b)]
  /\ UNCHANGED <<node, opened>> /\ UnchangedKernel

\* No memory for the mmb_node: the block is freed again.
AllocNodeFails(f) ==
  LET b == op[f].b IN
  /\ op[f].at = "alloced"
  /\ mmb' = [mmb EXCEPT ![b] = Free(@)]
  /\ Goto(f, "idle")
  /\ UNCHANGED <<node, opened>> /\ UnchangedKernel

\* The node joins the file's list and takes the file's own reference.
AllocNode(f) ==
  LET b == op[f].b IN
  /\ op[f].at = "alloced"
  /\ node' = [node EXCEPT ![b] = NewNode(f)]
  /\ mmb' = [mmb EXCEPT ![b] = Get(@)]
  /\ Goto(f, "idle")
  /\ UNCHANGED opened /\ UnchangedKernel

\* mmz_usrdev_mmb_free, first section: unlink the node and put its reference.
DropNode(f, b) ==
  /\ node' = [node EXCEPT ![b] = NoNode]
  /\ mmb' = [mmb EXCEPT ![b] = Put(@)]
  /\ op' = [op EXCEPT ![f] = At("freeing", b)]

\* Mutant: the loop of mmz_userdev_release stops after its first node.
FreeBlockStops(f) ==
  LET b == op[f].b IN
  /\ op[f].at = "freeing"
  /\ mmb' = [mmb EXCEPT ![b] = Free(@)]
  /\ Goto(f, "idle")
  /\ UNCHANGED <<node, opened>> /\ UnchangedKernel

\* mmz_usrdev_mmb_free, second section: ot_mmb_free.  The release loop goes
\* on with the next node.
FreeBlock(f) ==
  LET b == op[f].b IN
  /\ op[f].at = "freeing"
  /\ mmb' = [mmb EXCEPT ![b] = Free(@)]
  /\ Goto(f, IF opened[f] THEN "idle" ELSE "releasing")
  /\ UNCHANGED <<node, opened>> /\ UnchangedKernel

\* ioctl_mmb_free of a block that is still mapped: only marked, -EBUSY.
FreeDelayed(f, b) ==
  /\ Ready(f) /\ HasNode(f, b)
  /\ ~node[b].delayed_free
  /\ node[b].map_ref > 0 \/ node[b].mmb_ref > 0
  /\ node' = [node EXCEPT ![b].delayed_free = TRUE]
  /\ UNCHANGED <<mmb, opened, op>> /\ UnchangedKernel

\* ioctl_mmb_free of an unmapped block.
FreeNow(f, b) ==
  /\ Ready(f) /\ HasNode(f, b)
  /\ ~node[b].delayed_free
  /\ ~(node[b].map_ref > 0 \/ node[b].mmb_ref > 0)
  /\ DropNode(f, b)
  /\ UNCHANGED opened /\ UnchangedKernel
-----------------------------------------------------------------------------
\* Mutant: only a second counted mapping makes the cache attribute checked.
CountsTwoMappings(b) == node[b].mapped /\ node[b].map_ref > 1

\* The node already counts a mapping of the block.
CountsMapping(b) == node[b].mapped /\ node[b].map_ref > 0

\* Mutant: the reference of the mapping is not recorded in the node.
CountMappingOnly(k) == [k EXCEPT !.mapped = TRUE, !.map_ref = @ + 1]

\* One more user mapping of the node k, with its reference.
CountOneMapping(k) == [k EXCEPT !.mapped = TRUE, !.map_ref = @ + 1, !.mmb_ref = @ + 1]

\* One fewer: the counts and the reference go before the pages.
UncountMapping(k) == [k EXCEPT !.map_ref = @ - 1, !.mmb_ref = @ - 1]

\* ioctl_mmb_user_remap of a mapped block, same cache attribute: one more
\* user of the same mapping.
RemapAgain(f, b, cached) ==
  /\ Ready(f) /\ HasNode(f, b)
  /\ CountsMapping(b) /\ cached = node[b].map_cached
  /\ node[b].map_ref < MaxUserMap
  /\ node' = [node EXCEPT ![b] = CountOneMapping(@)]
  /\ mmb' = [mmb EXCEPT ![b] = Get(@)]
  /\ UNCHANGED <<opened, op>> /\ UnchangedKernel

\* ioctl_mmb_user_remap of a block without a counted mapping: map_cached is
\* set before vm_mmap enters mmz_userdev_mmap, whose look-up takes a reference
\* (a vm_mmap that fails earlier ends as RemapMmap does when it fails).
Remap(f, b, cached) ==
  /\ Ready(f) /\ HasNode(f, b)
  /\ ~CountsMapping(b)
  /\ node[b].map_ref < MaxUserMap
  /\ node' = [node EXCEPT ![b].map_cached = cached]
  /\ mmb' = [mmb EXCEPT ![b] = Get(@)]
  /\ op' = [op EXCEPT ![f] = At("mmapping", b)]
  /\ UNCHANGED opened /\ UnchangedKernel

\* mmz_userdev_do_mmap refuses a second mapping of a block that is still
\* mapped when the attribute the file's O_SYNC asks for differs.
MmapConflict(f, b) == node[b].mapped /\ node[b].map_cached = (f \in OSync)

\* The mmap handler puts its reference, then maps the pages; vm_mmap may fail.
RemapMmap(f) ==
  LET b == op[f].b IN
  /\ op[f].at = "mmapping"
  /\ mmb' = [mmb EXCEPT ![b] = Put(@)]
  /\ \/ ~MmapConflict(f, b) /\ op' = [op EXCEPT ![f] = At("remapped", b)]
     \/ Goto(f, "idle")
  /\ UNCHANGED <<node, opened>> /\ UnchangedKernel

\* vm_mmap succeeded: record and count the mapping.
RemapCount(f) ==
  LET b == op[f].b IN
  /\ op[f].at = "remapped"
  /\ node' = [node EXCEPT ![b] = CountOneMapping(@)]
  /\ mmb' = [mmb EXCEPT ![b] = Get(@)]
  /\ Goto(f, "idle")
  /\ UNCHANGED opened /\ UnchangedKernel

\* ioctl_mmb_user_unmap: the counts and the reference go first.
Unremap(f, b) ==
  /\ Ready(f) /\ HasNode(f, b)
  /\ node[b].mapped
  /\ node[b].map_ref > 0 /\ node[b].mmb_ref > 0
  /\ node' = [node EXCEPT ![b] = UncountMapping(@)]
  /\ mmb' = [mmb EXCEPT ![b] = Put(@)]
  /\ op' = IF node[b].map_ref > 1 THEN op ELSE [op EXCEPT ![f] = At("unmapping", b)]
  /\ UNCHANGED opened /\ UnchangedKernel

\* The vma of a cached mapping does not pass ot_vma_check (the process has
\* changed or unmapped it): -EPERM, and nothing is undone.
UnmapFlushFails(f) ==
  /\ op[f].at = "unmapping"
  /\ node[op[f].b].map_cached
  /\ Goto(f, "idle")
  /\ UNCHANGED <<mmb, node, opened>> /\ UnchangedKernel

\* The pages are unmapped, or vm_munmap fails; a delayed free is then due.
UnmapPages(f) ==
  LET b == op[f].b IN
  /\ op[f].at = "unmapping"
  /\ IF node[b].delayed_free /\ node[b].map_ref = 0 /\ node[b].mmb_ref = 0
       THEN DropNode(f, b)
       ELSE /\ \/ node' = [node EXCEPT ![b].mapped = FALSE]
               \/ UNCHANGED node
            /\ Goto(f, "idle")
            /\ UNCHANGED mmb
  /\ UNCHANGED opened /\ UnchangedKernel
-----------------------------------------------------------------------------
(***************************************************************************)
(* Calls that look a block up by handle or address, whoever allocated it:  *)
(* share, unshare, share_all, unshare_all, get_sys_mem_by_*, the dirty     *)
(* area check and mmap.  The look-up takes a reference and every exit of   *)
(* the call puts it; what they do to the pid list is module MmzShare.      *)
(***************************************************************************)
LookUp(f, b) ==
  /\ Ready(f) /\ mmb[b].live
  /\ mmb' = [mmb EXCEPT ![b] = Get(@)]
  /\ op' = [op EXCEPT ![f] = At("held", b)]
  /\ UNCHANGED <<node, opened>> /\ UnchangedKernel

PutLookedUp(f) ==
  LET b == op[f].b IN
  /\ op[f].at = "held"
  /\ mmb' = [mmb EXCEPT ![b] = Put(@)]
  /\ Goto(f, "idle")
  /\ UNCHANGED <<node, opened>> /\ UnchangedKernel
-----------------------------------------------------------------------------
\* mmz_userdev_release starts; no other call of the file is in progress.
Release(f) ==
  /\ Ready(f)
  /\ opened' = [opened EXCEPT ![f] = FALSE]
  /\ Goto(f, "releasing")
  /\ UNCHANGED <<mmb, node>> /\ UnchangedKernel

\* The next node of the list.
ReleaseNode(f) ==
  /\ op[f].at = "releasing"
  /\ \E b \in Blocks : HasNode(f, b) /\ op' = [op EXCEPT ![f] = At("dropping", b)]
  /\ UNCHANGED <<mmb, node, opened>> /\ UnchangedKernel

\* Mutant: one put too many.
ReleasePutOnceMore(f) ==
  LET b == op[f].b IN
  /\ op[f].at = "dropping" /\ node[b].mmb_ref >= 0
  /\ node' = [node EXCEPT ![b].mmb_ref = @ - 1]
  /\ mmb' = [mmb EXCEPT ![b] = Put(@)]
  /\ UNCHANGED <<opened, op>> /\ UnchangedKernel

\* One put for every mapping the node still counts.
ReleasePut(f) ==
  LET b == op[f].b IN
  /\ op[f].at = "dropping" /\ node[b].mmb_ref > 0
  /\ node' = [node EXCEPT ![b].mmb_ref = @ - 1]
  /\ mmb' = [mmb EXCEPT ![b] = Put(@)]
  /\ UNCHANGED <<opened, op>> /\ UnchangedKernel

ReleaseDrop(f) ==
  /\ op[f].at = "dropping" /\ ~(node[op[f].b].mmb_ref > 0)
  /\ DropNode(f, op[f].b)
  /\ UNCHANGED opened /\ UnchangedKernel

ReleaseEnds(f) ==
  /\ op[f].at = "releasing"
  /\ \A b \in Blocks : ~HasNode(f, b)
  /\ Goto(f, "idle")
  /\ UNCHANGED <<mmb, node, opened>> /\ UnchangedKernel
-----------------------------------------------------------------------------
(***************************************************************************)
(* Kernel modules: the exported ot_mmb_alloc, ot_mmb_free, ot_mmb_map2kern *)
(* (cached or not) and ot_mmb_unmap.  A module frees a block it allocated, *)
(* once, maps a block it knows to be allocated and not yet freed, and      *)
(* unmaps what it mapped.                                                  *)
(***************************************************************************)
KernelAlloc(b) ==
  /\ ~mmb[b].live
  /\ mmb' = [mmb EXCEPT ![b] = RealAlloc]
  /\ kown' = kown \union {b}
  /\ UNCHANGED <<node, opened, op, kmaps>>

KernelFree(b) ==
  /\ b \in kown
  /\ mmb' = [mmb EXCEPT ![b] = Free(@)]
  /\ kown' = kown \ {b}
  /\ UNCHANGED <<node, opened, op, kmaps>>

KernelMap(b, cached, ok) ==
  /\ mmb[b].live /\ ~mmb[b].released
  /\ kmaps[b] < MaxKernMap
  /\ mmb' = [mmb EXCEPT ![b] = Map2Kern(@, cached, ok)]
  /\ kmaps' = [kmaps EXCEPT ![b] =
                 IF ~MapConflict(mmb[b], cached) /\ (mmb[b].map2kern \/ ok) THEN @ + 1 ELSE @]
  /\ UNCHANGED <<node, opened, op, kown>>

KernelUnmap(b) ==
  /\ kmaps[b] > 0
  /\ mmb' = [mmb EXCEPT ![b] = Unmap(@)]
  /\ kmaps' = [kmaps EXCEPT ![b] = @ - 1]
  /\ UNCHANGED <<node, opened, op, kown>>
-----------------------------------------------------------------------------
\* Steps of a call that has already started.
InCall(f) ==
  \/ AllocNodeFails(f) \/ AllocNode(f) \/ FreeBlock(f)
  \/ RemapMmap(f) \/ RemapCount(f)
  \/ UnmapFlushFails(f) \/ UnmapPages(f)
  \/ PutLookedUp(f)
  \/ ReleaseNode(f) \/ ReleasePut(f) \/ ReleaseDrop(f) \/ ReleaseEnds(f)

Starts(f) ==
  \/ Open(f) \/ Release(f)
  \/ \E b \in Blocks :
       \/ Alloc(f, b) \/ FreeDelayed(f, b) \/ FreeNow(f, b)
       \/ \E cached \in BOOLEAN : RemapAgain(f, b, cached) \/ Remap(f, b, cached)
       \/ Unremap(f, b) \/ LookUp(f, b)

KernelStep ==
  \E b \in Blocks :
    \/ KernelAlloc(b) \/ KernelFree(b) \/ KernelUnmap(b)
    \/ \E cached, ok \in BOOLEAN : KernelMap(b, cached, ok)

Next == (\E f \in Files : InCall(f) \/ Starts(f)) \/ KernelStep

Spec == Init /\ [][Next]_vars

\* A thread inside a call keeps running: it only waits for g_mmz_lock, which
\* every section releases before it returns.
Fairness == \A f \in Files : WF_vars(InCall(f))

FairSpec == Spec /\ Fairness
-----------------------------------------------------------------------------
(* Every variable has its type; no count is negative.                      *)
TypeOK ==
  /\ mmb \in [Blocks -> MmbRecord]
  /\ \A b \in Blocks : mmb[b].phy_ref \in Nat /\ mmb[b].map_ref \in Nat
  /\ node \in [Blocks -> NodeRecord]
  /\ \A b \in Blocks : node[b].map_ref \in Nat /\ node[b].mmb_ref \in Nat
  /\ opened \in [Files -> BOOLEAN]
  /\ op \in [Files -> [at : Places, b : Blocks \union {NoBlock}]]
  /\ kown \in SUBSET Blocks
  /\ kmaps \in [Blocks -> Nat]

\* The files whose current call holds a counted reference on b.
Looking(b) == {f \in Files : op[f].b = b /\ op[f].at \in {"held", "mmapping"}}

\* The files whose current call will still use the descriptor of b.
Using(b) == {f \in Files : op[f].b = b /\ op[f].at \in {"held", "alloced", "freeing"}}

NodeRefs(b) == IF node[b].owner = NoFile THEN 0 ELSE 1 + node[b].mmb_ref

(* The reference counts of a block are exactly the references its users    *)
(* took: one for the node, one per mapping the node counts, one per        *)
(* look-up in progress; map_ref counts the kernel mappings (the ++/--      *)
(* phy_ref and map_ref of media_mem.c against their callers).              *)
RefsMatchUsers ==
  \A b \in Blocks :
    /\ mmb[b].phy_ref = NodeRefs(b) + Cardinality(Looking(b))
    /\ mmb[b].map_ref = kmaps[b]
    /\ mmb[b].map2kern <=> mmb[b].map_ref > 0

\* Whoever still relies on the block: the file that has it on its list, calls
\* that will use it, kernel modules that own or map it.
Holders(b) ==
  {f \in Files : node[b].owner = f} \union Using(b)
    \union (IF b \in kown \/ kmaps[b] > 0 THEN {Kernel} ELSE {})

(* A descriptor is freed exactly when nobody relies on the block: never    *)
(* under a node, a call in progress, its kernel owner or a kernel mapping  *)
(* (use after free), and never left behind once they are all gone (leak).  *)
LiveIffHeld == \A b \in Blocks : mmb[b].live <=> Holders(b) # {}

(* While a block stays mapped in the kernel its cache attribute cannot     *)
(* change: allocator_mmb_map2kern refuses the other attribute.             *)
KernelAttributeFixed ==
  [][\A b \in Blocks : kmaps[b] > 0 /\ kmaps'[b] > 0 => mmb'[b].cached = mmb[b].cached]_vars

(* While a node counts a user mapping, the attribute it was mapped with    *)
(* stays on record and the address is not forgotten ("should not be        *)
(* remapped with confusing cache type", ioctl_mmb_user_remap).             *)
UserAttributeFixed ==
  [][\A b \in Blocks : node[b].map_ref > 0 /\ node'[b].map_ref > 0 =>
       node'[b].map_cached = node[b].map_cached /\ node'[b].mapped]_vars

(* ioctl_mmb_user_unmap rejects a mapped node that counts no mapping as an *)
(* "invalid refer": between two calls a file's list holds no such node.    *)
NoInvalidRefer ==
  \A b \in Blocks, f \in Files :
    HasNode(f, b) /\ Ready(f) /\ node[b].mapped => node[b].map_ref > 0 /\ node[b].mmb_ref > 0

\* The release of f is over and its list is empty.
Dropped(f) == op[f].at = "idle" /\ ~opened[f] /\ \A b \in Blocks : ~HasNode(f, b)

(* A release that has started ends with every node of the file dropped,    *)
(* whatever the other files and the kernel modules do (the list loop of    *)
(* mmz_userdev_release).                                                   *)
ReleaseTerminates == \A f \in Files : op[f].at = "releasing" ~> Dropped(f)
-----------------------------------------------------------------------------
\* The allocated blocks are the live descriptors; their holders are the
\* nodes, calls and kernel modules that rely on them.
Promise == INSTANCE MmbPromise WITH
             Holder <- Files \union {Kernel},
             live <- {b \in Blocks : mmb[b].live},
             holders <- [b \in Blocks |-> Holders(b)]

(* Blocks are allocated, shared and given back as MmbPromise says: every   *)
(* critical section of ot_mmb_alloc, get, put, free, map2kern and unmap    *)
(* takes, joins, leaves or stutters, and the last to leave frees.          *)
ImplementsPromise == Promise!Spec
=============================================================================
