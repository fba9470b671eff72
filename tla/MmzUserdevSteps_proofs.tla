----------------------- MODULE MmzUserdevSteps_proofs -----------------------
(***************************************************************************)
(* What a single step of a file or of a kernel module may do to a block:   *)
(* it keeps the cache attribute of every mapping that stays, and it takes, *)
(* joins or leaves the block as MmbPromise allows.  The argument is the    *)
(* same for all: a step of a file concerns one block, changes its          *)
(* descriptor by one section of g_mmz_lock and its node by one of a few    *)
(* changes (FileStep); the rest follows from the invariant.                *)
(***************************************************************************)
EXTENDS MmzUserdev_proofs

\* A node that counts a user mapping has its address on record.
Counted(k) == k.map_ref > 0 => k.mapped

(* The cache attribute of a counted mapping stays, its address too.        *)
KeepsAttribute(k, n) ==
  k.map_ref > 0 /\ n.map_ref > 0 => n.map_cached = k.map_cached /\ n.mapped

\* Every node counts mapped blocks only, and between the put and the munmap
\* of an unmap the node counts no mapping.
AttrInv ==
  /\ \A b \in Blocks : Counted(node[b])
  /\ \A f \in Files : op[f].at = "unmapping" => node[op[f].b].map_ref = 0

SInv == IInv /\ AttrInv

\* One section of g_mmz_lock that a file's call runs: from m to n.
MmbGoesOn(m, n) == ~m.live \/ n = m \/ n = Get(m) \/ n = Put(m) \/ n = Free(m)

\* One change a call of f makes to a node: from k to n.
NodeGoesOn(f, k, n) ==
  /\ k.owner = n.owner \/ (k.owner \in {f, NoFile} /\ n.owner \in {f, NoFile})
  /\ n = k \/ k.owner \in {f, NoFile}
  /\ Counted(k) => Counted(n) /\ KeepsAttribute(k, n)

UsingPlaces == {"held", "alloced", "freeing"}

\* A step of f that concerns the block b and no other (no block: NoBlock).
FileStep(f, b) ==
  /\ UNCHANGED <<kown, kmaps>>
  /\ \A g \in Files : g # f => op'[g] = op[g]
  /\ \A c \in Blocks : c # b => mmb'[c] = mmb[c] /\ node'[c] = node[c]
  /\ b \in Blocks => MmbGoesOn(mmb[b], mmb'[b]) /\ NodeGoesOn(f, node[b], node'[b])
  /\ op[f].at \in UsingPlaces => op[f].b = b
  /\ op'[f].at \in UsingPlaces => op'[f].b = b
  /\ op'[f].at = "unmapping" => node'[op'[f].b].map_ref = 0
-----------------------------------------------------------------------------
(* The changes of a node.                                                  *)

(* The counts and marks that a call changes in its own node.               *)
LEMMA OwnNodeGoesOn ==
  ASSUME NEW f, NEW k \in NodeRecord, NEW n, k.owner \in {f, NoFile},
         \/ n = k
         \/ n = NewNode(f) \/ n = NoNode
         \/ n = CountOneMapping(k) \/ n = UncountMapping(k)
         \/ n = [k EXCEPT !.delayed_free = TRUE]
         \/ n = [k EXCEPT !.mmb_ref = @ - 1]
         \/ \E c \in BOOLEAN : n = [k EXCEPT !.map_cached = c] /\ ~(k.mapped /\ k.map_ref > 0)
         \/ n = [k EXCEPT !.mapped = FALSE] /\ k.map_ref = 0
  PROVE  NodeGoesOn(f, k, n)
<1>. USE DEF NodeGoesOn, Counted, KeepsAttribute
<1>1. CASE n = k
  BY <1>1
<1>2. CASE n = NewNode(f) \/ n = NoNode
  BY <1>2 DEF NewNode, NoNode
<1>3. CASE n = CountOneMapping(k)
  <2>1. n = [owner |-> k.owner, mapped |-> TRUE, map_cached |-> k.map_cached,
             delayed_free |-> k.delayed_free, map_ref |-> k.map_ref + 1, mmb_ref |-> k.mmb_ref + 1]
    BY <1>3 DEF CountOneMapping, NodeRecord
  <2>. QED  BY <2>1
<1>4. CASE n = UncountMapping(k)
  <2>1. n = [owner |-> k.owner, mapped |-> k.mapped, map_cached |-> k.map_cached,
             delayed_free |-> k.delayed_free, map_ref |-> k.map_ref - 1, mmb_ref |-> k.mmb_ref - 1]
    BY <1>4 DEF UncountMapping, NodeRecord
  <2>2. k.map_ref \in Int
    BY DEF NodeRecord
  <2>. QED  BY <2>1, <2>2
<1>5. CASE n = [k EXCEPT !.delayed_free = TRUE] \/ n = [k EXCEPT !.mmb_ref = @ - 1]
  <2>1. n.owner = k.owner /\ n.mapped = k.mapped /\ n.map_cached = k.map_cached /\ n.map_ref = k.map_ref
    BY <1>5 DEF NodeRecord
  <2>. QED  BY <2>1
<1>6. CASE \E c \in BOOLEAN : n = [k EXCEPT !.map_cached = c] /\ ~(k.mapped /\ k.map_ref > 0)
  <2>1. n.owner = k.owner /\ n.mapped = k.mapped /\ n.map_ref = k.map_ref /\ ~(k.mapped /\ k.map_ref > 0)
    BY <1>6 DEF NodeRecord
  <2>. QED  BY <2>1
<1>7. CASE n = [k EXCEPT !.mapped = FALSE] /\ k.map_ref = 0
  <2>1. n.owner = k.owner /\ n.map_ref = k.map_ref /\ k.map_ref = 0
    BY <1>7 DEF NodeRecord
  <2>. QED  BY <2>1
<1>. QED  BY <1>1, <1>2, <1>3, <1>4, <1>5, <1>6, <1>7

(* A step of f written as its assignments is a step that concerns b.       *)
LEMMA AssignedStep ==
  ASSUME SInv, NEW f \in Files, NEW b \in Blocks, NEW m, NEW n, NEW r,
         mmb' = [mmb EXCEPT ![b] = m], node' = [node EXCEPT ![b] = n],
         op' = [op EXCEPT ![f] = r], UNCHANGED <<kown, kmaps>>,
         MmbGoesOn(mmb[b], m), NodeGoesOn(f, node[b], n),
         op[f].at \in UsingPlaces => op[f].b = b,
         r.at \in UsingPlaces => r.b = b,
         r.at = "unmapping" => r.b = b /\ n.map_ref = 0
  PROVE  FileStep(f, b)
<1>1. mmb \in [Blocks -> MmbRecord] /\ node \in [Blocks -> NodeRecord] /\ op \in [Files -> Place]
  BY Types DEF SInv
<1>2. /\ \A c \in Blocks : mmb'[c] = IF c = b THEN m ELSE mmb[c]
      /\ \A c \in Blocks : node'[c] = IF c = b THEN n ELSE node[c]
      /\ \A g \in Files : op'[g] = IF g = f THEN r ELSE op[g]
  BY <1>1
<1>. QED  BY <1>2 DEF FileStep
-----------------------------------------------------------------------------
(* The steps of the files.                                                 *)

(* What the invariants say of a file inside a call.                        *)
LEMMA InsideCall ==
  ASSUME SInv, NEW f \in Files, op[f].at \notin {"idle", "releasing"}
  PROVE  /\ op[f].b \in Blocks
         /\ op[f].at \in {"mmapping", "remapped", "unmapping", "dropping"} => node[op[f].b].owner = f
         /\ op[f].at = "unmapping" => node[op[f].b].map_ref = 0
         /\ op[f].at \in {"alloced", "freeing"} => node[op[f].b].owner = NoFile
<1>1. PlaceOK(f) /\ \A b \in Blocks : BlockOK(b)
  BY Types DEF SInv
<1>2. op[f].b \in Blocks
  BY <1>1 DEF PlaceOK
<1>3. op[f].at \in {"alloced", "freeing"} => Claims(f, op[f].b)
  BY DEF Claims
<1>4. op[f].at \in {"alloced", "freeing"} => node[op[f].b].owner = NoFile
  BY <1>1, <1>2, <1>3 DEF BlockOK, OwnerOK
<1>. QED  BY <1>1, <1>2, <1>4 DEF PlaceOK, SInv, AttrInv

(* A step that leaves the nodes alone.                                     *)
LEMMA NodesStay ==
  ASSUME SInv, NEW f \in Files, NEW b \in Blocks, NEW m, NEW r,
         mmb' = [mmb EXCEPT ![b] = m], op' = [op EXCEPT ![f] = r], UNCHANGED <<node, kown, kmaps>>,
         MmbGoesOn(mmb[b], m),
         op[f].at \in UsingPlaces => op[f].b = b,
         r.at \in UsingPlaces => r.b = b,
         r.at # "unmapping"
  PROVE  FileStep(f, b)
<1>1. node' = [node EXCEPT ![b] = node[b]]
  BY Types DEF SInv
<1>2. NodeGoesOn(f, node[b], node[b])
  BY DEF NodeGoesOn, Counted, KeepsAttribute
<1>. QED  BY <1>1, <1>2, AssignedStep

(* Every step of a call in progress concerns the call's block, or the one  *)
(* the release loop comes to.                                              *)
LEMMA InCallGoesOn ==
  ASSUME SInv, NEW f \in Files, InCall(f)
  PROVE  \E b \in Blocks \union {NoBlock} : FileStep(f, b)
<1>. DEFINE b == op[f].b
            idle == At("idle", NoBlock)
<1>0. /\ mmb \in [Blocks -> MmbRecord] /\ node \in [Blocks -> NodeRecord] /\ op \in [Files -> Place]
      /\ NoBlock \notin Blocks
  BY Types DEF SInv
<1>1. ASSUME op[f].at \notin {"idle", "releasing"}
      PROVE  /\ b \in Blocks /\ mmb[b] \in MmbRecord /\ node[b] \in NodeRecord
             /\ op[f].at \in {"mmapping", "remapped", "unmapping", "dropping"} => node[b].owner = f
             /\ op[f].at = "unmapping" => node[b].map_ref = 0
             /\ op[f].at \in {"alloced", "freeing"} => node[b].owner = NoFile
             /\ node = [node EXCEPT ![b] = node[b]] /\ mmb = [mmb EXCEPT ![b] = mmb[b]]
             /\ op = [op EXCEPT ![f] = op[f]]
  BY <1>0, <1>1, InsideCall
<1>2. /\ idle.at = "idle" /\ At("releasing", NoBlock).at = "releasing"
      /\ At("remapped", b).at = "remapped" /\ At("freeing", b).at = "freeing" /\ At("freeing", b).b = b
  BY DEF At
<1>3. ASSUME AllocNodeFails(f) \/ FreeBlock(f) PROVE FileStep(f, b)
  <2>1. PICK place \in {"idle", "releasing"} :
          /\ op[f].at \in {"alloced", "freeing"} /\ mmb' = [mmb EXCEPT ![b] = Free(mmb[b])]
          /\ op' = [op EXCEPT ![f] = At(place, NoBlock)] /\ UNCHANGED <<node, kown, kmaps>>
    BY <1>3 DEF AllocNodeFails, FreeBlock, Goto, UnchangedKernel
  <2>2. At(place, NoBlock).at = place
    BY DEF At
  <2>. QED  BY <1>1, <2>1, <2>2, NodesStay DEF MmbGoesOn, UsingPlaces
<1>4. ASSUME AllocNode(f) PROVE FileStep(f, b)
  <2>1. /\ op[f].at = "alloced" /\ mmb' = [mmb EXCEPT ![b] = Get(mmb[b])]
        /\ node' = [node EXCEPT ![b] = NewNode(f)]
        /\ op' = [op EXCEPT ![f] = idle] /\ UNCHANGED <<kown, kmaps>>
    BY <1>4 DEF AllocNode, Goto, UnchangedKernel
  <2>2. NodeGoesOn(f, node[b], NewNode(f))
    BY <1>1, <2>1, OwnNodeGoesOn
  <2>. QED  BY <1>1, <1>2, <2>1, <2>2, AssignedStep DEF MmbGoesOn, UsingPlaces
<1>5. ASSUME RemapMmap(f) PROVE FileStep(f, b)
  <2>1. PICK r \in {At("remapped", b), idle} :
          /\ op[f].at = "mmapping" /\ mmb' = [mmb EXCEPT ![b] = Put(mmb[b])]
          /\ op' = [op EXCEPT ![f] = r] /\ UNCHANGED <<node, kown, kmaps>>
    BY <1>5 DEF RemapMmap, Goto, UnchangedKernel
  <2>2. r.at \notin UsingPlaces /\ r.at # "unmapping"
    BY <1>2, <2>1 DEF UsingPlaces
  <2>. QED  BY <1>1, <2>1, <2>2, NodesStay DEF MmbGoesOn, UsingPlaces
<1>6. ASSUME RemapCount(f) PROVE FileStep(f, b)
  <2>1. /\ op[f].at = "remapped" /\ mmb' = [mmb EXCEPT ![b] = Get(mmb[b])]
        /\ node' = [node EXCEPT ![b] = CountOneMapping(node[b])]
        /\ op' = [op EXCEPT ![f] = idle] /\ UNCHANGED <<kown, kmaps>>
    BY <1>6 DEF RemapCount, Goto, UnchangedKernel
  <2>2. NodeGoesOn(f, node[b], CountOneMapping(node[b]))
    BY <1>1, <2>1, OwnNodeGoesOn
  <2>. QED  BY <1>1, <1>2, <2>1, <2>2, AssignedStep DEF MmbGoesOn, UsingPlaces
<1>7. ASSUME UnmapFlushFails(f) PROVE FileStep(f, b)
  <2>1. op[f].at = "unmapping" /\ op' = [op EXCEPT ![f] = idle] /\ UNCHANGED <<mmb, node, kown, kmaps>>
    BY <1>7 DEF UnmapFlushFails, Goto, UnchangedKernel
  <2>. QED  BY <1>1, <1>2, <2>1, NodesStay DEF MmbGoesOn, UsingPlaces
<1>8. ASSUME PutLookedUp(f) PROVE FileStep(f, b)
  <2>1. /\ op[f].at = "held" /\ mmb' = [mmb EXCEPT ![b] = Put(mmb[b])]
        /\ op' = [op EXCEPT ![f] = idle] /\ UNCHANGED <<node, kown, kmaps>>
    BY <1>8 DEF PutLookedUp, Goto, UnchangedKernel
  <2>. QED  BY <1>1, <1>2, <2>1, NodesStay DEF MmbGoesOn, UsingPlaces
<1>9. ASSUME DropNode(f, b), op[f].at \in {"unmapping", "dropping"}, UNCHANGED <<kown, kmaps>>
      PROVE  FileStep(f, b)
  <2>1. /\ mmb' = [mmb EXCEPT ![b] = Put(mmb[b])] /\ node' = [node EXCEPT ![b] = NoNode]
        /\ op' = [op EXCEPT ![f] = At("freeing", b)]
    BY <1>9 DEF DropNode
  <2>2. NodeGoesOn(f, node[b], NoNode)
    BY ONLY <1>1, <1>9, OwnNodeGoesOn
  <2>. QED  BY <1>1, <1>2, <1>9, <2>1, <2>2, AssignedStep DEF MmbGoesOn, UsingPlaces
<1>10. ASSUME UnmapPages(f) PROVE FileStep(f, b)
  <2>1. op[f].at = "unmapping" /\ UNCHANGED <<kown, kmaps>>
    BY <1>10 DEF UnmapPages, UnchangedKernel
  <2>2. CASE DropNode(f, b)
    BY <1>9, <2>1, <2>2
  <2>3. CASE ~DropNode(f, b)
    <3>. DEFINE unmapped == [node[b] EXCEPT !.mapped = FALSE]
    <3>1. PICK n \in {node[b], unmapped} :
            node' = [node EXCEPT ![b] = n] /\ op' = [op EXCEPT ![f] = idle] /\ UNCHANGED mmb
      BY <1>1, <1>10, <2>1, <2>3 DEF UnmapPages, Goto
    <3>2. NodeGoesOn(f, node[b], n)
      BY <1>1, <2>1, <3>1, OwnNodeGoesOn
    <3>. QED  BY <1>1, <1>2, <2>1, <3>1, <3>2, AssignedStep DEF MmbGoesOn, UsingPlaces
  <2>. QED  BY <2>2, <2>3
<1>11. ASSUME ReleasePut(f) PROVE FileStep(f, b)
  <2>. DEFINE n == [node[b] EXCEPT !.mmb_ref = @ - 1]
  <2>1. /\ op[f].at = "dropping" /\ mmb' = [mmb EXCEPT ![b] = Put(mmb[b])]
        /\ node' = [node EXCEPT ![b] = n] /\ UNCHANGED <<op, kown, kmaps>>
    BY <1>0, <1>1, <1>11 DEF ReleasePut, UnchangedKernel
  <2>2. NodeGoesOn(f, node[b], n)
    BY <1>1, <2>1, OwnNodeGoesOn
  <2>. QED  BY <1>1, <2>1, <2>2, AssignedStep DEF MmbGoesOn, UsingPlaces
<1>12. ASSUME ReleaseDrop(f) PROVE FileStep(f, b)
  BY <1>9, <1>12 DEF ReleaseDrop, UnchangedKernel
<1>13. ASSUME ReleaseNode(f) PROVE FileStep(f, NoBlock)
  <2>1. PICK c \in Blocks : /\ op[f].at = "releasing" /\ op' = [op EXCEPT ![f] = At("dropping", c)]
                            /\ UNCHANGED <<mmb, node, kown, kmaps>>
    BY <1>13 DEF ReleaseNode, UnchangedKernel
  <2>2. At("dropping", c).at = "dropping"
    BY DEF At
  <2>. QED  BY <1>0, <2>1, <2>2 DEF FileStep, UsingPlaces
<1>14. ASSUME ReleaseEnds(f) PROVE FileStep(f, NoBlock)
  <2>1. /\ op[f].at = "releasing" /\ op' = [op EXCEPT ![f] = idle]
        /\ UNCHANGED <<mmb, node, kown, kmaps>>
    BY <1>14 DEF ReleaseEnds, UnchangedKernel, Goto
  <2>. QED  BY <1>0, <1>2, <2>1 DEF FileStep, UsingPlaces
<1>15. b \in Blocks \union {NoBlock}
  BY <1>0 DEF Place
<1>. QED
  BY <1>3, <1>4, <1>5, <1>6, <1>7, <1>8, <1>10, <1>11, <1>12, <1>13, <1>14, <1>15 DEF InCall

(* Every step that starts a call concerns the block the call names; open   *)
(* and close concern none.                                                 *)
LEMMA StartsGoesOn ==
  ASSUME SInv, NEW f \in Files, Starts(f)
  PROVE  \E b \in Blocks \union {NoBlock} : FileStep(f, b)
<1>0. /\ mmb \in [Blocks -> MmbRecord] /\ node \in [Blocks -> NodeRecord] /\ op \in [Files -> Place]
      /\ NoBlock \notin Blocks
  BY Types DEF SInv
<1>1. op = [op EXCEPT ![f] = op[f]]
  BY <1>0
<1>2. /\ \A b : At("alloced", b).at = "alloced" /\ At("alloced", b).b = b
      /\ \A b : At("freeing", b).at = "freeing" /\ At("freeing", b).b = b
      /\ \A b : At("held", b).at = "held" /\ At("held", b).b = b
      /\ \A b : At("mmapping", b).at = "mmapping"
      /\ \A b : At("unmapping", b).at = "unmapping" /\ At("unmapping", b).b = b
      /\ At("releasing", NoBlock).at = "releasing"
  BY DEF At
<1>3. ASSUME Open(f) \/ Release(f) PROVE FileStep(f, NoBlock)
  <2>1. PICK r \in {op[f], At("releasing", NoBlock)} :
          op[f].at = "idle" /\ op' = [op EXCEPT ![f] = r] /\ UNCHANGED <<mmb, node, kown, kmaps>>
    BY <1>1, <1>3 DEF Open, Release, Ready, Goto, UnchangedKernel
  <2>. QED  BY <1>0, <1>2, <2>1 DEF FileStep, UsingPlaces
<1>4. ASSUME NEW b \in Blocks, Alloc(f, b) PROVE FileStep(f, b)
  <2>1. /\ op[f].at = "idle" /\ ~mmb[b].live /\ mmb' = [mmb EXCEPT ![b] = RealAlloc]
        /\ op' = [op EXCEPT ![f] = At("alloced", b)] /\ UNCHANGED <<node, kown, kmaps>>
    BY <1>4 DEF Alloc, Ready, UnchangedKernel
  <2>2. MmbGoesOn(mmb[b], RealAlloc) /\ op[f].at \notin UsingPlaces
    BY <2>1 DEF MmbGoesOn, UsingPlaces
  <2>3. PICK r : r = At("alloced", b) /\ r.at # "unmapping" /\ r.b = b
    BY <1>2
  <2>. QED  BY <2>1, <2>2, <2>3, NodesStay
<1>5. ASSUME NEW b \in Blocks, FreeDelayed(f, b) PROVE FileStep(f, b)
  <2>. DEFINE n == [node[b] EXCEPT !.delayed_free = TRUE]
  <2>1. /\ op[f].at = "idle" /\ node[b].owner = f /\ node[b] \in NodeRecord
        /\ mmb' = [mmb EXCEPT ![b] = mmb[b]]
        /\ node' = [node EXCEPT ![b] = n]
        /\ op' = [op EXCEPT ![f] = op[f]] /\ UNCHANGED <<kown, kmaps>>
    BY <1>0, <1>1, <1>5 DEF FreeDelayed, Ready, HasNode, UnchangedKernel
  <2>2. NodeGoesOn(f, node[b], n)
    BY ONLY <2>1, OwnNodeGoesOn
  <2>. QED  BY <2>1, <2>2, AssignedStep DEF MmbGoesOn, UsingPlaces
<1>6. ASSUME NEW b \in Blocks, FreeNow(f, b) PROVE FileStep(f, b)
  <2>1. /\ op[f].at = "idle" /\ node[b].owner = f /\ node[b] \in NodeRecord
        /\ mmb' = [mmb EXCEPT ![b] = Put(mmb[b])]
        /\ node' = [node EXCEPT ![b] = NoNode]
        /\ op' = [op EXCEPT ![f] = At("freeing", b)] /\ UNCHANGED <<kown, kmaps>>
    BY <1>0, <1>6 DEF FreeNow, Ready, HasNode, DropNode, UnchangedKernel
  <2>2. NodeGoesOn(f, node[b], NoNode)
    BY ONLY <2>1, OwnNodeGoesOn
  <2>. QED  BY <1>2, <2>1, <2>2, AssignedStep, ZenonT(60) DEF MmbGoesOn, UsingPlaces
<1>7. ASSUME NEW b \in Blocks, NEW cached \in BOOLEAN, RemapAgain(f, b, cached) PROVE FileStep(f, b)
  <2>1. /\ op[f].at = "idle" /\ node[b].owner = f /\ node[b] \in NodeRecord
        /\ mmb' = [mmb EXCEPT ![b] = Get(mmb[b])]
        /\ node' = [node EXCEPT ![b] = CountOneMapping(node[b])]
        /\ op' = [op EXCEPT ![f] = op[f]] /\ UNCHANGED <<kown, kmaps>>
    BY <1>0, <1>1, <1>7 DEF RemapAgain, Ready, HasNode, UnchangedKernel
  <2>2. NodeGoesOn(f, node[b], CountOneMapping(node[b]))
    BY ONLY <2>1, OwnNodeGoesOn
  <2>. QED  BY <2>1, <2>2, AssignedStep DEF MmbGoesOn, UsingPlaces
<1>8. ASSUME NEW b \in Blocks, NEW cached \in BOOLEAN, Remap(f, b, cached) PROVE FileStep(f, b)
  <2>. DEFINE n == [node[b] EXCEPT !.map_cached = cached]
  <2>1. /\ op[f].at = "idle" /\ node[b].owner = f /\ node[b] \in NodeRecord
        /\ mmb' = [mmb EXCEPT ![b] = Get(mmb[b])]
        /\ node' = [node EXCEPT ![b] = n] /\ ~(node[b].mapped /\ node[b].map_ref > 0)
        /\ op' = [op EXCEPT ![f] = At("mmapping", b)] /\ UNCHANGED <<kown, kmaps>>
    BY <1>0, <1>8 DEF Remap, Ready, HasNode, CountsMapping, UnchangedKernel
  <2>2. NodeGoesOn(f, node[b], n)
    BY ONLY <2>1, OwnNodeGoesOn
  <2>. QED  BY <1>2, <2>1, <2>2, AssignedStep DEF MmbGoesOn, UsingPlaces
<1>9. ASSUME NEW b \in Blocks, Unremap(f, b) PROVE FileStep(f, b)
  <2>. DEFINE n == UncountMapping(node[b])
  <2>1. PICK r \in {op[f], At("unmapping", b)} :
          /\ op[f].at = "idle" /\ node[b].owner = f /\ node[b] \in NodeRecord
        /\ mmb' = [mmb EXCEPT ![b] = Put(mmb[b])]
          /\ node' = [node EXCEPT ![b] = n] /\ op' = [op EXCEPT ![f] = r] /\ UNCHANGED <<kown, kmaps>>
          /\ node[b].map_ref > 0 /\ (r = op[f] \/ ~(node[b].map_ref > 1))
    BY <1>0, <1>1, <1>9 DEF Unremap, Ready, HasNode, UnchangedKernel
  <2>2. NodeGoesOn(f, node[b], n)
    BY ONLY <2>1, OwnNodeGoesOn
  <2>3. node[b].map_ref \in Nat /\ n.map_ref = node[b].map_ref - 1
    BY <1>0, Types, UncountOneFields DEF SInv
  <2>4. r.at \notin UsingPlaces /\ (r.at = "unmapping" => r.b = b /\ n.map_ref = 0)
    BY <1>2, <2>1, <2>3 DEF UsingPlaces
  <2>. HIDE DEF n
  <2>. QED  BY <2>1, <2>2, <2>4, AssignedStep DEF MmbGoesOn, UsingPlaces
<1>10. ASSUME NEW b \in Blocks, LookUp(f, b) PROVE FileStep(f, b)
  <2>1. /\ op[f].at = "idle" /\ mmb' = [mmb EXCEPT ![b] = Get(mmb[b])]
        /\ op' = [op EXCEPT ![f] = At("held", b)] /\ UNCHANGED <<node, kown, kmaps>>
    BY <1>10 DEF LookUp, Ready, UnchangedKernel
  <2>2. MmbGoesOn(mmb[b], Get(mmb[b])) /\ op[f].at \notin UsingPlaces
    BY <2>1 DEF MmbGoesOn, UsingPlaces
  <2>3. PICK r : r = At("held", b) /\ r.at # "unmapping" /\ r.b = b
    BY <1>2
  <2>. QED  BY <2>1, <2>2, <2>3, NodesStay
<1>. QED  BY <1>3, <1>4, <1>5, <1>6, <1>7, <1>8, <1>9, <1>10 DEF Starts
-----------------------------------------------------------------------------
(* The attribute of user mappings.                                         *)

(* Initially no node counts a mapping and no call is in progress.          *)
LEMMA InitAttr ==
  ASSUME Init
  PROVE  AttrInv
BY DEF Init, AttrInv, Counted, NoNode, NewNode, At

(* A step of a file keeps AttrInv and the attribute of every mapping.      *)
LEMMA FileKeepsAttr ==
  ASSUME SInv, NEW f \in Files, NEW b \in Blocks \union {NoBlock}, FileStep(f, b)
  PROVE  /\ AttrInv'
         /\ \A c \in Blocks : KeepsAttribute(node[c], node'[c])
<1>1. \A c \in Blocks : Counted(node[c]) /\ (node'[c] = node[c] \/ NodeGoesOn(f, node[c], node'[c]))
  BY DEF SInv, AttrInv, FileStep
<1>2. \A c \in Blocks : Counted(node'[c]) /\ KeepsAttribute(node[c], node'[c])
  BY <1>1 DEF NodeGoesOn, Counted, KeepsAttribute
<1>3. ASSUME NEW g \in Files, op'[g].at = "unmapping" PROVE node'[op'[g].b].map_ref = 0
  <2>1. CASE g = f
    BY <1>3, <2>1 DEF FileStep
  <2>2. CASE g # f
    <3>1. op'[g] = op[g] /\ op[g].at = "unmapping"
      BY <1>3, <2>2 DEF FileStep
    <3>2. op[g].b \in Blocks /\ node[op[g].b].owner = g /\ node[op[g].b].map_ref = 0
      BY <3>1, InsideCall
    <3>3. node'[op[g].b] = node[op[g].b]
      BY <2>2, <3>2, Types DEF FileStep, NodeGoesOn, SInv
    <3>. QED  BY <3>1, <3>2, <3>3
  <2>. QED  BY <2>1, <2>2
<1>. QED  BY <1>2, <1>3 DEF AttrInv

(* A step of a kernel module or of nobody leaves nodes and calls alone.    *)
LEMMA OthersKeepAttr ==
  ASSUME SInv, KernelStep \/ UNCHANGED vars
  PROVE  /\ AttrInv'
         /\ \A c \in Blocks : KeepsAttribute(node[c], node'[c])
<1>1. UNCHANGED <<node, op>>
  BY DEF KernelStep, KernelAlloc, KernelFree, KernelMap, KernelUnmap, vars
<1>. QED  BY <1>1 DEF SInv, AttrInv, Counted, KeepsAttribute

(* Every step of a file is a FileStep.                                     *)
LEMMA FilesGoOn ==
  ASSUME SInv, NEW f \in Files, InCall(f) \/ Starts(f)
  PROVE  \E b \in Blocks \union {NoBlock} : FileStep(f, b)
BY InCallGoesOn, StartsGoesOn

(* SInv is inductive.                                                      *)
LEMMA StepsInvariance == Spec => []SInv
<1>1. Init => AttrInv
  BY InitAttr
<1>2. SInv /\ [Next]_vars => AttrInv'
  BY FilesGoOn, FileKeepsAttr, OthersKeepAttr DEF Next
<1>. QED  BY Invariance, <1>1, <1>2, PTL DEF Spec, SInv

(* While a file's node counts a user mapping of a block, the cache         *)
(* attribute it was mapped with and its address stay on record, whatever   *)
(* the other threads do between the steps of its calls.                    *)
THEOREM UserAttributeStays == Spec => UserAttributeFixed
<1>1. SInv /\ [Next]_vars =>
        \A b \in Blocks : node[b].map_ref > 0 /\ node'[b].map_ref > 0 =>
          node'[b].map_cached = node[b].map_cached /\ node'[b].mapped
  <2>1. SInv /\ [Next]_vars => \A b \in Blocks : KeepsAttribute(node[b], node'[b])
    BY FilesGoOn, FileKeepsAttr, OthersKeepAttr DEF Next
  <2>. QED  BY <2>1 DEF KeepsAttribute
<1>. QED  BY <1>1, StepsInvariance, PTL DEF Spec, UserAttributeFixed
-----------------------------------------------------------------------------
(* The attribute of kernel mappings.                                       *)

(* No section that a file's call runs changes the attribute of a block     *)
(* that the kernel maps; a free that is due only marks it.                 *)
LEMMA SectionKeepsAttribute ==
  ASSUME IInv, NEW b \in Blocks, kmaps[b] > 0, NEW n, MmbGoesOn(mmb[b], n)
  PROVE  n.cached = mmb[b].cached
<1>1. /\ mmb[b] \in MmbRecord /\ mmb[b].live /\ mmb[b].map2kern /\ mmb[b].map_ref > 0
      /\ mmb[b].map_ref = kmaps[b]
  BY Types DEF BlockOK, RefsOK, LifeOK
<1>2. CASE n = mmb[b]
  BY <1>2
<1>3. CASE n = Get(mmb[b])
  BY <1>1, <1>3, GetFields DEF SameButRefs
<1>4. CASE n = Put(mmb[b])
  <2>1. ~(mmb[b].released /\ mmb[b].phy_ref = 1 /\ mmb[b].map_ref = 0)
    BY <1>1
  <2>. QED  BY <1>1, <1>4, <2>1, PutFields DEF SameButRefs
<1>5. CASE n = Free(mmb[b])
  <2>1. CASE mmb[b].released
    BY <1>5, <2>1 DEF Free
  <2>2. CASE ~mmb[b].released
    BY <1>1, <1>5, <2>2, FreeFields
  <2>. QED  BY <2>1, <2>2
<1>. QED  BY <1>1, <1>2, <1>3, <1>4, <1>5 DEF MmbGoesOn

(* Nor does a step of a kernel module, while a mapping remains.            *)
LEMMA KernelKeepsAttribute ==
  ASSUME IInv, KernelStep, NEW c \in Blocks, kmaps[c] > 0, kmaps'[c] > 0
  PROVE  mmb'[c].cached = mmb[c].cached
<1>0. mmb \in [Blocks -> MmbRecord] /\ kmaps \in [Blocks -> Nat] /\ BlockOK(c)
  BY Types
<1>1. /\ mmb[c].live /\ mmb[c].map2kern /\ mmb[c].map_ref = kmaps[c] /\ mmb[c] \in MmbRecord
      /\ mmb[c].map_ref \in Nat
  BY <1>0 DEF BlockOK, RefsOK, LifeOK
<1>2. ASSUME NEW b \in Blocks, KernelAlloc(b) PROVE mmb'[c].cached = mmb[c].cached
  BY <1>0, <1>1, <1>2 DEF KernelAlloc
<1>3. ASSUME NEW b \in Blocks, KernelFree(b) PROVE mmb'[c].cached = mmb[c].cached
  <2>1. mmb'[c] = mmb[c] \/ mmb'[c] = Free(mmb[c])
    BY <1>0, <1>3 DEF KernelFree
  <2>2. MmbGoesOn(mmb[c], mmb'[c])
    BY <2>1 DEF MmbGoesOn
  <2>. QED  BY <2>2, SectionKeepsAttribute
<1>4. ASSUME NEW b \in Blocks, KernelUnmap(b) PROVE mmb'[c].cached = mmb[c].cached
  <2>1. CASE c = b
    <3>1. mmb'[c] = Unmap(mmb[c]) /\ kmaps[c] # 1
      BY <1>0, <1>4, <2>1 DEF KernelUnmap
    <3>. QED  BY <1>1, <3>1, UnmapFields
  <2>2. CASE c # b
    BY <1>0, <1>4, <2>2 DEF KernelUnmap
  <2>. QED  BY <2>1, <2>2
<1>5. ASSUME NEW b \in Blocks, NEW cached \in BOOLEAN, NEW ok \in BOOLEAN, KernelMap(b, cached, ok)
      PROVE  mmb'[c].cached = mmb[c].cached
  <2>1. mmb'[c] = mmb[c] \/ mmb'[c] = Map2Kern(mmb[c], cached, ok)
    BY <1>0, <1>5 DEF KernelMap
  <2>. QED  BY <1>1, <2>1, Map2KernFields
<1>. QED  BY <1>2, <1>3, <1>4, <1>5 DEF KernelStep

(* While a block stays mapped in the kernel its cache attribute does not   *)
(* change: no sequence of gets, puts, frees, maps and unmaps by files and  *)
(* kernel modules lets allocator_mmb_map2kern map it with the other one.   *)
THEOREM KernelAttributeStays == Spec => KernelAttributeFixed
<1>1. ASSUME SInv, [Next]_vars, NEW b \in Blocks, kmaps[b] > 0, kmaps'[b] > 0
      PROVE  mmb'[b].cached = mmb[b].cached
  <2>1. ASSUME NEW f \in Files, NEW c \in Blocks \union {NoBlock}, FileStep(f, c)
        PROVE  mmb'[b].cached = mmb[b].cached
    <3>1. mmb'[b] = mmb[b] \/ MmbGoesOn(mmb[b], mmb'[b])
      BY <2>1 DEF FileStep
    <3>. QED  BY <1>1, <3>1, SectionKeepsAttribute DEF SInv
  <2>2. CASE KernelStep
    BY <1>1, <2>2, KernelKeepsAttribute DEF SInv
  <2>3. CASE UNCHANGED vars
    BY <2>3 DEF vars
  <2>. QED  BY <1>1, <2>1, <2>2, <2>3, FilesGoOn DEF Next
<1>2. SInv /\ [Next]_vars =>
        \A b \in Blocks : kmaps[b] > 0 /\ kmaps'[b] > 0 => mmb'[b].cached = mmb[b].cached
  BY <1>1
<1>. QED  BY <1>2, StepsInvariance, PTL DEF Spec, KernelAttributeFixed
-----------------------------------------------------------------------------
(* The block manager implements MmbPromise.                                *)

(* Initially nothing is allocated and nobody holds anything.               *)
LEMMA InitPromise ==
  ASSUME Init
  PROVE  Promise!Init
<1>1. {b \in Blocks : mmb[b].live} = {}
  BY DEF Init, NoMmb
<1>2. \A b \in Blocks : Holders(b) = {}
  BY UserdevConstants DEF Init, Holders, Using, NoNode, NewNode, At
<1>. QED  BY <1>1, <1>2 DEF Promise!Init

(* The descriptors follow the holders before and after a step.             *)
LEMMA HoldersDecide ==
  (IInv => LiveIffHeld) /\ (IInv' => LiveIffHeld')
<1>1. IInv => LiveIffHeld
  BY LiveIsHeld, HeldIsLive DEF LiveIffHeld
<1>2. IInv' => LiveIffHeld'
  BY <1>1, PTL
<1>. QED  BY <1>1, <1>2

(* A step that changes at most whether h is a holder of b takes b, joins   *)
(* it, leaves it or stutters.                                              *)
LEMMA OneHolderMoves ==
  ASSUME LiveIffHeld, LiveIffHeld', NEW b \in Blocks, NEW h \in Files \union {Kernel},
         \A c \in Blocks : c # b => Holders(c)' = Holders(c),
         \A g : g # h => (g \in Holders(b)' <=> g \in Holders(b))
  PROVE  \/ Promise!Next
         \/ UNCHANGED <<{c \in Blocks : mmb[c].live}, [c \in Blocks |-> Holders(c)]>>
<1>. DEFINE L == {c \in Blocks : mmb[c].live}
            H == [c \in Blocks |-> Holders(c)]
<1>1. \A c \in Blocks : (mmb[c].live <=> Holders(c) # {}) /\ (mmb'[c].live <=> Holders(c)' # {})
  BY DEF LiveIffHeld
<1>2. /\ L' = {c \in Blocks : mmb'[c].live} /\ H' = [c \in Blocks |-> Holders(c)']
      /\ \A c \in Blocks : c # b => (c \in L' <=> c \in L)
  BY <1>1
<1>3. CASE h \in Holders(b) <=> h \in Holders(b)'
  <2>1. Holders(b)' = Holders(b)
    BY <1>3
  <2>2. L' = L /\ H' = H
    BY <1>1, <1>2, <2>1
  <2>. QED  BY <2>2
<1>4. CASE h \notin Holders(b) /\ h \in Holders(b)'
  <2>1. Holders(b)' = Holders(b) \union {h}
    BY <1>4
  <2>2. CASE mmb[b].live
    <3>1. L' = L /\ H' = [H EXCEPT ![b] = @ \union {h}] /\ b \in L
      BY <1>1, <1>2, <2>1, <2>2
    <3>2. Promise!Join(b, h)
      BY <3>1 DEF Promise!Join
    <3>. QED  BY <3>2 DEF Promise!Next
  <2>3. CASE ~mmb[b].live
    <3>1. Holders(b) = {} /\ Holders(b)' = {h}
      BY <1>1, <2>1, <2>3
    <3>2. L' = L \union {b} /\ H' = [H EXCEPT ![b] = {h}] /\ b \notin L
      BY <1>1, <1>2, <2>3, <3>1
    <3>3. Promise!Take(b, h)
      BY <3>2 DEF Promise!Take
    <3>. QED  BY <3>3 DEF Promise!Next
  <2>. QED  BY <2>2, <2>3
<1>5. CASE h \in Holders(b) /\ h \notin Holders(b)'
  <2>1. Holders(b)' = Holders(b) \ {h}
    BY <1>5
  <2>2. H' = [H EXCEPT ![b] = @ \ {h}] /\ H[b] = Holders(b) /\ h \in H[b]
    BY <1>2, <1>5, <2>1
  <2>3. L' = IF H[b] = {h} THEN L \ {b} ELSE L
    <3>1. Holders(b)' = {} <=> Holders(b) = {h}
      BY <1>5, <2>1
    <3>. QED  BY <1>1, <1>2, <1>5, <2>2, <3>1
  <2>4. Promise!Leave(b, h)
    BY <2>2, <2>3 DEF Promise!Leave
  <2>. QED  BY <2>4 DEF Promise!Next
<1>. QED  BY <1>3, <1>4, <1>5

(* Who relies on a block: the file whose node it has, a call that will use *)
(* it, a kernel module.                                                    *)
LEMMA Relies ==
  ASSUME NEW c
  PROVE  /\ \A g \in Files : g \in Holders(c) <=>
              node[c].owner = g \/ (op[g].b = c /\ op[g].at \in UsingPlaces)
         /\ Kernel \in Holders(c) <=> c \in kown \/ kmaps[c] > 0
         /\ Holders(c) \subseteq Files \union {Kernel}
BY UserdevConstants DEF Holders, Using, UsingPlaces

(* And after the step.                                                     *)
LEMMA ReliesNext ==
  ASSUME NEW c
  PROVE  /\ \A g \in Files : g \in Holders(c)' <=>
              node'[c].owner = g \/ (op'[g].b = c /\ op'[g].at \in UsingPlaces)
         /\ Kernel \in Holders(c)' <=> c \in kown' \/ kmaps'[c] > 0
         /\ Holders(c)' \subseteq Files \union {Kernel}
BY UserdevConstants DEF Holders, Using, UsingPlaces

(* A step of f changes at most whether f relies on the call's block.       *)
LEMMA FileStepHolders ==
  ASSUME SInv, NEW f \in Files, NEW b \in Blocks \union {NoBlock}, FileStep(f, b)
  PROVE  /\ \A c \in Blocks : c # b => Holders(c)' = Holders(c)
         /\ b \in Blocks => \A g : g # f => (g \in Holders(b)' <=> g \in Holders(b))
<1>0. f # NoFile /\ NoFile \notin Files /\ Kernel \notin Files
  BY UserdevConstants
<1>1. ASSUME NEW c \in Blocks, NEW g \in Files, g # f \/ c # b
      PROVE  g \in Holders(c)' <=> g \in Holders(c)
  <2>1. node'[c].owner = g <=> node[c].owner = g
    BY <1>0, <1>1 DEF FileStep, NodeGoesOn
  <2>2. op'[g].b = c /\ op'[g].at \in UsingPlaces <=> op[g].b = c /\ op[g].at \in UsingPlaces
    BY <1>1 DEF FileStep
  <2>. QED  BY <2>1, <2>2, Relies, ReliesNext
<1>2. ASSUME NEW c \in Blocks PROVE Kernel \in Holders(c)' <=> Kernel \in Holders(c)
  BY Relies, ReliesNext DEF FileStep
<1>3. ASSUME NEW c \in Blocks, NEW g, g \notin Files \union {Kernel}
      PROVE  g \notin Holders(c)' /\ g \notin Holders(c)
  BY <1>3, Relies, ReliesNext
<1>4. ASSUME NEW c \in Blocks, c # b PROVE Holders(c)' = Holders(c)
  <2>1. \A g : g \in Holders(c)' <=> g \in Holders(c)
    BY <1>1, <1>2, <1>3, <1>4
  <2>. QED  BY <2>1
<1>5. ASSUME b \in Blocks, NEW g, g # f PROVE g \in Holders(b)' <=> g \in Holders(b)
  BY <1>1, <1>2, <1>3, <1>5
<1>. QED  BY <1>4, <1>5

(* A step of a kernel module changes at most whether the kernel relies on  *)
(* the block it names.                                                     *)
LEMMA KernelStepHolders ==
  ASSUME IInv, KernelStep
  PROVE  \E b \in Blocks :
           /\ \A c \in Blocks : c # b => Holders(c)' = Holders(c)
           /\ \A g : g # Kernel => (g \in Holders(b)' <=> g \in Holders(b))
<1>1. kmaps \in [Blocks -> Nat]
  BY Types
<1>2. PICK b \in Blocks :
        /\ UNCHANGED <<node, op>>
        /\ \A c \in Blocks : c # b => (c \in kown' <=> c \in kown) /\ kmaps'[c] = kmaps[c]
  BY <1>1 DEF KernelStep, KernelAlloc, KernelFree, KernelMap, KernelUnmap
<1>3. ASSUME NEW c \in Blocks, NEW g, g # Kernel PROVE g \in Holders(c)' <=> g \in Holders(c)
  <2>1. CASE g \in Files
    BY <1>2, <2>1, Relies, ReliesNext
  <2>2. CASE g \notin Files
    BY <1>3, <2>2, Relies, ReliesNext
  <2>. QED  BY <2>1, <2>2
<1>4. ASSUME NEW c \in Blocks, c # b PROVE Holders(c)' = Holders(c)
  <2>1. Kernel \in Holders(c)' <=> Kernel \in Holders(c)
    BY <1>2, <1>4, Relies, ReliesNext
  <2>2. \A g : g \in Holders(c)' <=> g \in Holders(c)
    BY <1>3, <2>1
  <2>. QED  BY <2>2
<1>. QED  BY <1>3, <1>4

(* Every step of the system is a step of the promise or changes nothing of *)
(* it.                                                                     *)
LEMMA PromiseStep ==
  ASSUME SInv, [Next]_vars, LiveIffHeld, LiveIffHeld'
  PROVE  \/ Promise!Next
         \/ UNCHANGED <<{c \in Blocks : mmb[c].live}, [c \in Blocks |-> Holders(c)]>>
<1>1. ASSUME \A c \in Blocks : Holders(c)' = Holders(c)
      PROVE  UNCHANGED <<{c \in Blocks : mmb[c].live}, [c \in Blocks |-> Holders(c)]>>
  <2>1. \A c \in Blocks : mmb'[c].live <=> mmb[c].live
    BY <1>1 DEF LiveIffHeld
  <2>. QED  BY <1>1, <2>1
<1>2. ASSUME NEW f \in Files, InCall(f) \/ Starts(f)
      PROVE  \/ Promise!Next
             \/ UNCHANGED <<{c \in Blocks : mmb[c].live}, [c \in Blocks |-> Holders(c)]>>
  <2>1. PICK b \in Blocks \union {NoBlock} : FileStep(f, b)
    BY <1>2, FilesGoOn
  <2>2. CASE b \in Blocks
    BY <2>1, <2>2, FileStepHolders, OneHolderMoves
  <2>3. CASE b \notin Blocks
    <3>1. \A c \in Blocks : Holders(c)' = Holders(c)
      BY <2>1, <2>3, FileStepHolders
    <3>. QED  BY <1>1, <3>1
  <2>. QED  BY <2>2, <2>3
<1>3. CASE KernelStep
  BY <1>3, KernelStepHolders, OneHolderMoves DEF SInv
<1>4. CASE UNCHANGED vars
  <2>1. \A c \in Blocks : Holders(c)' = Holders(c)
    BY <1>4 DEF vars, Holders, Using
  <2>. QED  BY <1>1, <2>1
<1>. QED  BY <1>2, <1>3, <1>4 DEF Next

(* The block manager and its device implement MmbPromise: a block is       *)
(* allocated by taking it while nobody holds it, others join while it is   *)
(* allocated, and it is available again in the very step in which its last *)
(* holder leaves, although the code only keeps counts and flags.           *)
THEOREM Implements == Spec => ImplementsPromise
<1>1. Init => Promise!Init
  BY InitPromise
<1>2. /\ SInv /\ SInv' /\ [Next]_vars =>
          [Promise!Next]_<<{b \in Blocks : mmb[b].live}, [b \in Blocks |-> Holders(b)]>>
  BY HoldersDecide, PromiseStep DEF SInv
<1>. QED  BY <1>1, <1>2, StepsInvariance, PTL DEF Spec, ImplementsPromise, Promise!Spec
=============================================================================
