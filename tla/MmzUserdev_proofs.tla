------------------------- MODULE MmzUserdev_proofs -------------------------
(***************************************************************************)
(* The reference counts of the media memory blocks are right and a         *)
(* descriptor is freed exactly when nobody relies on it any more, for      *)
(* every number of files, blocks and mappings: proofs about MmzUserdev.    *)
(***************************************************************************)
EXTENDS MmzUserdev, FiniteSetTheorems, TLAPS

\* The call of f has allocated b and not listed it yet, or has unlisted it
\* and not freed it yet.
Claims(f, b) == op[f].at \in {"alloced", "freeing"} /\ op[f].b = b

\* The references and kernel mappings of b are those of its users.
RefsOK(b) ==
  /\ mmb[b].phy_ref = NodeRefs(b) + Cardinality(Looking(b))
  /\ mmb[b].map_ref = kmaps[b]
  /\ mmb[b].map2kern <=> mmb[b].map_ref > 0

\* A block that has not been released has one party that will free it, and
\* only such a block has: its node, its kernel owner or a call in progress.
OwnerOK(b) ==
  /\ mmb[b].live /\ ~mmb[b].released <=>
       node[b].owner # NoFile \/ b \in kown \/ \E f \in Files : Claims(f, b)
  /\ node[b].owner # NoFile => b \notin kown
  /\ \A f \in Files : Claims(f, b) => node[b].owner = NoFile /\ b \notin kown
  /\ \A f, g \in Files : Claims(f, b) /\ Claims(g, b) => f = g

\* A freed descriptor has no reference; a released one has some left.
LifeOK(b) ==
  /\ ~mmb[b].live => ~mmb[b].released /\ mmb[b].phy_ref = 0 /\ mmb[b].map_ref = 0
  /\ mmb[b].released => mmb[b].phy_ref > 0 \/ mmb[b].map_ref > 0

BlockOK(b) == RefsOK(b) /\ OwnerOK(b) /\ LifeOK(b)

\* Inside a call the file concerns a block; at these places it is on its list.
PlaceOK(f) ==
  /\ op[f].at \notin {"idle", "releasing"} => op[f].b \in Blocks
  /\ op[f].at \in {"mmapping", "remapped", "unmapping", "dropping"} =>
       node[op[f].b].owner = f

IInv == TypeOK /\ (\A b \in Blocks : BlockOK(b)) /\ (\A f \in Files : PlaceOK(f))
-----------------------------------------------------------------------------
(* The sections of g_mmz_lock, field by field.                             *)

\* The fields of m and n other than phy_ref agree.
SameButRefs(m, n) ==
  /\ n.live = m.live /\ n.released = m.released
  /\ n.map2kern = m.map2kern /\ n.cached = m.cached /\ n.map_ref = m.map_ref

(* A new descriptor is on the list, with no reference and no mapping.      *)
LEMMA RealAllocFields ==
  /\ RealAlloc \in MmbRecord /\ RealAlloc.live /\ ~RealAlloc.released /\ ~RealAlloc.map2kern
  /\ RealAlloc.phy_ref = 0 /\ RealAlloc.map_ref = 0
BY DEF RealAlloc, MmbRecord

(* ot_mmb_get adds one reference and changes nothing else.                 *)
LEMMA GetFields ==
  ASSUME NEW m \in MmbRecord
  PROVE  /\ Get(m) \in MmbRecord
         /\ Get(m).phy_ref = m.phy_ref + 1 /\ SameButRefs(m, Get(m))
<1>1. Get(m) = [live |-> m.live, phy_ref |-> m.phy_ref + 1, map_ref |-> m.map_ref,
                map2kern |-> m.map2kern, cached |-> m.cached, released |-> m.released]
  BY DEF Get, MmbRecord
<1>. QED  BY <1>1 DEF MmbRecord, SameButRefs

(* ot_mmb_put drops one reference and frees a released block without any.  *)
LEMMA PutFields ==
  ASSUME NEW m \in MmbRecord
  PROVE  /\ Put(m) \in MmbRecord
         /\ IF m.released /\ m.phy_ref = 1 /\ m.map_ref = 0
              THEN Put(m) = NoMmb
              ELSE Put(m).phy_ref = m.phy_ref - 1 /\ SameButRefs(m, Put(m))
<1>. DEFINE n == [live |-> m.live, phy_ref |-> m.phy_ref - 1, map_ref |-> m.map_ref,
                  map2kern |-> m.map2kern, cached |-> m.cached, released |-> m.released]
<1>1. [m EXCEPT !.phy_ref = @ - 1] = n
  BY DEF MmbRecord
<1>2. Put(m) = IF m.released /\ m.phy_ref - 1 = 0 /\ m.map_ref = 0 THEN NoMmb ELSE n
  BY <1>1 DEF Put, AllocatorFree
<1>3. m.phy_ref \in Int /\ (m.phy_ref - 1 = 0 <=> m.phy_ref = 1)
  BY DEF MmbRecord
<1>4. n \in MmbRecord /\ NoMmb \in MmbRecord
  BY DEF MmbRecord, NoMmb
<1>5. CASE m.released /\ m.phy_ref = 1 /\ m.map_ref = 0
  BY <1>2, <1>3, <1>4, <1>5
<1>6. CASE ~(m.released /\ m.phy_ref = 1 /\ m.map_ref = 0)
  BY <1>2, <1>3, <1>4, <1>6 DEF SameButRefs
<1>. QED  BY <1>5, <1>6

(* ot_mmb_free of a block that has not been released.                      *)
LEMMA FreeFields ==
  ASSUME NEW m \in MmbRecord, ~m.released
  PROVE  /\ Free(m) \in MmbRecord
         /\ IF m.phy_ref > 0 \/ m.map2kern
              THEN /\ Free(m).released /\ Free(m).live = m.live
                   /\ Free(m).phy_ref = m.phy_ref /\ Free(m).map_ref = m.map_ref
                   /\ Free(m).map2kern = m.map2kern /\ Free(m).cached = m.cached
              ELSE Free(m) = NoMmb
<1>1. CASE m.phy_ref > 0 \/ m.map2kern
  <2>1. Free(m) = [live |-> m.live, phy_ref |-> m.phy_ref, map_ref |-> m.map_ref,
                   map2kern |-> m.map2kern, cached |-> m.cached, released |-> TRUE]
    BY <1>1 DEF Free, MmbRecord
  <2>. QED  BY <1>1, <2>1 DEF MmbRecord
<1>2. CASE ~(m.phy_ref > 0 \/ m.map2kern)
  BY <1>2 DEF Free, AllocatorFree, NoMmb, MmbRecord
<1>. QED  BY <1>1, <1>2

(* ot_mmb_map2kern and ot_mmb_map2kern_cached.                             *)
LEMMA Map2KernFields ==
  ASSUME NEW m \in MmbRecord, NEW c \in BOOLEAN, NEW ok \in BOOLEAN, NEW n, n = Map2Kern(m, c, ok)
  PROVE  /\ n \in MmbRecord
         /\ n.live = m.live /\ n.released = m.released /\ n.phy_ref = m.phy_ref
         /\ IF ~MapConflict(m, c) /\ (m.map2kern \/ ok)
              THEN n.map_ref = m.map_ref + 1 /\ n.map2kern
              ELSE n.map_ref = m.map_ref /\ n.map2kern = m.map2kern
         /\ m.map2kern => n.cached = m.cached
<1>1. CASE MapConflict(m, c)
  BY <1>1 DEF Map2Kern, MapConflict
<1>2. CASE ~MapConflict(m, c) /\ m.map2kern
  <2>1. n = [live |-> m.live, phy_ref |-> m.phy_ref, map_ref |-> m.map_ref + 1,
             map2kern |-> m.map2kern, cached |-> m.cached, released |-> m.released]
    BY <1>2 DEF Map2Kern, MmbRecord
  <2>. QED  BY <1>2, <2>1 DEF MmbRecord
<1>3. CASE ~m.map2kern /\ ok
  <2>1. ~MapConflict(m, c)
    BY <1>3 DEF MapConflict
  <2>2. n = [m EXCEPT !.map2kern = TRUE, !.cached = c, !.map_ref = @ + 1]
    BY <1>3, <2>1 DEF Map2Kern
  <2>3. n = [live |-> m.live, phy_ref |-> m.phy_ref, map_ref |-> m.map_ref + 1,
             map2kern |-> TRUE, cached |-> c, released |-> m.released]
    BY <2>2 DEF MmbRecord
  <2>4. n \in MmbRecord
    BY <2>3 DEF MmbRecord
  <2>5. /\ n.live = m.live /\ n.released = m.released /\ n.phy_ref = m.phy_ref
        /\ n.map_ref = m.map_ref + 1 /\ n.map2kern
    BY <2>3
  <2>. QED  BY ONLY <1>3, <2>1, <2>4, <2>5, Zenon
<1>4. CASE ~m.map2kern /\ ~ok
  <2>1. ~MapConflict(m, c)
    BY <1>4 DEF MapConflict
  <2>2. n = [live |-> m.live, phy_ref |-> m.phy_ref, map_ref |-> m.map_ref,
             map2kern |-> m.map2kern, cached |-> FALSE, released |-> m.released]
    BY <1>4, <2>1 DEF Map2Kern, MmbRecord
  <2>3. n \in MmbRecord
    BY <2>2 DEF MmbRecord
  <2>4. /\ n.live = m.live /\ n.released = m.released /\ n.phy_ref = m.phy_ref
        /\ n.map_ref = m.map_ref
    BY <2>2
  <2>5. n.map2kern = m.map2kern
    BY <2>2
  <2>. QED  BY ONLY <1>4, <2>1, <2>3, <2>4, <2>5, Zenon
<1>. QED  BY <1>1, <1>2, <1>3, <1>4

(* ot_mmb_unmap of a mapped block.                                         *)
LEMMA UnmapFields ==
  ASSUME NEW m \in MmbRecord, m.map2kern
  PROVE  /\ Unmap(m) \in MmbRecord
         /\ IF m.map_ref = 1 /\ m.released /\ m.phy_ref = 0
              THEN Unmap(m) = NoMmb
              ELSE /\ Unmap(m).live = m.live /\ Unmap(m).released = m.released
                   /\ Unmap(m).phy_ref = m.phy_ref /\ Unmap(m).map_ref = m.map_ref - 1
                   /\ Unmap(m).map2kern <=> m.map_ref # 1
                   /\ m.map_ref # 1 => Unmap(m).cached = m.cached
<1>1. CASE m.map_ref # 1
  <2>1. Unmap(m) = [live |-> m.live, phy_ref |-> m.phy_ref, map_ref |-> m.map_ref - 1,
                    map2kern |-> m.map2kern, cached |-> m.cached, released |-> m.released]
    BY <1>1 DEF Unmap, MmbRecord
  <2>. QED  BY <1>1, <2>1 DEF MmbRecord
<1>2. CASE m.map_ref = 1 /\ m.released /\ m.phy_ref = 0
  BY <1>2 DEF Unmap, AllocatorFree, MmbRecord, NoMmb
<1>3. CASE m.map_ref = 1 /\ ~(m.released /\ m.phy_ref = 0)
  <2>1. Unmap(m) = [m EXCEPT !.map_ref = 0, !.map2kern = FALSE, !.cached = FALSE]
    BY <1>3 DEF Unmap
  <2>2. Unmap(m) = [live |-> m.live, phy_ref |-> m.phy_ref, map_ref |-> 0,
                    map2kern |-> FALSE, cached |-> FALSE, released |-> m.released]
    BY <2>1 DEF MmbRecord
  <2>. QED  BY <1>3, <2>2 DEF MmbRecord
<1>. QED  BY <1>1, <1>2, <1>3
-----------------------------------------------------------------------------
(* The look-ups in progress.                                               *)

LooksAt(r, b) == r.b = b /\ r.at \in {"held", "mmapping"}

\* A file's place in its call.
Place == [at : Places, b : Blocks \union {NoBlock}]

(* There are finitely many look-ups in progress.                           *)
LEMMA LookingFinite ==
  ASSUME NEW b
  PROVE  IsFiniteSet(Looking(b)) /\ Cardinality(Looking(b)) \in Nat
<1>1. Looking(b) \subseteq Files
  BY DEF Looking
<1>. QED  BY <1>1, UserdevConstants, FS_Subset, FS_CardinalityType

(* The number of look-ups of b changes only with those of the file that    *)
(* moves to another place.                                                 *)
LEMMA LookingMoves ==
  ASSUME op \in [Files -> Place], NEW f \in Files, NEW r \in Place,
         op' = [op EXCEPT ![f] = r], NEW b \in Blocks
  PROVE  /\ LooksAt(r, b) /\ ~LooksAt(op[f], b) =>
               Cardinality(Looking(b)') = Cardinality(Looking(b)) + 1
         /\ ~LooksAt(r, b) /\ LooksAt(op[f], b) =>
               Cardinality(Looking(b)') = Cardinality(Looking(b)) - 1
         /\ (LooksAt(r, b) <=> LooksAt(op[f], b)) => Looking(b)' = Looking(b)
<1>1. \A g \in Files : op'[g] = IF g = f THEN r ELSE op[g]
  OBVIOUS
<1>2. Looking(b) = {g \in Files : LooksAt(op[g], b)}
  BY DEF Looking, LooksAt
<1>3. Looking(b)' = {g \in Files : LooksAt(op'[g], b)}
  BY DEF Looking, LooksAt
<1>4. ASSUME LooksAt(r, b), ~LooksAt(op[f], b)
      PROVE  Cardinality(Looking(b)') = Cardinality(Looking(b)) + 1
  <2>1. Looking(b)' = Looking(b) \union {f} /\ f \notin Looking(b)
    BY <1>1, <1>2, <1>3, <1>4
  <2>. QED  BY <2>1, LookingFinite, FS_AddElement
<1>5. ASSUME ~LooksAt(r, b), LooksAt(op[f], b)
      PROVE  Cardinality(Looking(b)') = Cardinality(Looking(b)) - 1
  <2>1. Looking(b)' = Looking(b) \ {f} /\ f \in Looking(b)
    BY <1>1, <1>2, <1>3, <1>5
  <2>. QED  BY <2>1, LookingFinite, FS_RemoveElement
<1>6. ASSUME LooksAt(r, b) <=> LooksAt(op[f], b) PROVE Looking(b)' = Looking(b)
  BY <1>1, <1>2, <1>3, <1>6
<1>. QED  BY <1>4, <1>5, <1>6

(* A step that neither touches a block nor moves a file to or from it      *)
(* leaves it as it is.                                                     *)
LEMMA Untouched ==
  ASSUME NEW b \in Blocks, BlockOK(b),
         mmb'[b] = mmb[b], node'[b] = node[b], kmaps'[b] = kmaps[b], b \in kown' <=> b \in kown,
         Looking(b)' = Looking(b), \A f \in Files : Claims(f, b)' <=> Claims(f, b)
  PROVE  BlockOK(b)'
<1>1. RefsOK(b)'
  BY DEF BlockOK, RefsOK, NodeRefs
<1>2. OwnerOK(b)'
  BY DEF BlockOK, OwnerOK
<1>3. LifeOK(b)'
  BY DEF BlockOK, LifeOK
<1>. QED  BY <1>1, <1>2, <1>3 DEF BlockOK

(* The claims of the other files stay when f moves to another place.       *)
LEMMA ClaimsMove ==
  ASSUME op \in [Files -> Place], NEW f \in Files, NEW r \in Place,
         op' = [op EXCEPT ![f] = r], NEW b \in Blocks
  PROVE  \A g \in Files :
           Claims(g, b)' <=> IF g = f THEN r.at \in {"alloced", "freeing"} /\ r.b = b
                            ELSE Claims(g, b)
BY DEF Claims

(* A step of the call of f that touches the block b only keeps the         *)
(* invariant if it keeps it for f and for b.                               *)
LEMMA CallStep ==
  ASSUME IInv, NEW f \in Files, NEW b \in Blocks,
         NEW m \in MmbRecord, NEW n \in NodeRecord, NEW r \in Place,
         n.map_ref \in Nat, n.mmb_ref \in Nat,
         mmb' = [mmb EXCEPT ![b] = m], node' = [node EXCEPT ![b] = n],
         op' = [op EXCEPT ![f] = r], UNCHANGED <<kown, kmaps>>, opened' \in [Files -> BOOLEAN],
         op[f].at \in {"idle", "releasing"} \/ op[f].b = b,
         r.at \in {"idle", "releasing"} \/ r.b = b,
         n.owner = node[b].owner \/ node[b].owner \in {f, NoFile},
         BlockOK(b)', PlaceOK(f)'
  PROVE  IInv'
<1>1. /\ mmb \in [Blocks -> MmbRecord] /\ node \in [Blocks -> NodeRecord] /\ op \in [Files -> Place]
      /\ kmaps \in [Blocks -> Nat] /\ kown \in SUBSET Blocks
      /\ \A c \in Blocks : mmb[c].phy_ref \in Nat /\ mmb[c].map_ref \in Nat
      /\ \A c \in Blocks : node[c].map_ref \in Nat /\ node[c].mmb_ref \in Nat
  BY DEF IInv, TypeOK, Place
<1>2. \A c \in Blocks : mmb'[c] = IF c = b THEN m ELSE mmb[c]
  BY <1>1
<1>3. \A c \in Blocks : node'[c] = IF c = b THEN n ELSE node[c]
  BY <1>1
<1>4. \A g \in Files : op'[g] = IF g = f THEN r ELSE op[g]
  BY <1>1
<1>5. ASSUME NEW c \in Blocks, c # b PROVE BlockOK(c)'
  <2>1. ~LooksAt(op[f], c) /\ ~LooksAt(r, c)
    BY <1>5, UserdevConstants DEF LooksAt
  <2>2. Looking(c)' = Looking(c)
    BY <1>1, <2>1, LookingMoves
  <2>3. \A g \in Files : Claims(g, c)' <=> Claims(g, c)
    BY <1>1, <1>4, <1>5, UserdevConstants DEF Claims
  <2>4. BlockOK(c)
    BY DEF IInv
  <2>. QED  BY <1>2, <1>3, <1>5, <2>2, <2>3, <2>4, Untouched
<1>6. ASSUME NEW g \in Files, g # f PROVE PlaceOK(g)'
  <2>1. PlaceOK(g) /\ op'[g] = op[g]
    BY <1>4, <1>6 DEF IInv
  <2>2. ASSUME NEW c \in Blocks, node[c].owner = g PROVE node'[c].owner = g
    BY <1>3, <1>6, <2>2, UserdevConstants
  <2>. QED  BY <2>1, <2>2 DEF PlaceOK
<1>7. TypeOK'
  <2>1. mmb' \in [Blocks -> MmbRecord] /\ node' \in [Blocks -> NodeRecord] /\ op' \in [Files -> Place]
    BY <1>1
  <2>2. \A c \in Blocks : node'[c].map_ref \in Nat /\ node'[c].mmb_ref \in Nat
    BY <1>1, <1>3
  <2>3. mmb'[b].phy_ref \in Nat /\ mmb'[b].map_ref \in Nat
    <3>1. NodeRefs(b)' \in Nat
      BY <2>2 DEF NodeRefs
    <3>2. Cardinality(Looking(b)') \in Nat
      <4>1. Looking(b)' \subseteq Files
        BY DEF Looking
      <4>. QED  BY <4>1, UserdevConstants, FS_Subset, FS_CardinalityType
    <3>3. mmb'[b].phy_ref = NodeRefs(b)' + Cardinality(Looking(b)') /\ mmb'[b].map_ref = kmaps[b]
      BY DEF BlockOK, RefsOK
    <3>. QED  BY <1>1, <3>1, <3>2, <3>3
  <2>4. \A c \in Blocks : mmb'[c].phy_ref \in Nat /\ mmb'[c].map_ref \in Nat
    BY <1>1, <1>2, <2>3
  <2>. QED  BY <1>1, <2>1, <2>2, <2>4 DEF TypeOK, Place
<1>. QED  BY <1>5, <1>6, <1>7 DEF IInv

(* What the invariant says of the types.                                   *)
LEMMA Types ==
  ASSUME IInv
  PROVE  /\ mmb \in [Blocks -> MmbRecord] /\ node \in [Blocks -> NodeRecord]
         /\ op \in [Files -> Place] /\ opened \in [Files -> BOOLEAN]
         /\ kown \in SUBSET Blocks /\ kmaps \in [Blocks -> Nat]
         /\ \A b \in Blocks : /\ mmb[b].phy_ref \in Nat /\ mmb[b].map_ref \in Nat
                              /\ node[b].map_ref \in Nat /\ node[b].mmb_ref \in Nat
                              /\ NodeRefs(b) \in Nat /\ BlockOK(b)
         /\ \A f \in Files : PlaceOK(f) /\ f # NoFile
         /\ NoBlock \notin Blocks
BY UserdevConstants DEF IInv, TypeOK, Place, NodeRefs
-----------------------------------------------------------------------------
(* The calls, step by step.                                                *)

(* A block is allocated: its descriptor is new and the call has it.        *)
LEMMA AllocIInv ==
  ASSUME IInv, NEW f \in Files, NEW b \in Blocks, Alloc(f, b)
  PROVE  IInv'
<1>. USE DEF Alloc, Ready, UnchangedKernel
<1>. DEFINE r == At("alloced", b)
<1>0. mmb \in [Blocks -> MmbRecord] /\ node \in [Blocks -> NodeRecord] /\ op \in [Files -> Place]
  BY Types
<1>1. r \in Place /\ r.at = "alloced" /\ r.b = b
  BY DEF Place, At, Places
<1>2. mmb'[b] = RealAlloc /\ node' = [node EXCEPT ![b] = node[b]] /\ op'[f] = r
  BY <1>0
<1>3. /\ RealAlloc \in MmbRecord /\ RealAlloc.live /\ ~RealAlloc.released /\ ~RealAlloc.map2kern
      /\ RealAlloc.phy_ref = 0 /\ RealAlloc.map_ref = 0
  BY RealAllocFields
<1>4. BlockOK(b) /\ node[b] \in NodeRecord /\ node[b].map_ref \in Nat /\ node[b].mmb_ref \in Nat
  BY Types
<1>5. mmb[b].phy_ref = 0 /\ mmb[b].map_ref = 0 /\ node[b].owner = NoFile /\ b \notin kown
  BY <1>4 DEF BlockOK, OwnerOK, LifeOK
<1>6. \A g \in Files : ~Claims(g, b)
  BY <1>4 DEF BlockOK, OwnerOK
<1>7. RefsOK(b)'
  <2>1. ~LooksAt(op[f], b) /\ ~LooksAt(r, b)
    BY <1>1 DEF LooksAt
  <2>2. Looking(b)' = Looking(b)
    BY <1>0, <1>1, <2>1, LookingMoves
  <2>. QED  BY <1>2, <1>3, <1>4, <1>5, <2>2 DEF BlockOK, RefsOK, NodeRefs
<1>8. OwnerOK(b)'
  <2>1. \A g \in Files : Claims(g, b)' <=> g = f
    BY <1>0, <1>1, <1>6, ClaimsMove, ZenonT(60)
  <2>. QED  BY <1>2, <1>3, <1>5, <2>1 DEF OwnerOK
<1>9. LifeOK(b)'
  BY <1>2, <1>3 DEF LifeOK
<1>10. PlaceOK(f)'
  BY <1>1, <1>2 DEF PlaceOK
<1>. QED  BY <1>1, <1>2, <1>3, <1>4, <1>7, <1>8, <1>9, <1>10, CallStep, Types DEF BlockOK

(* The party that has the right to free a block frees it: at once, or by   *)
(* marking it released while references or kernel mappings remain.         *)
LEMMA FreeClaimIInv ==
  ASSUME IInv, NEW f \in Files, NEW b \in Blocks, Claims(f, b), NEW place \in {"idle", "releasing"},
         mmb' = [mmb EXCEPT ![b] = Free(@)], Goto(f, place), UNCHANGED <<node, opened, kown, kmaps>>
  PROVE  IInv'
<1>. DEFINE r == At(place, NoBlock)
            m == Free(mmb[b])
<1>0. /\ mmb \in [Blocks -> MmbRecord] /\ node \in [Blocks -> NodeRecord] /\ op \in [Files -> Place]
      /\ NoBlock \notin Blocks /\ mmb[b] \in MmbRecord
  BY Types
<1>1. r \in Place /\ r.at = place /\ r.b = NoBlock
  BY DEF Place, At, Places
<1>2. mmb'[b] = m /\ node' = [node EXCEPT ![b] = node[b]] /\ op' = [op EXCEPT ![f] = r] /\ op'[f] = r
  BY <1>0 DEF Goto
<1>3. BlockOK(b) /\ node[b] \in NodeRecord /\ node[b].map_ref \in Nat /\ node[b].mmb_ref \in Nat
  BY Types
<1>4. mmb[b].live /\ ~mmb[b].released /\ node[b].owner = NoFile /\ b \notin kown
  BY <1>3 DEF BlockOK, OwnerOK
<1>5. /\ m \in MmbRecord
      /\ IF mmb[b].phy_ref > 0 \/ mmb[b].map2kern
           THEN /\ m.released /\ m.live = mmb[b].live
                /\ m.phy_ref = mmb[b].phy_ref /\ m.map_ref = mmb[b].map_ref
                /\ m.map2kern = mmb[b].map2kern
           ELSE m = NoMmb
  BY <1>0, <1>4, FreeFields
<1>6. mmb[b].phy_ref \in Nat /\ mmb[b].map_ref \in Nat /\ (mmb[b].map2kern <=> mmb[b].map_ref > 0)
  BY <1>3, Types DEF BlockOK, RefsOK
<1>7. m.phy_ref = mmb[b].phy_ref /\ m.map_ref = mmb[b].map_ref /\ (m.map2kern <=> m.map_ref > 0)
  BY <1>5, <1>6 DEF NoMmb
<1>8. RefsOK(b)'
  <2>1. ~LooksAt(op[f], b) /\ ~LooksAt(r, b)
    BY <1>0, <1>1 DEF LooksAt, Claims
  <2>2. Looking(b)' = Looking(b)
    BY <1>0, <1>1, <1>2, <2>1, LookingMoves
  <2>. QED  BY <1>2, <1>3, <1>7, <2>2 DEF BlockOK, RefsOK, NodeRefs
<1>9. OwnerOK(b)'
  <2>1. \A g \in Files : ~Claims(g, b)'
    BY <1>0, <1>1, <1>2, <1>3, ClaimsMove, ZenonT(60) DEF BlockOK, OwnerOK
  <2>2. ~(m.live /\ ~m.released)
    BY <1>5 DEF NoMmb
  <2>. QED  BY <1>2, <1>4, <2>1, <2>2 DEF OwnerOK
<1>10. LifeOK(b)'
  <2>1. CASE mmb[b].phy_ref > 0 \/ mmb[b].map2kern
    BY <1>2, <1>4, <1>5, <1>6, <2>1 DEF LifeOK
  <2>2. CASE ~(mmb[b].phy_ref > 0 \/ mmb[b].map2kern)
    <3>1. m = NoMmb
      BY <1>5, <2>2
    <3>2. m.released = FALSE /\ m.phy_ref = 0 /\ m.map_ref = 0
      BY <3>1 DEF NoMmb
    <3>. QED  BY <1>2, <3>2 DEF LifeOK
  <2>. QED  BY <2>1, <2>2
<1>11. PlaceOK(f)'
  BY <1>1, <1>2 DEF PlaceOK
<1>. QED
  BY <1>1, <1>2, <1>3, <1>5, <1>8, <1>9, <1>10, <1>11, CallStep, Types DEF BlockOK, Claims

(* The node of a new block.                                                *)
LEMMA NewNodeFields ==
  ASSUME NEW f \in Files \union {NoFile}
  PROVE  /\ NewNode(f) \in NodeRecord /\ NewNode(f).owner = f
         /\ NewNode(f).map_ref = 0 /\ NewNode(f).mmb_ref = 0
BY DEF NewNode, NodeRecord

(* The new block is listed: the claim of the call passes to the node, with *)
(* the node's own reference.                                               *)
LEMMA AllocNodeIInv ==
  ASSUME IInv, NEW f \in Files, NEW b \in Blocks, Claims(f, b), AllocNode(f)
  PROVE  IInv'
<1>. DEFINE r == At("idle", NoBlock)
            m == Get(mmb[b])
            n == NewNode(f)
<1>0. /\ mmb \in [Blocks -> MmbRecord] /\ node \in [Blocks -> NodeRecord] /\ op \in [Files -> Place]
      /\ NoBlock \notin Blocks /\ f # NoFile /\ PlaceOK(f)
  BY Types
<1>1. op[f].b = b /\ op[f].at = "alloced"
  BY DEF Claims, AllocNode
<1>2. r \in Place /\ r.at = "idle" /\ r.b = NoBlock
  BY DEF Place, At, Places
<1>3. /\ mmb' = [mmb EXCEPT ![b] = m] /\ node' = [node EXCEPT ![b] = n]
      /\ op' = [op EXCEPT ![f] = r] /\ op[f].at = "alloced"
      /\ UNCHANGED <<kown, kmaps>> /\ opened' \in [Files -> BOOLEAN]
  BY <1>1, Types DEF AllocNode, UnchangedKernel, Goto
<1>4. mmb'[b] = m /\ node'[b] = n /\ op'[f] = r
  BY <1>0, <1>1, <1>3
<1>5. /\ n \in NodeRecord /\ n.owner = f /\ n.map_ref = 0 /\ n.mmb_ref = 0
  BY NewNodeFields
<1>6. BlockOK(b) /\ mmb[b] \in MmbRecord /\ mmb[b].phy_ref \in Nat
  BY <1>1, Types
<1>7. mmb[b].live /\ ~mmb[b].released /\ node[b].owner = NoFile /\ b \notin kown
  BY <1>6 DEF BlockOK, OwnerOK
<1>8. m \in MmbRecord /\ m.phy_ref = mmb[b].phy_ref + 1 /\ SameButRefs(mmb[b], m)
  BY <1>6, GetFields
<1>9. RefsOK(b)'
  <2>1. ~LooksAt(op[f], b) /\ ~LooksAt(r, b)
    BY <1>2, <1>3 DEF LooksAt
  <2>2. Looking(b)' = Looking(b)
    BY <1>0, <1>2, <1>3, <2>1, LookingMoves
  <2>3. NodeRefs(b) = 0 /\ NodeRefs(b)' = 1
    BY <1>0, <1>4, <1>5, <1>7 DEF NodeRefs
  <2>. QED  BY <1>3, <1>4, <1>6, <1>8, <2>2, <2>3, LookingFinite DEF BlockOK, RefsOK, SameButRefs
<1>10. OwnerOK(b)'
  <2>1. \A g \in Files : ~Claims(g, b)'
    <3>1. \A g \in Files : Claims(g, b) => g = f
      BY <1>6 DEF BlockOK, OwnerOK
    <3>2. \A g \in Files : Claims(g, b)' <=> IF g = f THEN r.at \in {"alloced", "freeing"} /\ r.b = b ELSE Claims(g, b)
      BY <1>0, <1>2, <1>3, ClaimsMove
    <3>. QED  BY <1>2, <3>1, <3>2
  <2>2. b \notin kown' /\ mmb'[b].live /\ ~mmb'[b].released /\ node'[b].owner # NoFile
    BY <1>0, <1>3, <1>4, <1>5, <1>7, <1>8 DEF SameButRefs
  <2>. QED  BY <2>1, <2>2 DEF OwnerOK
<1>11. LifeOK(b)'
  BY <1>4, <1>7, <1>8 DEF LifeOK, SameButRefs
<1>12. PlaceOK(f)'
  BY <1>2, <1>4 DEF PlaceOK
<1>13. BlockOK(b)'
  BY <1>9, <1>10, <1>11 DEF BlockOK
<1>14. op[f].at \in {"idle", "releasing"} \/ op[f].b = b
  BY <1>1
<1>15. n.owner = node[b].owner \/ node[b].owner \in {f, NoFile}
  BY <1>7
<1>16. n.map_ref \in Nat /\ n.mmb_ref \in Nat /\ m \in MmbRecord /\ (r.at \in {"idle", "releasing"} \/ r.b = b)
  BY <1>2, <1>5, <1>8
<1>. HIDE DEF m, n, r
<1>. QED  BY <1>2, <1>3, <1>5, <1>12, <1>13, <1>14, <1>15, <1>16, CallStep

(* The node is unlinked and its reference put: the claim passes to the     *)
(* call, and the block, not being released, survives the put.              *)
LEMMA DropNodeIInv ==
  ASSUME IInv, NEW f \in Files, NEW b \in Blocks, HasNode(f, b), node[b].mmb_ref = 0,
         op[f].at = "idle" \/ (op[f].at \in {"unmapping", "dropping"} /\ op[f].b = b),
         DropNode(f, b), UNCHANGED <<opened, kown, kmaps>>
  PROVE  IInv'
<1>. DEFINE r == At("freeing", b)
            m == Put(mmb[b])
<1>0. /\ mmb \in [Blocks -> MmbRecord] /\ node \in [Blocks -> NodeRecord] /\ op \in [Files -> Place]
      /\ NoBlock \notin Blocks /\ f # NoFile
  BY Types
<1>1. r \in Place /\ r.at = "freeing" /\ r.b = b
  BY DEF Place, At, Places
<1>2. /\ mmb' = [mmb EXCEPT ![b] = m] /\ node' = [node EXCEPT ![b] = NoNode]
      /\ op' = [op EXCEPT ![f] = r]
  BY DEF DropNode
<1>3. mmb'[b] = m /\ node'[b] = NoNode /\ op'[f] = r
  BY <1>0, <1>2
<1>4. NoNode \in NodeRecord /\ NoNode.owner = NoFile /\ NoNode.map_ref = 0 /\ NoNode.mmb_ref = 0
  BY NewNodeFields DEF NoNode
<1>5. BlockOK(b) /\ mmb[b] \in MmbRecord /\ mmb[b].phy_ref \in Nat
  BY Types
<1>6. node[b].owner = f /\ mmb[b].live /\ ~mmb[b].released /\ b \notin kown
  BY <1>0, <1>5 DEF BlockOK, OwnerOK, HasNode
<1>7. m \in MmbRecord /\ m.phy_ref = mmb[b].phy_ref - 1 /\ SameButRefs(mmb[b], m)
  BY <1>5, <1>6, PutFields
<1>8. RefsOK(b)'
  <2>1. ~LooksAt(op[f], b) /\ ~LooksAt(r, b)
    BY <1>1 DEF LooksAt
  <2>2. Looking(b)' = Looking(b)
    BY <1>0, <1>1, <1>2, <2>1, LookingMoves
  <2>3. NodeRefs(b) = 1 /\ NodeRefs(b)' = 0
    BY <1>0, <1>3, <1>4, <1>6 DEF NodeRefs
  <2>. QED  BY <1>3, <1>5, <1>7, <2>2, <2>3, LookingFinite DEF BlockOK, RefsOK, SameButRefs
<1>9. OwnerOK(b)'
  <2>1. \A g \in Files : ~Claims(g, b)
    BY <1>0, <1>5, <1>6 DEF BlockOK, OwnerOK
  <2>2. \A g \in Files : Claims(g, b)' <=> g = f
    BY <1>0, <1>1, <1>2, <2>1, ClaimsMove
  <2>. QED  BY <1>0, <1>3, <1>4, <1>6, <1>7, <2>2 DEF OwnerOK, SameButRefs
<1>10. LifeOK(b)'
  BY <1>3, <1>6, <1>7 DEF LifeOK, SameButRefs
<1>11. PlaceOK(f)'
  BY <1>1, <1>3 DEF PlaceOK
<1>. QED
  BY <1>1, <1>2, <1>4, <1>6, <1>7, <1>8, <1>9, <1>10, <1>11, CallStep, Types DEF BlockOK

(* The change of a block's look-ups when a file moves.                     *)
LookCount(r, b) == IF LooksAt(r, b) THEN 1 ELSE 0

\* The references that a step takes on b in all: from the node k to n, from
\* the place p to r.
RefChange(k, n, p, r, b) == (n.mmb_ref - k.mmb_ref) + LookCount(r, b) - LookCount(p, b)

(* A step that changes the references of a block and of its users alike,   *)
(* and neither gives nor takes the right to free it, keeps the invariant.  *)
LEMMA CountedStep ==
  ASSUME IInv, NEW f \in Files, NEW b \in Blocks,
         NEW m, NEW n \in NodeRecord, NEW r \in Place,
         n.owner = node[b].owner, n.map_ref \in Nat, n.mmb_ref \in Nat,
         n = node[b] \/ node[b].owner = f,
         mmb' = [mmb EXCEPT ![b] = m], node' = [node EXCEPT ![b] = n],
         op' = [op EXCEPT ![f] = r], UNCHANGED <<kown, kmaps>>, opened' \in [Files -> BOOLEAN],
         op[f].at \in {"idle", "releasing"} \/ op[f].b = b,
         r.at \in {"idle", "releasing"} \/ r.b = b,
         op[f].at \notin {"alloced", "freeing"}, r.at \notin {"alloced", "freeing"},
         r.at \in {"mmapping", "remapped", "unmapping", "dropping"} => n.owner = f,
         \/ RefChange(node[b], n, op[f], r, b) = 0 /\ m = mmb[b]
         \/ RefChange(node[b], n, op[f], r, b) = 1 /\ m = Get(mmb[b]) /\ mmb[b].live
         \/ RefChange(node[b], n, op[f], r, b) = -1 /\ m = Put(mmb[b])
  PROVE  IInv'
<1>. DEFINE d == RefChange(node[b], n, op[f], r, b)
<1>d. /\ d = (n.mmb_ref - node[b].mmb_ref) + LookCount(r, b) - LookCount(op[f], b)
      /\ \/ d = 0 /\ m = mmb[b]
         \/ d = 1 /\ m = Get(mmb[b]) /\ mmb[b].live
         \/ d = -1 /\ m = Put(mmb[b])
  BY DEF RefChange
<1>. HIDE DEF d
<1>0. /\ mmb \in [Blocks -> MmbRecord] /\ node \in [Blocks -> NodeRecord] /\ op \in [Files -> Place]
      /\ kmaps \in [Blocks -> Nat] /\ NoBlock \notin Blocks /\ f # NoFile
      /\ mmb[b] \in MmbRecord /\ mmb[b].phy_ref \in Nat /\ mmb[b].map_ref \in Nat
      /\ node[b].mmb_ref \in Nat /\ node[b] \in NodeRecord /\ BlockOK(b)
  BY Types
<1>1. mmb'[b] = m /\ node'[b] = n /\ op'[f] = r /\ kmaps'[b] = kmaps[b]
  BY <1>0
<1>2. NodeRefs(b)' = NodeRefs(b) + (n.mmb_ref - node[b].mmb_ref)
  <2>1. CASE n = node[b]
    BY <1>0, <1>1, <2>1 DEF NodeRefs
  <2>2. CASE node[b].owner = f
    <3>1. NodeRefs(b) = 1 + node[b].mmb_ref /\ NodeRefs(b)' = 1 + n.mmb_ref
      BY <1>0, <1>1, <2>2 DEF NodeRefs
    <3>. QED  BY <1>0, <3>1
  <2>. QED  BY <2>1, <2>2
<1>3. Cardinality(Looking(b)') = Cardinality(Looking(b)) + LookCount(r, b) - LookCount(op[f], b)
  <2>1. CASE LooksAt(r, b) /\ ~LooksAt(op[f], b)
    <3>1. Cardinality(Looking(b)') = Cardinality(Looking(b)) + 1
      BY <1>0, <2>1, LookingMoves
    <3>. QED  BY <2>1, <3>1, LookingFinite DEF LookCount
  <2>2. CASE ~LooksAt(r, b) /\ LooksAt(op[f], b)
    <3>1. Cardinality(Looking(b)') = Cardinality(Looking(b)) - 1
      BY <1>0, <2>2, LookingMoves
    <3>. QED  BY <2>2, <3>1, LookingFinite DEF LookCount
  <2>3. CASE LooksAt(r, b) <=> LooksAt(op[f], b)
    <3>1. Looking(b)' = Looking(b)
      BY <1>0, <2>3, LookingMoves
    <3>. QED  BY <2>3, <3>1, LookingFinite DEF LookCount
  <2>. QED  BY <2>1, <2>2, <2>3
<1>4. NodeRefs(b) \in Nat /\ NodeRefs(b)' \in Nat
  BY <1>0, <1>1 DEF NodeRefs
<1>5. Cardinality(Looking(b)) \in Nat /\ Cardinality(Looking(b)') \in Nat
  <2>1. Looking(b)' \subseteq Files
    BY DEF Looking
  <2>. QED  BY <2>1, LookingFinite, UserdevConstants, FS_Subset, FS_CardinalityType
<1>6. /\ mmb[b].phy_ref = NodeRefs(b) + Cardinality(Looking(b))
      /\ NodeRefs(b)' + Cardinality(Looking(b)') = mmb[b].phy_ref + d
      /\ mmb[b].phy_ref + d \in Nat
  <2>1. LookCount(r, b) \in Int /\ LookCount(op[f], b) \in Int
    BY DEF LookCount
  <2>2. mmb[b].phy_ref = NodeRefs(b) + Cardinality(Looking(b))
    BY <1>0 DEF BlockOK, RefsOK
  <2>. QED  BY <1>d, <1>0, <1>2, <1>3, <1>4, <1>5, <2>1, <2>2
<1>7. /\ m \in MmbRecord /\ m.phy_ref = mmb[b].phy_ref + d /\ m.map_ref = mmb[b].map_ref
      /\ m.map2kern = mmb[b].map2kern
  <2>1. CASE d = 0 /\ m = mmb[b]
    BY <1>0, <2>1
  <2>2. CASE d = 1 /\ m = Get(mmb[b])
    BY <1>0, <2>2, GetFields DEF SameButRefs
  <2>3. CASE d = -1 /\ m = Put(mmb[b])
    <3>1. CASE mmb[b].released /\ mmb[b].phy_ref = 1 /\ mmb[b].map_ref = 0
      <4>1. m = NoMmb /\ m \in MmbRecord
        BY <1>0, <2>3, <3>1, PutFields
      <4>2. m.phy_ref = 0 /\ m.map_ref = 0 /\ m.map2kern = FALSE
        BY <4>1 DEF NoMmb
      <4>3. mmb[b].map2kern = FALSE
        BY <1>0, <3>1 DEF BlockOK, RefsOK, MmbRecord
      <4>4. m.phy_ref = mmb[b].phy_ref + d /\ m.map_ref = mmb[b].map_ref
        BY <2>3, <3>1, <4>2
      <4>. QED  BY ONLY <4>1, <4>2, <4>3, <4>4, Zenon
    <3>2. CASE ~(mmb[b].released /\ mmb[b].phy_ref = 1 /\ mmb[b].map_ref = 0)
      BY <1>0, <2>3, <3>2, PutFields DEF SameButRefs
    <3>. QED  BY <3>1, <3>2
  <2>. QED  BY <1>d, <2>1, <2>2, <2>3
<1>8. /\ m.live /\ ~m.released <=> mmb[b].live /\ ~mmb[b].released
      /\ ~m.live => ~m.released /\ m.phy_ref = 0 /\ m.map_ref = 0
      /\ m.released => m.phy_ref > 0 \/ m.map_ref > 0
  <2>0. LifeOK(b)
    BY <1>0 DEF BlockOK
  <2>1. CASE d = 0 /\ m = mmb[b]
    BY <2>0, <2>1 DEF LifeOK
  <2>2. CASE d = 1 /\ m = Get(mmb[b]) /\ mmb[b].live
    BY <1>0, <1>7, <2>2, GetFields DEF SameButRefs
  <2>3. CASE d = -1 /\ m = Put(mmb[b])
    <3>0. mmb[b].live
      BY <1>0, <1>6, <2>0, <2>3 DEF LifeOK
    <3>1. CASE mmb[b].released /\ mmb[b].phy_ref = 1 /\ mmb[b].map_ref = 0
      <4>1. m = NoMmb
        BY <1>0, <2>3, <3>1, PutFields
      <4>2. m.live = FALSE /\ m.released = FALSE /\ m.phy_ref = 0 /\ m.map_ref = 0
        BY <4>1 DEF NoMmb
      <4>. QED  BY <3>1, <4>2
    <3>2. CASE ~(mmb[b].released /\ mmb[b].phy_ref = 1 /\ mmb[b].map_ref = 0)
      <4>1. m.live = mmb[b].live /\ m.released = mmb[b].released
        BY <1>0, <2>3, <3>2, PutFields DEF SameButRefs
      <4>2. mmb[b].released => m.phy_ref > 0 \/ m.map_ref > 0
        BY <1>0, <1>6, <1>7, <2>3, <3>2
      <4>. QED  BY <3>0, <4>1, <4>2
    <3>. QED  BY <3>1, <3>2
  <2>. QED  BY <1>d, <2>1, <2>2, <2>3
<1>9. RefsOK(b)'
  BY <1>0, <1>1, <1>6, <1>7 DEF BlockOK, RefsOK
<1>10. OwnerOK(b)'
  <2>1. \A g \in Files : Claims(g, b)' <=> Claims(g, b)
    BY <1>0, ClaimsMove DEF Claims
  <2>. QED  BY <1>0, <1>1, <1>8, <2>1 DEF BlockOK, OwnerOK
<1>11. LifeOK(b)'
  BY <1>1, <1>8 DEF LifeOK
<1>12. PlaceOK(f)'
  BY <1>1 DEF PlaceOK
<1>13. BlockOK(b)'
  BY <1>9, <1>10, <1>11 DEF BlockOK
<1>. QED  BY <1>7, <1>12, <1>13, CallStep

(* The places of a call.                                                   *)
LEMMA AtFields ==
  ASSUME NEW place \in Places, NEW b \in Blocks \union {NoBlock}
  PROVE  At(place, b) \in Place /\ At(place, b).at = place /\ At(place, b).b = b
BY DEF At, Place


(* One more counted mapping of a node.                                     *)
LEMMA CountOneFields ==
  ASSUME NEW k \in NodeRecord, NEW n, n = CountOneMapping(k)
  PROVE  /\ n \in NodeRecord /\ n.owner = k.owner
         /\ n.map_ref = k.map_ref + 1 /\ n.mmb_ref = k.mmb_ref + 1
<1>1. n = [owner |-> k.owner, mapped |-> TRUE, map_cached |-> k.map_cached,
           delayed_free |-> k.delayed_free, map_ref |-> k.map_ref + 1, mmb_ref |-> k.mmb_ref + 1]
  BY DEF CountOneMapping, NodeRecord
<1>2. n \in NodeRecord
  BY <1>1 DEF NodeRecord
<1>. QED  BY <1>1, <1>2

(* One counted mapping of a node fewer.                                    *)
LEMMA UncountOneFields ==
  ASSUME NEW k \in NodeRecord, NEW n, n = UncountMapping(k)
  PROVE  /\ n \in NodeRecord /\ n.owner = k.owner
         /\ n.map_ref = k.map_ref - 1 /\ n.mmb_ref = k.mmb_ref - 1
<1>1. n = [owner |-> k.owner, mapped |-> k.mapped, map_cached |-> k.map_cached,
           delayed_free |-> k.delayed_free, map_ref |-> k.map_ref - 1, mmb_ref |-> k.mmb_ref - 1]
  BY DEF UncountMapping, NodeRecord
<1>2. n \in NodeRecord
  BY <1>1 DEF NodeRecord
<1>. QED  BY <1>1, <1>2

(* The put of release: one reference fewer, the mapping count stays.       *)
LEMMA PutRefFields ==
  ASSUME NEW k \in NodeRecord, NEW n, n = [k EXCEPT !.mmb_ref = @ - 1]
  PROVE  /\ n \in NodeRecord /\ n.owner = k.owner
         /\ n.map_ref = k.map_ref /\ n.mmb_ref = k.mmb_ref - 1
<1>1. n = [owner |-> k.owner, mapped |-> k.mapped, map_cached |-> k.map_cached,
           delayed_free |-> k.delayed_free, map_ref |-> k.map_ref, mmb_ref |-> k.mmb_ref - 1]
  BY DEF NodeRecord
<1>2. n \in NodeRecord
  BY <1>1 DEF NodeRecord
<1>. QED  BY <1>1, <1>2

(* The marks of a node: its owner and its counts stay.                     *)
LEMMA MarkFields ==
  ASSUME NEW k \in NodeRecord, NEW c \in BOOLEAN, NEW n,
         \/ n = [k EXCEPT !.map_cached = c]
         \/ n = [k EXCEPT !.mapped = FALSE]
         \/ n = [k EXCEPT !.delayed_free = TRUE]
  PROVE  /\ n \in NodeRecord /\ n.owner = k.owner
         /\ n.map_ref = k.map_ref /\ n.mmb_ref = k.mmb_ref
<1>1. CASE n = [k EXCEPT !.map_cached = c]
  <2>1. n = [owner |-> k.owner, mapped |-> k.mapped, map_cached |-> c,
             delayed_free |-> k.delayed_free, map_ref |-> k.map_ref, mmb_ref |-> k.mmb_ref]
    BY <1>1 DEF NodeRecord
  <2>2. n \in NodeRecord
    BY <2>1 DEF NodeRecord
  <2>. QED  BY <2>1, <2>2
<1>2. CASE n = [k EXCEPT !.mapped = FALSE]
  <2>1. n = [owner |-> k.owner, mapped |-> FALSE, map_cached |-> k.map_cached,
             delayed_free |-> k.delayed_free, map_ref |-> k.map_ref, mmb_ref |-> k.mmb_ref]
    BY <1>2 DEF NodeRecord
  <2>2. n \in NodeRecord
    BY <2>1 DEF NodeRecord
  <2>. QED  BY <2>1, <2>2
<1>3. CASE n = [k EXCEPT !.delayed_free = TRUE]
  <2>1. n = [owner |-> k.owner, mapped |-> k.mapped, map_cached |-> k.map_cached,
             delayed_free |-> TRUE, map_ref |-> k.map_ref, mmb_ref |-> k.mmb_ref]
    BY <1>3 DEF NodeRecord
  <2>2. n \in NodeRecord
    BY <2>1 DEF NodeRecord
  <2>. QED  BY <2>1, <2>2
<1>. QED  BY <1>1, <1>2, <1>3

(* A file whose node a block is on the list of is a live block.            *)
LEMMA ListedIsLive ==
  ASSUME IInv, NEW f \in Files, NEW b \in Blocks, node[b].owner = f
  PROVE  mmb[b].live /\ ~mmb[b].released
BY Types DEF BlockOK, OwnerOK

(* A user mapping of a mapped block is counted once more.                  *)
LEMMA RemapAgainIInv ==
  ASSUME IInv, NEW f \in Files, NEW b \in Blocks, NEW cached \in BOOLEAN, RemapAgain(f, b, cached)
  PROVE  IInv'
<1>. DEFINE n == CountOneMapping(node[b])
<1>1. /\ node[b].owner = f /\ op[f].at = "idle" /\ node' = [node EXCEPT ![b] = n]
      /\ mmb' = [mmb EXCEPT ![b] = Get(mmb[b])] /\ UNCHANGED <<kown, kmaps>>
      /\ op' = op /\ opened' = opened
  BY DEF RemapAgain, Ready, HasNode, UnchangedKernel
<1>2. node[b] \in NodeRecord /\ node[b].map_ref \in Nat /\ node[b].mmb_ref \in Nat
  BY Types
<1>3. /\ n \in NodeRecord /\ n.owner = node[b].owner
      /\ n.map_ref = node[b].map_ref + 1 /\ n.mmb_ref = node[b].mmb_ref + 1
  BY <1>2, CountOneFields
<1>. HIDE DEF n
<1>4. op[f] \in Place /\ op' = [op EXCEPT ![f] = op[f]] /\ opened' \in [Files -> BOOLEAN]
  BY <1>1, Types
<1>5. mmb[b].live
  BY <1>1, ListedIsLive
<1>6. RefChange(node[b], n, op[f], op[f], b) = 1
  BY <1>2, <1>3 DEF LookCount, RefChange
<1>7. n.map_ref \in Nat /\ n.mmb_ref \in Nat
  BY <1>2, <1>3
<1>. QED  BY <1>1, <1>3, <1>4, <1>5, <1>6, <1>7, CountedStep

\* The call of f stands at a place that concerns b.
IsAt(f, place, b) == op[f].at = place /\ op[f].b = b

(* A remap of a block without a counted mapping looks the block up.        *)
LEMMA RemapIInv ==
  ASSUME IInv, NEW f \in Files, NEW b \in Blocks, NEW cached \in BOOLEAN, Remap(f, b, cached)
  PROVE  IInv'
<1>. DEFINE n == [node[b] EXCEPT !.map_cached = cached]
            r == At("mmapping", b)
<1>1. /\ node[b].owner = f /\ op[f].at = "idle" /\ node' = [node EXCEPT ![b] = n]
      /\ mmb' = [mmb EXCEPT ![b] = Get(mmb[b])] /\ op' = [op EXCEPT ![f] = r]
      /\ UNCHANGED <<kown, kmaps>> /\ opened' = opened
  BY DEF Remap, Ready, HasNode, UnchangedKernel
<1>2. node[b] \in NodeRecord /\ node[b].map_ref \in Nat /\ node[b].mmb_ref \in Nat
  BY Types
<1>3. /\ n \in NodeRecord /\ n.owner = node[b].owner
      /\ n.map_ref = node[b].map_ref /\ n.mmb_ref = node[b].mmb_ref
  BY <1>2, MarkFields
<1>4. r \in Place /\ r.at = "mmapping" /\ r.b = b
  BY AtFields DEF Places
<1>. HIDE DEF n, r
<1>5. opened' \in [Files -> BOOLEAN]
  BY <1>1, Types
<1>6. mmb[b].live
  BY <1>1, ListedIsLive
<1>7. RefChange(node[b], n, op[f], r, b) = 1
  BY <1>1, <1>2, <1>3, <1>4 DEF RefChange, LookCount, LooksAt
<1>8. n.map_ref \in Nat /\ n.mmb_ref \in Nat
  BY <1>2, <1>3
<1>. QED  BY <1>1, <1>3, <1>4, <1>5, <1>6, <1>7, <1>8, CountedStep

(* The mmap handler puts the reference of its look-up.                     *)
LEMMA RemapMmapIInv ==
  ASSUME IInv, NEW f \in Files, NEW b \in Blocks, IsAt(f, "mmapping", b), RemapMmap(f)
  PROVE  IInv'
<1>0. PICK r \in {At("remapped", b), At("idle", NoBlock)} : op' = [op EXCEPT ![f] = r]
  BY DEF RemapMmap, IsAt, Goto
<1>1. /\ mmb' = [mmb EXCEPT ![b] = Put(mmb[b])] /\ node' = node /\ UNCHANGED <<kown, kmaps>> /\ opened' = opened
  BY DEF RemapMmap, IsAt, UnchangedKernel
<1>2. r \in Place /\ (r.at = "idle" \/ (r.at = "remapped" /\ r.b = b))
  BY <1>0, AtFields DEF Places
<1>3. op[f].at = "mmapping" /\ (op[f].at \in {"idle", "releasing"} \/ op[f].b = b) /\ LooksAt(op[f], b)
  BY DEF IsAt, LooksAt
<1>4. node[b].owner = f
  BY Types DEF IsAt, PlaceOK
<1>5. /\ node[b] \in NodeRecord /\ node[b].map_ref \in Nat /\ node[b].mmb_ref \in Nat
      /\ node' = [node EXCEPT ![b] = node[b]] /\ opened' \in [Files -> BOOLEAN]
  BY <1>1, Types
<1>6. RefChange(node[b], node[b], op[f], r, b) = -1
  BY <1>2, <1>3, <1>5 DEF RefChange, LookCount, LooksAt
<1>7. /\ r.at \in {"idle", "releasing"} \/ r.b = b
      /\ r.at \notin {"alloced", "freeing"} /\ op[f].at \notin {"alloced", "freeing"}
      /\ op[f].at \in {"idle", "releasing"} \/ op[f].b = b
      /\ r \in Place /\ op' = [op EXCEPT ![f] = r]
      /\ r.at \in {"mmapping", "remapped", "unmapping", "dropping"} => node[b].owner = f
  BY <1>0, <1>2, <1>3, <1>4
<1>. QED  BY <1>1, <1>5, <1>6, <1>7, CountedStep

(* The mapping is counted, with its reference.                             *)
LEMMA RemapCountIInv ==
  ASSUME IInv, NEW f \in Files, NEW b \in Blocks, IsAt(f, "remapped", b), RemapCount(f)
  PROVE  IInv'
<1>. DEFINE n == CountOneMapping(node[b])
            r == At("idle", NoBlock)
<1>1. /\ node' = [node EXCEPT ![b] = n] /\ mmb' = [mmb EXCEPT ![b] = Get(mmb[b])]
      /\ op' = [op EXCEPT ![f] = r] /\ UNCHANGED <<kown, kmaps>> /\ opened' = opened
  BY DEF RemapCount, IsAt, UnchangedKernel, Goto
<1>2. op[f].at = "remapped" /\ (op[f].at \in {"idle", "releasing"} \/ op[f].b = b)
  BY DEF IsAt
<1>3. node[b].owner = f
  BY Types DEF IsAt, PlaceOK
<1>4. node[b] \in NodeRecord /\ node[b].map_ref \in Nat /\ node[b].mmb_ref \in Nat
  BY Types
<1>5. /\ n \in NodeRecord /\ n.owner = node[b].owner
      /\ n.map_ref = node[b].map_ref + 1 /\ n.mmb_ref = node[b].mmb_ref + 1
  BY <1>4, CountOneFields
<1>6. r \in Place /\ r.at = "idle"
  BY AtFields DEF Places
<1>. HIDE DEF n, r
<1>7. opened' \in [Files -> BOOLEAN] /\ mmb[b].live
  BY <1>1, <1>3, ListedIsLive, Types
<1>8. RefChange(node[b], n, op[f], r, b) = 1
  BY <1>2, <1>4, <1>5, <1>6 DEF RefChange, LookCount, LooksAt
<1>9. n.map_ref \in Nat /\ n.mmb_ref \in Nat
  BY <1>4, <1>5
<1>. QED  BY <1>1, <1>2, <1>3, <1>5, <1>6, <1>7, <1>8, <1>9, CountedStep

(* An unmap takes one counted mapping and its reference away.              *)
LEMMA UnremapIInv ==
  ASSUME IInv, NEW f \in Files, NEW b \in Blocks, Unremap(f, b)
  PROVE  IInv'
<1>. DEFINE n == UncountMapping(node[b])
<1>0. PICK r \in {op[f], At("unmapping", b)} : op' = [op EXCEPT ![f] = r]
  BY Types DEF Unremap
<1>1. /\ node' = [node EXCEPT ![b] = n] /\ mmb' = [mmb EXCEPT ![b] = Put(mmb[b])]
      /\ UNCHANGED <<kown, kmaps>> /\ opened' = opened /\ node[b].owner = f /\ op[f].at = "idle"
      /\ node[b].map_ref > 0 /\ node[b].mmb_ref > 0
  BY DEF Unremap, UnchangedKernel, HasNode, Ready
<1>2. node[b] \in NodeRecord /\ node[b].map_ref \in Nat /\ node[b].mmb_ref \in Nat /\ op[f] \in Place
  BY Types
<1>3. /\ n \in NodeRecord /\ n.owner = node[b].owner
      /\ n.map_ref = node[b].map_ref - 1 /\ n.mmb_ref = node[b].mmb_ref - 1
  BY <1>2, UncountOneFields
<1>. HIDE DEF n
<1>4. r \in Place /\ (r.at = "idle" \/ (r.at = "unmapping" /\ r.b = b))
  BY <1>0, <1>1, <1>2, AtFields DEF Places
<1>5. opened' \in [Files -> BOOLEAN]
  BY <1>1, Types
<1>6. RefChange(node[b], n, op[f], r, b) = -1
  BY <1>1, <1>2, <1>3, <1>4 DEF RefChange, LookCount, LooksAt
<1>7. n.map_ref \in Nat /\ n.mmb_ref \in Nat
  BY <1>1, <1>2, <1>3
<1>. QED  BY <1>0, <1>1, <1>3, <1>4, <1>5, <1>6, <1>7, CountedStep

(* A step of a call that changes no reference and at most the marks of a   *)
(* node of its file.                                                       *)
LEMMA QuietStep ==
  ASSUME IInv, NEW f \in Files, NEW b \in Blocks, NEW n \in NodeRecord, NEW r \in Place,
         n = node[b] \/ node[b].owner = f,
         n.owner = node[b].owner, n.map_ref = node[b].map_ref, n.mmb_ref = node[b].mmb_ref,
         node' = [node EXCEPT ![b] = n], op' = [op EXCEPT ![f] = r],
         mmb' = mmb, opened' = opened, UNCHANGED <<kown, kmaps>>,
         op[f].at \in {"idle", "releasing"} \/ IsAt(f, "unmapping", b),
         r.at \in {"idle", "releasing"} \/ (r.at = "dropping" /\ r.b = b /\ node[b].owner = f)
  PROVE  IInv'
<1>1. /\ node[b].map_ref \in Nat /\ node[b].mmb_ref \in Nat /\ opened' \in [Files -> BOOLEAN]
      /\ mmb' = [mmb EXCEPT ![b] = mmb[b]]
  BY Types
<1>2. /\ op[f].at \in {"idle", "releasing"} \/ op[f].b = b
      /\ op[f].at \in {"idle", "releasing", "unmapping"}
  BY DEF IsAt
<1>3. RefChange(node[b], n, op[f], r, b) = 0
  BY <1>1, <1>2 DEF RefChange, LookCount, LooksAt
<1>. QED  BY <1>1, <1>2, <1>3, CountedStep

(* A free of a mapped block only marks its node.                           *)
LEMMA FreeDelayedIInv ==
  ASSUME IInv, NEW f \in Files, NEW b \in Blocks, FreeDelayed(f, b)
  PROVE  IInv'
<1>. DEFINE n == [node[b] EXCEPT !.delayed_free = TRUE]
<1>1. /\ node' = [node EXCEPT ![b] = n] /\ node[b].owner = f /\ op[f].at = "idle"
      /\ op' = op /\ mmb' = mmb /\ opened' = opened /\ UNCHANGED <<kown, kmaps>>
  BY DEF FreeDelayed, UnchangedKernel, HasNode, Ready
<1>2. node[b] \in NodeRecord /\ op[f] \in Place /\ op' = [op EXCEPT ![f] = op[f]]
  BY <1>1, Types
<1>3. n \in NodeRecord /\ n.owner = node[b].owner /\ n.map_ref = node[b].map_ref /\ n.mmb_ref = node[b].mmb_ref
  BY <1>2, MarkFields
<1>. HIDE DEF n
<1>. QED  BY <1>1, <1>2, <1>3, QuietStep

(* A failed flush only ends the call.                                      *)
LEMMA UnmapFlushFailsIInv ==
  ASSUME IInv, NEW f \in Files, NEW b \in Blocks, IsAt(f, "unmapping", b), UnmapFlushFails(f)
  PROVE  IInv'
<1>. DEFINE r == At("idle", NoBlock)
<1>1. /\ op' = [op EXCEPT ![f] = r] /\ node' = node /\ mmb' = mmb /\ opened' = opened
      /\ UNCHANGED <<kown, kmaps>>
  BY DEF UnmapFlushFails, UnchangedKernel, Goto
<1>2. r \in Place /\ r.at = "idle"
  BY AtFields DEF Places
<1>3. node[b] \in NodeRecord /\ node' = [node EXCEPT ![b] = node[b]]
  BY <1>1, Types
<1>. HIDE DEF r
<1>. QED  BY <1>1, <1>2, <1>3, QuietStep

(* The end of an unmap, and the delayed free when one is due.              *)
LEMMA UnmapPagesIInv ==
  ASSUME IInv, NEW f \in Files, NEW b \in Blocks, IsAt(f, "unmapping", b), UnmapPages(f)
  PROVE  IInv'
<1>. DEFINE r == At("idle", NoBlock)
            n == [node[b] EXCEPT !.mapped = FALSE]
<1>0. UNCHANGED <<kown, kmaps>> /\ opened' = opened /\ op[f].b = b /\ op[f].at = "unmapping"
  BY DEF UnmapPages, UnchangedKernel, IsAt
<1>1. node[b].owner = f
  BY Types DEF IsAt, PlaceOK
<1>2. CASE node[b].mmb_ref = 0 /\ DropNode(f, b)
  BY <1>0, <1>1, <1>2, DropNodeIInv DEF HasNode
<1>3. CASE /\ node' = [node EXCEPT ![b] = n] \/ node' = node
           /\ op' = [op EXCEPT ![f] = r] /\ mmb' = mmb
  <2>1. r \in Place /\ r.at = "idle"
    BY AtFields DEF Places
  <2>2. node[b] \in NodeRecord
    BY Types
  <2>3. n \in NodeRecord /\ n.owner = node[b].owner /\ n.map_ref = node[b].map_ref /\ n.mmb_ref = node[b].mmb_ref
    BY <2>2, MarkFields
  <2>4. node' = [node EXCEPT ![b] = n] \/ node' = [node EXCEPT ![b] = node[b]]
    BY <1>3, Types
  <2>5. op' = [op EXCEPT ![f] = r] /\ mmb' = mmb /\ opened' = opened /\ UNCHANGED <<kown, kmaps>>
    BY <1>0, <1>3
  <2>. HIDE DEF r, n
  <2>. QED  BY <1>1, <2>1, <2>2, <2>3, <2>4, <2>5, QuietStep, ZenonT(60)
<1>. QED  BY <1>0, <1>2, <1>3 DEF UnmapPages, Goto

(* A call that looks a block up takes a reference ...                      *)
LEMMA LookUpIInv ==
  ASSUME IInv, NEW f \in Files, NEW b \in Blocks, LookUp(f, b)
  PROVE  IInv'
<1>. DEFINE r == At("held", b)
<1>1. /\ mmb' = [mmb EXCEPT ![b] = Get(mmb[b])] /\ mmb[b].live /\ op[f].at = "idle"
      /\ op' = [op EXCEPT ![f] = r] /\ node' = node /\ opened' = opened /\ UNCHANGED <<kown, kmaps>>
  BY DEF LookUp, Ready, UnchangedKernel
<1>2. r \in Place /\ r.at = "held" /\ r.b = b
  BY AtFields DEF Places
<1>. HIDE DEF r
<1>3. /\ node[b] \in NodeRecord /\ node[b].map_ref \in Nat /\ node[b].mmb_ref \in Nat
      /\ node' = [node EXCEPT ![b] = node[b]] /\ opened' \in [Files -> BOOLEAN]
  BY <1>1, Types
<1>4. RefChange(node[b], node[b], op[f], r, b) = 1
  BY <1>1, <1>2, <1>3 DEF RefChange, LookCount, LooksAt
<1>. QED  BY <1>1, <1>2, <1>3, <1>4, CountedStep

(* ... and puts it before it returns.                                      *)
LEMMA PutLookedUpIInv ==
  ASSUME IInv, NEW f \in Files, NEW b \in Blocks, IsAt(f, "held", b), PutLookedUp(f)
  PROVE  IInv'
<1>. DEFINE r == At("idle", NoBlock)
<1>1. /\ mmb' = [mmb EXCEPT ![b] = Put(mmb[b])] /\ op' = [op EXCEPT ![f] = r]
      /\ node' = node /\ opened' = opened /\ UNCHANGED <<kown, kmaps>>
  BY DEF PutLookedUp, UnchangedKernel, IsAt, Goto
<1>2. r \in Place /\ r.at = "idle"
  BY AtFields DEF Places
<1>. HIDE DEF r
<1>3. LooksAt(op[f], b) /\ op[f].at = "held" /\ (op[f].at \in {"idle", "releasing"} \/ op[f].b = b)
  BY DEF IsAt, LooksAt
<1>4. /\ node[b] \in NodeRecord /\ node[b].map_ref \in Nat /\ node[b].mmb_ref \in Nat
      /\ node' = [node EXCEPT ![b] = node[b]] /\ opened' \in [Files -> BOOLEAN]
  BY <1>1, Types
<1>5. RefChange(node[b], node[b], op[f], r, b) = -1
  BY <1>2, <1>3, <1>4 DEF RefChange, LookCount, LooksAt
<1>. QED  BY <1>1, <1>2, <1>3, <1>4, <1>5, CountedStep

(* Release puts one reference for every mapping the node still counts.     *)
LEMMA ReleasePutIInv ==
  ASSUME IInv, NEW f \in Files, NEW b \in Blocks, IsAt(f, "dropping", b), ReleasePut(f)
  PROVE  IInv'
<1>. DEFINE n == [node[b] EXCEPT !.mmb_ref = @ - 1]
<1>1. /\ mmb' = [mmb EXCEPT ![b] = Put(mmb[b])] /\ node' = [node EXCEPT ![b] = n]
      /\ node[b].mmb_ref > 0 /\ op' = op /\ opened' = opened /\ UNCHANGED <<kown, kmaps>>
  BY DEF ReleasePut, UnchangedKernel, IsAt
<1>2. op[f].at = "dropping" /\ (op[f].at \in {"idle", "releasing"} \/ op[f].b = b)
  BY DEF IsAt
<1>3. node[b].owner = f
  BY Types DEF IsAt, PlaceOK
<1>4. /\ node[b] \in NodeRecord /\ node[b].map_ref \in Nat /\ node[b].mmb_ref \in Nat
      /\ op[f] \in Place /\ op' = [op EXCEPT ![f] = op[f]] /\ opened' \in [Files -> BOOLEAN]
  BY <1>1, Types
<1>5. n \in NodeRecord /\ n.owner = node[b].owner /\ n.map_ref = node[b].map_ref /\ n.mmb_ref = node[b].mmb_ref - 1
  BY <1>4, PutRefFields
<1>. HIDE DEF n
<1>6. RefChange(node[b], n, op[f], op[f], b) = -1
  BY <1>4, <1>5 DEF RefChange, LookCount
<1>7. n.map_ref \in Nat /\ n.mmb_ref \in Nat
  BY <1>1, <1>4, <1>5
<1>. QED  BY <1>1, <1>2, <1>3, <1>4, <1>5, <1>6, <1>7, CountedStep

(* Release drops a node that counts no mapping any more.                   *)
LEMMA ReleaseDropIInv ==
  ASSUME IInv, NEW f \in Files, NEW b \in Blocks, IsAt(f, "dropping", b), ReleaseDrop(f)
  PROVE  IInv'
<1>1. /\ op[f].b = b /\ op[f].at = "dropping" /\ DropNode(f, b) /\ ~(node[b].mmb_ref > 0)
      /\ UNCHANGED <<opened, kown, kmaps>>
  BY DEF ReleaseDrop, UnchangedKernel, IsAt
<1>2. node[b].owner = f /\ node[b].mmb_ref \in Nat
  BY Types DEF IsAt, PlaceOK
<1>. QED  BY <1>1, <1>2, DropNodeIInv DEF HasNode

(* An unmapped block is freed.                                             *)
LEMMA FreeNowIInv ==
  ASSUME IInv, NEW f \in Files, NEW b \in Blocks, FreeNow(f, b)
  PROVE  IInv'
<1>1. /\ op[f].at = "idle" /\ DropNode(f, b) /\ ~(node[b].mmb_ref > 0) /\ HasNode(f, b)
      /\ UNCHANGED <<opened, kown, kmaps>>
  BY DEF FreeNow, UnchangedKernel, Ready
<1>2. node[b].mmb_ref \in Nat
  BY Types
<1>. QED  BY <1>1, <1>2, DropNodeIInv

(* A file that is opened or closed, between two calls.                     *)
LEMMA QuietMove ==
  ASSUME IInv, NEW f \in Files, NEW r \in Place, op' = [op EXCEPT ![f] = r],
         opened' \in [Files -> BOOLEAN], UNCHANGED <<mmb, node, kown, kmaps>>,
         op[f].at \in {"idle", "releasing"}, r.at \in {"idle", "releasing"}
  PROVE  IInv'
<1>0. op \in [Files -> Place] /\ mmb' = mmb /\ node' = node /\ kown' = kown /\ kmaps' = kmaps
  BY Types
<1>1. ASSUME NEW b \in Blocks PROVE BlockOK(b)'
  <2>1. Looking(b)' = Looking(b)
    BY <1>0, LookingMoves DEF LooksAt
  <2>2. \A g \in Files : Claims(g, b)' <=> Claims(g, b)
    BY <1>0, ClaimsMove DEF Claims
  <2>. QED  BY <1>0, <2>1, <2>2, Types, Untouched
<1>2. ASSUME NEW g \in Files PROVE PlaceOK(g)'
  <2>1. op'[g] = IF g = f THEN r ELSE op[g]
    BY <1>0
  <2>. QED  BY <1>0, <2>1, Types DEF PlaceOK
<1>3. TypeOK'
  <2>1. op' \in [Files -> Place]
    BY <1>0
  <2>. QED  BY <1>0, <2>1 DEF IInv, TypeOK, Place
<1>. QED  BY <1>1, <1>2, <1>3 DEF IInv

(* The device is opened.                                                   *)
LEMMA OpenIInv ==
  ASSUME IInv, NEW f \in Files, Open(f)
  PROVE  IInv'
<1>1. /\ op[f].at = "idle" /\ op' = op /\ opened' = [opened EXCEPT ![f] = TRUE]
      /\ UNCHANGED <<mmb, node, kown, kmaps>>
  BY DEF Open, UnchangedKernel
<1>2. op[f] \in Place /\ op' = [op EXCEPT ![f] = op[f]] /\ opened' \in [Files -> BOOLEAN]
  BY <1>1, Types
<1>. QED  BY <1>1, <1>2, QuietMove

(* Release starts, and ends when the list of the file is empty.            *)
LEMMA ReleaseIInv ==
  ASSUME IInv, NEW f \in Files, Release(f) \/ ReleaseEnds(f)
  PROVE  IInv'
<1>1. PICK place \in {"idle", "releasing"} : op' = [op EXCEPT ![f] = At(place, NoBlock)]
  BY DEF Release, ReleaseEnds, Goto
<1>2. op[f].at \in {"idle", "releasing"} /\ UNCHANGED <<mmb, node, kown, kmaps>>
  BY DEF Release, ReleaseEnds, Ready, UnchangedKernel
<1>3. opened' \in [Files -> BOOLEAN]
  BY Types DEF Release, ReleaseEnds
<1>4. At(place, NoBlock) \in Place /\ At(place, NoBlock).at \in {"idle", "releasing"}
  BY AtFields DEF Places
<1>. QED  BY <1>1, <1>2, <1>3, <1>4, QuietMove

(* Release goes on to the next node of the file's list.                    *)
LEMMA ReleaseNodeIInv ==
  ASSUME IInv, NEW f \in Files, ReleaseNode(f)
  PROVE  IInv'
<1>1. PICK b \in Blocks : node[b].owner = f /\ op' = [op EXCEPT ![f] = At("dropping", b)]
  BY DEF ReleaseNode, HasNode
<1>2. op[f].at = "releasing" /\ mmb' = mmb /\ node' = node /\ opened' = opened /\ UNCHANGED <<kown, kmaps>>
  BY DEF ReleaseNode, UnchangedKernel
<1>3. At("dropping", b) \in Place /\ At("dropping", b).at = "dropping" /\ At("dropping", b).b = b
  BY AtFields DEF Places
<1>4. node[b] \in NodeRecord /\ node' = [node EXCEPT ![b] = node[b]]
  BY <1>2, Types
<1>. QED  BY <1>1, <1>2, <1>3, <1>4, QuietStep, ZenonT(60)

(* A call frees the block it has the right to free.                        *)
LEMMA FreeBlockIInv ==
  ASSUME IInv, NEW f \in Files, NEW b \in Blocks,
         \/ IsAt(f, "alloced", b) /\ AllocNodeFails(f)
         \/ IsAt(f, "freeing", b) /\ FreeBlock(f)
  PROVE  IInv'
<1>1. Claims(f, b)
  BY DEF IsAt, Claims
<1>2. PICK place \in {"idle", "releasing"} : Goto(f, place)
  BY DEF AllocNodeFails, FreeBlock
<1>3. mmb' = [mmb EXCEPT ![b] = Free(mmb[b])] /\ UNCHANGED <<node, opened, kown, kmaps>>
  BY DEF AllocNodeFails, FreeBlock, IsAt, UnchangedKernel
<1>. QED  BY <1>1, <1>2, <1>3, FreeClaimIInv
-----------------------------------------------------------------------------
(* The kernel modules.                                                     *)

(* A step of a kernel module touches one block.                            *)
LEMMA KernelOnly ==
  ASSUME IInv, NEW b \in Blocks, NEW m \in MmbRecord, NEW k \in Nat,
         m.phy_ref \in Nat, m.map_ref \in Nat,
         mmb' = [mmb EXCEPT ![b] = m], kmaps' = [kmaps EXCEPT ![b] = k],
         kown' \in SUBSET Blocks, \A c \in Blocks : c # b => (c \in kown' <=> c \in kown),
         UNCHANGED <<node, opened, op>>, BlockOK(b)'
  PROVE  IInv'
<1>0. /\ mmb \in [Blocks -> MmbRecord] /\ kmaps \in [Blocks -> Nat]
      /\ node' = node /\ opened' = opened /\ op' = op
  BY Types
<1>1. ASSUME NEW c \in Blocks, c # b PROVE BlockOK(c)'
  <2>1. Looking(c)' = Looking(c)
    BY <1>0 DEF Looking
  <2>2. \A g \in Files : Claims(g, c)' <=> Claims(g, c)
    BY <1>0 DEF Claims
  <2>3. mmb'[c] = mmb[c] /\ kmaps'[c] = kmaps[c] /\ node'[c] = node[c]
    BY <1>0, <1>1
  <2>. QED  BY <1>1, <2>1, <2>2, <2>3, Types, Untouched
<1>2. ASSUME NEW g \in Files PROVE PlaceOK(g)'
  BY <1>0, Types DEF PlaceOK
<1>3. TypeOK'
  <2>1. mmb' \in [Blocks -> MmbRecord] /\ kmaps' \in [Blocks -> Nat]
    BY <1>0
  <2>2. \A c \in Blocks : mmb'[c].phy_ref \in Nat /\ mmb'[c].map_ref \in Nat
    <3>1. \A c \in Blocks : mmb'[c] = IF c = b THEN m ELSE mmb[c]
      BY <1>0
    <3>. QED  BY <3>1, Types
  <2>. QED  BY <1>0, <2>1, <2>2 DEF IInv, TypeOK
<1>. QED  BY <1>1, <1>2, <1>3 DEF IInv

(* What the other parties see of b in a step of a kernel module.           *)
LEMMA KernelSees ==
  ASSUME UNCHANGED <<node, opened, op>>, NEW b \in Blocks
  PROVE  /\ NodeRefs(b)' = NodeRefs(b) /\ Looking(b)' = Looking(b) /\ node'[b] = node[b]
         /\ \A g \in Files : Claims(g, b)' <=> Claims(g, b)
BY DEF NodeRefs, Looking, Claims

(* A kernel module allocates a block.                                      *)
LEMMA KernelAllocIInv ==
  ASSUME IInv, NEW b \in Blocks, KernelAlloc(b)
  PROVE  IInv'
<1>1. /\ ~mmb[b].live /\ mmb' = [mmb EXCEPT ![b] = RealAlloc] /\ kown' = kown \union {b}
      /\ kmaps' = kmaps /\ UNCHANGED <<node, opened, op>>
  BY DEF KernelAlloc
<1>2. mmb'[b] = RealAlloc /\ kmaps' = [kmaps EXCEPT ![b] = kmaps[b]] /\ kmaps[b] \in Nat
  BY <1>1, Types
<1>3. /\ BlockOK(b) /\ mmb[b].phy_ref = 0 /\ mmb[b].map_ref = 0 /\ node[b].owner = NoFile
      /\ \A g \in Files : ~Claims(g, b)
  BY <1>1, Types DEF BlockOK, OwnerOK, LifeOK
<1>4. RefsOK(b)'
  BY <1>1, <1>2, <1>3, RealAllocFields, KernelSees DEF BlockOK, RefsOK
<1>5. OwnerOK(b)'
  <2>1. /\ mmb'[b].live /\ ~mmb'[b].released /\ b \in kown' /\ node'[b].owner = NoFile
        /\ \A g \in Files : ~Claims(g, b)'
    BY <1>1, <1>2, <1>3, RealAllocFields, KernelSees
  <2>. QED  BY <2>1 DEF OwnerOK
<1>6. LifeOK(b)'
  BY <1>2, RealAllocFields DEF LifeOK
<1>7. BlockOK(b)'
  BY <1>4, <1>5, <1>6 DEF BlockOK
<1>8. kown' \in SUBSET Blocks /\ \A c \in Blocks : c # b => (c \in kown' <=> c \in kown)
  BY <1>1, Types
<1>9. RealAlloc \in MmbRecord /\ RealAlloc.phy_ref \in Nat /\ RealAlloc.map_ref \in Nat
  BY RealAllocFields
<1>10. /\ mmb' = [mmb EXCEPT ![b] = RealAlloc] /\ UNCHANGED <<node, opened, op>>
       /\ kmaps' = [kmaps EXCEPT ![b] = kmaps[b]]
  BY <1>1, <1>2
<1>. QED  BY <1>2, <1>7, <1>8, <1>9, <1>10, KernelOnly

(* A kernel module frees a block it allocated.                             *)
LEMMA KernelFreeIInv ==
  ASSUME IInv, NEW b \in Blocks, KernelFree(b)
  PROVE  IInv'
<1>. DEFINE m == Free(mmb[b])
<1>1. /\ b \in kown /\ mmb' = [mmb EXCEPT ![b] = m] /\ kown' = kown \ {b}
      /\ kmaps' = kmaps /\ UNCHANGED <<node, opened, op>>
  BY DEF KernelFree
<1>2. mmb'[b] = m /\ kmaps' = [kmaps EXCEPT ![b] = kmaps[b]] /\ kmaps[b] \in Nat
  BY <1>1, Types
<1>3. /\ BlockOK(b) /\ mmb[b].live /\ ~mmb[b].released /\ node[b].owner = NoFile
      /\ \A g \in Files : ~Claims(g, b)
  BY <1>1, Types DEF BlockOK, OwnerOK
<1>4. /\ mmb[b] \in MmbRecord /\ mmb[b].phy_ref \in Nat /\ mmb[b].map_ref \in Nat
      /\ (mmb[b].map2kern <=> mmb[b].map_ref > 0)
  BY <1>3, Types DEF BlockOK, RefsOK
<1>5. /\ m \in MmbRecord
      /\ IF mmb[b].phy_ref > 0 \/ mmb[b].map2kern
           THEN /\ m.released /\ m.live = mmb[b].live
                /\ m.phy_ref = mmb[b].phy_ref /\ m.map_ref = mmb[b].map_ref
                /\ m.map2kern = mmb[b].map2kern
           ELSE m = NoMmb
  BY <1>3, <1>4, FreeFields
<1>6. m.phy_ref = mmb[b].phy_ref /\ m.map_ref = mmb[b].map_ref /\ (m.map2kern <=> m.map_ref > 0)
  BY <1>4, <1>5 DEF NoMmb
<1>7. RefsOK(b)'
  BY <1>1, <1>2, <1>3, <1>6, KernelSees DEF BlockOK, RefsOK
<1>8. OwnerOK(b)'
  <2>1. ~(mmb'[b].live /\ ~mmb'[b].released)
    BY <1>2, <1>5 DEF NoMmb
  <2>2. b \notin kown' /\ node'[b].owner = NoFile /\ \A g \in Files : ~Claims(g, b)'
    BY <1>1, <1>3, KernelSees
  <2>. QED  BY <2>1, <2>2 DEF OwnerOK
<1>9. LifeOK(b)'
  <2>1. CASE mmb[b].phy_ref > 0 \/ mmb[b].map2kern
    BY <1>2, <1>3, <1>4, <1>5, <2>1 DEF LifeOK
  <2>2. CASE ~(mmb[b].phy_ref > 0 \/ mmb[b].map2kern)
    <3>1. m = NoMmb
      BY <1>5, <2>2
    <3>2. m.released = FALSE /\ m.phy_ref = 0 /\ m.map_ref = 0
      BY <3>1 DEF NoMmb
    <3>. QED  BY <1>2, <3>2 DEF LifeOK
  <2>. QED  BY <2>1, <2>2
<1>10. BlockOK(b)'
  BY <1>7, <1>8, <1>9 DEF BlockOK
<1>11. kown' \in SUBSET Blocks /\ \A c \in Blocks : c # b => (c \in kown' <=> c \in kown)
  BY <1>1, Types
<1>12. m.phy_ref \in Nat /\ m.map_ref \in Nat /\ m \in MmbRecord
  BY <1>4, <1>5, <1>6
<1>. HIDE DEF m
<1>. QED  BY <1>1, <1>2, <1>10, <1>11, <1>12, KernelOnly

(* A kernel module maps a block: map_ref and its mappings grow together.   *)
LEMMA KernelMapIInv ==
  ASSUME IInv, NEW b \in Blocks, NEW cached \in BOOLEAN, NEW ok \in BOOLEAN, KernelMap(b, cached, ok)
  PROVE  IInv'
<1>. DEFINE m == Map2Kern(mmb[b], cached, ok)
            k == IF ~MapConflict(mmb[b], cached) /\ (mmb[b].map2kern \/ ok)
                   THEN kmaps[b] + 1 ELSE kmaps[b]
<1>1. /\ mmb[b].live /\ ~mmb[b].released /\ mmb' = [mmb EXCEPT ![b] = m]
      /\ kmaps' = [kmaps EXCEPT ![b] = k] /\ kown' = kown /\ UNCHANGED <<node, opened, op>>
  BY DEF KernelMap
<1>2. mmb'[b] = m /\ kmaps'[b] = k /\ kmaps[b] \in Nat /\ k \in Nat
  BY <1>1, Types
<1>3. BlockOK(b) /\ mmb[b] \in MmbRecord /\ mmb[b].phy_ref \in Nat /\ mmb[b].map_ref \in Nat
  BY Types
<1>4. /\ m \in MmbRecord
      /\ m.live = mmb[b].live /\ m.released = mmb[b].released /\ m.phy_ref = mmb[b].phy_ref
      /\ IF ~MapConflict(mmb[b], cached) /\ (mmb[b].map2kern \/ ok)
           THEN m.map_ref = mmb[b].map_ref + 1 /\ m.map2kern
           ELSE m.map_ref = mmb[b].map_ref /\ m.map2kern = mmb[b].map2kern
  BY <1>3, Map2KernFields
<1>5. mmb[b].map_ref = kmaps[b] /\ (mmb[b].map2kern <=> mmb[b].map_ref > 0)
  BY <1>3 DEF BlockOK, RefsOK
<1>6. m.map_ref = k /\ (m.map2kern <=> m.map_ref > 0)
  <2>1. CASE ~MapConflict(mmb[b], cached) /\ (mmb[b].map2kern \/ ok)
    BY <1>2, <1>4, <1>5, <2>1
  <2>2. CASE ~(~MapConflict(mmb[b], cached) /\ (mmb[b].map2kern \/ ok))
    BY <1>4, <1>5, <2>2
  <2>. QED  BY <2>1, <2>2
<1>. HIDE DEF m, k
<1>7. RefsOK(b)'
  BY <1>1, <1>2, <1>3, <1>4, <1>6, KernelSees DEF BlockOK, RefsOK
<1>8. OwnerOK(b)'
  BY <1>1, <1>2, <1>3, <1>4, KernelSees DEF BlockOK, OwnerOK
<1>9. LifeOK(b)'
  BY <1>1, <1>2, <1>4 DEF LifeOK
<1>10. BlockOK(b)'
  BY <1>7, <1>8, <1>9 DEF BlockOK
<1>11. kown' \in SUBSET Blocks /\ \A c \in Blocks : c # b => (c \in kown' <=> c \in kown)
  BY <1>1, Types
<1>12. m.phy_ref \in Nat /\ m.map_ref \in Nat
  BY <1>2, <1>3, <1>4, <1>6
<1>. QED  BY <1>1, <1>2, <1>4, <1>10, <1>11, <1>12, KernelOnly

(* A kernel module unmaps a block; the last unmapping of a released block  *)
(* without references frees it.                                            *)
LEMMA KernelUnmapIInv ==
  ASSUME IInv, NEW b \in Blocks, KernelUnmap(b)
  PROVE  IInv'
<1>. DEFINE m == Unmap(mmb[b])
            k == kmaps[b] - 1
<1>1. /\ kmaps[b] > 0 /\ mmb' = [mmb EXCEPT ![b] = m]
      /\ kmaps' = [kmaps EXCEPT ![b] = k] /\ kown' = kown /\ UNCHANGED <<node, opened, op>>
  BY DEF KernelUnmap
<1>2. mmb'[b] = m /\ kmaps'[b] = k /\ kmaps[b] \in Nat /\ k \in Nat
  BY <1>1, Types
<1>3. BlockOK(b) /\ mmb[b] \in MmbRecord /\ mmb[b].phy_ref \in Nat /\ mmb[b].map_ref \in Nat
  BY Types
<1>4. mmb[b].map_ref = kmaps[b] /\ mmb[b].map2kern
  BY <1>1, <1>3 DEF BlockOK, RefsOK
<1>5. /\ m \in MmbRecord
      /\ IF mmb[b].map_ref = 1 /\ mmb[b].released /\ mmb[b].phy_ref = 0
           THEN m = NoMmb
           ELSE /\ m.live = mmb[b].live /\ m.released = mmb[b].released
                /\ m.phy_ref = mmb[b].phy_ref /\ m.map_ref = mmb[b].map_ref - 1
                /\ m.map2kern <=> mmb[b].map_ref # 1
  BY <1>3, <1>4, UnmapFields
<1>6. CASE mmb[b].map_ref = 1 /\ mmb[b].released /\ mmb[b].phy_ref = 0
  <2>1. m = NoMmb
    BY <1>5, <1>6
  <2>2. /\ m.live = FALSE /\ m.released = FALSE /\ m.map2kern = FALSE
        /\ m.phy_ref = 0 /\ m.map_ref = 0
    BY <2>1 DEF NoMmb
  <2>3. k = 0
    BY <1>4, <1>6
  <2>. HIDE DEF m, k
  <2>4. RefsOK(b)'
    BY <1>1, <1>2, <1>3, <1>6, <2>2, <2>3, KernelSees DEF BlockOK, RefsOK
  <2>5. OwnerOK(b)'
    BY <1>1, <1>2, <1>3, <1>6, <2>2, KernelSees DEF BlockOK, OwnerOK
  <2>6. LifeOK(b)'
    BY <1>2, <2>2 DEF LifeOK
  <2>. QED  BY <2>2, <2>4, <2>5, <2>6, <1>1, <1>2, <1>5, Types, KernelOnly DEF BlockOK
<1>7. CASE ~(mmb[b].map_ref = 1 /\ mmb[b].released /\ mmb[b].phy_ref = 0)
  <2>1. /\ m.live = mmb[b].live /\ m.released = mmb[b].released
        /\ m.phy_ref = mmb[b].phy_ref /\ m.map_ref = k
        /\ m.map2kern <=> m.map_ref > 0
    BY <1>1, <1>3, <1>4, <1>5, <1>7
  <2>2. mmb[b].released => m.phy_ref > 0 \/ m.map_ref > 0
    BY <1>1, <1>3, <1>4, <1>7, <2>1
  <2>3. mmb[b].live
    BY <1>1, <1>3, <1>4 DEF BlockOK, LifeOK
  <2>. HIDE DEF m, k
  <2>4. RefsOK(b)'
    BY <1>1, <1>2, <1>3, <2>1, KernelSees DEF BlockOK, RefsOK
  <2>5. OwnerOK(b)'
    BY <1>1, <1>2, <1>3, <2>1, KernelSees DEF BlockOK, OwnerOK
  <2>6. LifeOK(b)'
    BY <1>2, <2>1, <2>2, <2>3 DEF LifeOK
  <2>. QED  BY <2>1, <2>4, <2>5, <2>6, <1>1, <1>2, <1>3, <1>5, Types, KernelOnly DEF BlockOK
<1>. QED  BY <1>6, <1>7
-----------------------------------------------------------------------------
(* The invariant, and what follows from it.                                *)

(* At the start every descriptor is free and nobody refers to it.          *)
LEMMA InitIInv == Init => IInv
<1>. SUFFICES ASSUME Init PROVE IInv
  OBVIOUS
<1>1. /\ mmb = [b \in Blocks |-> NoMmb] /\ node = [b \in Blocks |-> NoNode]
      /\ opened = [f \in Files |-> FALSE] /\ op = [f \in Files |-> At("idle", NoBlock)]
      /\ kown = {} /\ kmaps = [b \in Blocks |-> 0]
  BY DEF Init
<1>2. /\ At("idle", NoBlock) \in Place /\ At("idle", NoBlock).at = "idle"
      /\ At("idle", NoBlock).b = NoBlock
  BY AtFields DEF Places
<1>3. /\ NoMmb \in MmbRecord /\ NoMmb.phy_ref = 0 /\ NoMmb.map_ref = 0
      /\ NoMmb.live = FALSE /\ NoMmb.released = FALSE /\ NoMmb.map2kern = FALSE
  BY DEF NoMmb, MmbRecord
<1>4. NoNode \in NodeRecord /\ NoNode.owner = NoFile /\ NoNode.map_ref = 0 /\ NoNode.mmb_ref = 0
  BY NewNodeFields DEF NoNode
<1>5. TypeOK
  BY <1>1, <1>2, <1>3, <1>4 DEF TypeOK, Place
<1>6. ASSUME NEW b \in Blocks PROVE BlockOK(b)
  <2>1. Looking(b) = {}
    BY <1>1, <1>2 DEF Looking
  <2>2. Cardinality(Looking(b)) = 0
    BY <2>1, FS_EmptySet
  <2>3. \A g \in Files : ~Claims(g, b)
    BY <1>1, <1>2 DEF Claims
  <2>4. RefsOK(b)
    BY <1>1, <1>3, <1>4, <2>2 DEF RefsOK, NodeRefs
  <2>5. OwnerOK(b)
    BY <1>1, <1>3, <1>4, <2>3 DEF OwnerOK
  <2>6. LifeOK(b)
    BY <1>1, <1>3 DEF LifeOK
  <2>. QED  BY <2>4, <2>5, <2>6 DEF BlockOK
<1>7. ASSUME NEW f \in Files PROVE PlaceOK(f)
  BY <1>1, <1>2 DEF PlaceOK
<1>. QED  BY <1>5, <1>6, <1>7 DEF IInv

(* Every step of a call in progress keeps the invariant.                   *)
LEMMA InCallIInv ==
  ASSUME IInv, NEW f \in Files, InCall(f)
  PROVE  IInv'
<1>1. op[f].at \notin {"idle", "releasing"} => \E b \in Blocks : op[f].b = b
  BY Types DEF PlaceOK
<1>2. ASSUME AllocNodeFails(f) PROVE IInv'
  BY <1>1, <1>2, FreeBlockIInv DEF AllocNodeFails, IsAt
<1>3. ASSUME AllocNode(f) PROVE IInv'
  BY <1>1, <1>3, AllocNodeIInv DEF AllocNode, Claims
<1>4. ASSUME FreeBlock(f) PROVE IInv'
  BY <1>1, <1>4, FreeBlockIInv DEF FreeBlock, IsAt
<1>5. ASSUME RemapMmap(f) PROVE IInv'
  BY <1>1, <1>5, RemapMmapIInv DEF RemapMmap, IsAt
<1>6. ASSUME RemapCount(f) PROVE IInv'
  BY <1>1, <1>6, RemapCountIInv DEF RemapCount, IsAt
<1>7. ASSUME UnmapFlushFails(f) PROVE IInv'
  BY <1>1, <1>7, UnmapFlushFailsIInv DEF UnmapFlushFails, IsAt
<1>8. ASSUME UnmapPages(f) PROVE IInv'
  BY <1>1, <1>8, UnmapPagesIInv DEF UnmapPages, IsAt
<1>9. ASSUME PutLookedUp(f) PROVE IInv'
  BY <1>1, <1>9, PutLookedUpIInv DEF PutLookedUp, IsAt
<1>10. ASSUME ReleasePut(f) PROVE IInv'
  BY <1>1, <1>10, ReleasePutIInv DEF ReleasePut, IsAt
<1>11. ASSUME ReleaseDrop(f) PROVE IInv'
  BY <1>1, <1>11, ReleaseDropIInv DEF ReleaseDrop, IsAt
<1>. QED
  BY <1>2, <1>3, <1>4, <1>5, <1>6, <1>7, <1>8, <1>9, <1>10, <1>11, ReleaseNodeIInv, ReleaseIInv
     DEF InCall

(* Every step that starts a call, opens or closes a file keeps it.         *)
LEMMA StartsIInv ==
  ASSUME IInv, NEW f \in Files, Starts(f)
  PROVE  IInv'
<1>1. CASE Open(f) \/ Release(f)
  BY <1>1, OpenIInv, ReleaseIInv
<1>2. ASSUME NEW b \in Blocks,
             Alloc(f, b) \/ FreeDelayed(f, b) \/ FreeNow(f, b) \/ Unremap(f, b) \/ LookUp(f, b)
      PROVE  IInv'
  BY <1>2, AllocIInv, FreeDelayedIInv, FreeNowIInv, UnremapIInv, LookUpIInv
<1>3. ASSUME NEW b \in Blocks, NEW cached \in BOOLEAN, RemapAgain(f, b, cached) \/ Remap(f, b, cached)
      PROVE  IInv'
  BY <1>3, RemapAgainIInv, RemapIInv
<1>. QED  BY <1>1, <1>2, <1>3 DEF Starts

(* Every step of a kernel module keeps it.                                 *)
LEMMA KernelStepIInv ==
  ASSUME IInv, KernelStep
  PROVE  IInv'
BY KernelAllocIInv, KernelFreeIInv, KernelUnmapIInv, KernelMapIInv DEF KernelStep

(* A step that changes nothing keeps it.                                   *)
LEMMA StutterIInv ==
  ASSUME IInv, UNCHANGED vars
  PROVE  IInv'
<1>1. mmb' = mmb /\ node' = node /\ opened' = opened /\ op' = op /\ kown' = kown /\ kmaps' = kmaps
  BY DEF vars
<1>2. \A b \in Blocks : Looking(b)' = Looking(b) /\ \A f \in Files : Claims(f, b)' <=> Claims(f, b)
  BY <1>1 DEF Looking, Claims
<1>3. \A b \in Blocks : BlockOK(b)'
  BY <1>1, <1>2, Types, Untouched
<1>4. \A f \in Files : PlaceOK(f)'
  BY <1>1, Types DEF PlaceOK
<1>5. TypeOK'
  BY <1>1 DEF IInv, TypeOK
<1>. QED  BY <1>3, <1>4, <1>5 DEF IInv

(* The inductive invariant of the block manager and its device.            *)
THEOREM Invariance == Spec => []IInv
<1>1. IInv /\ [Next]_vars => IInv'
  BY InCallIInv, StartsIInv, KernelStepIInv, StutterIInv DEF Next
<1>. QED  BY InitIInv, <1>1, PTL DEF Spec

(* Every variable keeps its type and no count ever becomes negative.       *)
THEOREM TypeCorrect == Spec => []TypeOK
<1>1. IInv => TypeOK
  BY DEF IInv
<1>. QED  BY Invariance, <1>1, PTL

(* phy_ref and map_ref of every block always equal the references and      *)
(* kernel mappings that its users hold, however many files, blocks and     *)
(* mappings there are.                                                     *)
THEOREM RefsMatch == Spec => []RefsMatchUsers
<1>1. IInv => RefsMatchUsers
  BY Types DEF RefsMatchUsers, BlockOK, RefsOK
<1>. QED  BY Invariance, <1>1, PTL

(* A live block has somebody who still relies on it.                       *)
LEMMA LiveIsHeld ==
  ASSUME IInv, NEW b \in Blocks, mmb[b].live
  PROVE  Holders(b) # {}
<1>0. BlockOK(b) /\ node[b] \in NodeRecord /\ \A f \in Files : PlaceOK(f)
  BY Types
<1>1. ASSUME node[b].owner # NoFile PROVE Holders(b) # {}
  BY <1>0, <1>1 DEF Holders, NodeRecord
<1>2. ASSUME b \in kown \/ kmaps[b] > 0 PROVE Holders(b) # {}
  BY <1>2 DEF Holders
<1>3. ASSUME NEW f \in Files, Claims(f, b) PROVE Holders(b) # {}
  BY <1>3 DEF Holders, Using, Claims
<1>4. CASE ~mmb[b].released
  BY <1>0, <1>1, <1>2, <1>3, <1>4 DEF BlockOK, OwnerOK
<1>5. ASSUME NEW f \in Looking(b) PROVE Holders(b) # {}
  <2>1. CASE op[f].at = "held"
    BY <2>1 DEF Looking, Holders, Using
  <2>2. CASE op[f].at = "mmapping"
    BY <1>0, <2>2 DEF Looking, PlaceOK, Holders
  <2>. QED  BY <1>5, <2>1, <2>2 DEF Looking
<1>6. CASE mmb[b].released
  <2>1. mmb[b].phy_ref > 0 \/ kmaps[b] > 0
    BY <1>0, <1>6 DEF BlockOK, LifeOK, RefsOK
  <2>2. CASE mmb[b].phy_ref > 0
    <3>1. NodeRefs(b) # 0 \/ Cardinality(Looking(b)) # 0
      BY <1>0, <2>2, Types, LookingFinite DEF BlockOK, RefsOK
    <3>2. NodeRefs(b) # 0 => node[b].owner # NoFile
      BY DEF NodeRefs
    <3>3. Cardinality(Looking(b)) # 0 => Looking(b) # {}
      BY FS_EmptySet
    <3>. QED  BY <1>1, <1>5, <3>1, <3>2, <3>3
  <2>. QED  BY <1>2, <2>1, <2>2
<1>. QED  BY <1>4, <1>6

(* A block that somebody relies on is live.                                *)
LEMMA HeldIsLive ==
  ASSUME IInv, NEW b \in Blocks, Holders(b) # {}
  PROVE  mmb[b].live
<1>0. BlockOK(b) /\ mmb[b].phy_ref \in Nat /\ mmb[b].map_ref \in Nat /\ NodeRefs(b) \in Nat
  BY Types
<1>1. CASE \E f \in Files : node[b].owner = f
  BY <1>1, ListedIsLive
<1>2. CASE \E f \in Files : Claims(f, b)
  BY <1>0, <1>2 DEF BlockOK, OwnerOK
<1>3. CASE b \in kown
  BY <1>0, <1>3 DEF BlockOK, OwnerOK
<1>4. CASE kmaps[b] > 0
  BY <1>0, <1>4 DEF BlockOK, RefsOK, LifeOK
<1>5. CASE Looking(b) # {}
  <2>1. Cardinality(Looking(b)) # 0
    BY <1>5, LookingFinite, FS_EmptySet
  <2>2. mmb[b].phy_ref # 0
    BY <1>0, <2>1, LookingFinite DEF BlockOK, RefsOK
  <2>. QED  BY <1>0, <2>2 DEF BlockOK, LifeOK
<1>. QED  BY <1>1, <1>2, <1>3, <1>4, <1>5 DEF Holders, Using, Claims, Looking

(* A descriptor is freed exactly when nobody relies on the block: there is *)
(* no use after free and no leak of a descriptor in any interleaving of    *)
(* the files' calls, their closes and the kernel modules.                  *)
THEOREM FreedExactlyWhenUnused == Spec => []LiveIffHeld
<1>1. IInv => LiveIffHeld
  BY LiveIsHeld, HeldIsLive DEF LiveIffHeld
<1>. QED  BY Invariance, <1>1, PTL
=============================================================================
