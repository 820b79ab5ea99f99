------------------------------ MODULE PagingProofs ------------------------------
(***************************************************************************)
(* Proofs about Paging, for any number of slots: what the entries of every *)
(* directory and table are at every point of a slot's life, that none of   *)
(* do_execute's calls of map_page is refused, and that the slots'          *)
(* translations implement AddressSpaces.                                   *)
(***************************************************************************)
EXTENDS Paging, TLAPS

Views == {VIDEO} \union VIDEO_BUFS

\* do_execute has made its maps before the one of number k, and the page of text memory
\* at USER_VIDEO is view; with k = 1 the slot is empty, with k = 8 it is complete.
Built(s, k, view) ==
    /\ pg_dir[s][0] = IF k > 1 THEN s ELSE None
    /\ pg_dir[s][32] = IF k > 5 THEN Frame[s] ELSE None
    /\ pg_dir[s][1] = IF k > 6 THEN KERNEL ELSE None
    /\ pg_table[s][185] = IF k > 1 THEN 185 ELSE None
    /\ pg_table[s][186] = IF k > 2 THEN 186 ELSE None
    /\ pg_table[s][187] = IF k > 3 THEN 187 ELSE None
    /\ pg_table[s][USER_VIDEO] = IF k > 4 THEN view ELSE None
    /\ pg_table[s][VIDEO] = IF k > 7 THEN VIDEO ELSE None

\* A program runs, or may run, on the directory of slot s.
Ready(s) == s \in used /\ s # building.slot /\ s \notin wiping

PagesType ==
    /\ pg_dir \in [Dirs -> [PDE -> Int]]
    /\ pg_table \in [Dirs -> [PTE -> Int]]

\* Who has a slot: a program, do_execute or halt's cleanup.
SlotInv ==
    /\ used \subseteq Slots
    /\ building \in [slot : used, next : 1 .. 8] \union {NotBuilding}
    /\ wiping \subseteq used
    /\ building.slot \notin wiping

FreeInv     == \A s \in Slots \ used : Built(s, 1, VIDEO)
BuildingInv == building # NotBuilding => Built(building.slot, building.next, VIDEO)
ReadyInv    == \A s \in Slots : Ready(s) => \E view \in Views : Built(s, 8, view)
WipingInv   == \A s \in wiping : \A i \in PDE : pg_dir[s][i] = None

KernelInv ==
    /\ pg_dir[Boot][0] = Boot /\ pg_dir[Boot][1] = KERNEL
    /\ \A v \in Views : pg_table[Boot][v] = v

PagingInv ==
    PagesType /\ SlotInv /\ FreeInv /\ BuildingInv /\ ReadyInv /\ WipingInv /\ KernelInv

-------------------------------------------------------------------------------
(* Numbers *)

LEMMA Offsets ==
    /\ PDE = {0, 1, 32}
    /\ PTE = {184, 185, 186, 187, 188}
    /\ DirOffset(KERNEL) = 1 /\ DirOffset(TASK) = 32
    /\ \A v \in PTE : DirOffset(v) = 0 /\ TableOffset(v) = v /\ v < FourM
    /\ ~(KERNEL < FourM) /\ ~(TASK < FourM)
    /\ KERNEL = 1024 /\ TASK = 32768 /\ VIDEO = 184 /\ USER_VIDEO = 188
    /\ Views = {184, 185, 186, 187} /\ Views \subseteq PTE
<1>1. FourM = 1024 /\ KERNEL = 1024 /\ TASK = 32768 /\ VIDEO = 184 /\ USER_VIDEO = 188
  BY DEF FourM, KERNEL, TASK, VIDEO, USER_VIDEO
<1>2. PTE = {184, 185, 186, 187, 188} /\ Views = {184, 185, 186, 187}
  BY <1>1 DEF PTE, VIDEO_BUFS, Views
<1>3. \A v \in PTE : DirOffset(v) = 0 /\ TableOffset(v) = v /\ v < FourM
  BY <1>1, <1>2 DEF DirOffset, TableOffset
<1>4. DirOffset(VIDEO) = 0 /\ DirOffset(KERNEL) = 1 /\ DirOffset(TASK) = 32
  BY <1>1 DEF DirOffset
<1>5. PDE = {0, 1, 32}
  BY <1>4 DEF PDE
<1>6. QED BY <1>1, <1>2, <1>3, <1>4, <1>5

LEMMA SlotNumbers ==
    /\ Slots \subseteq Nat /\ Boot \in Nat /\ Boot \notin Slots /\ Slots \subseteq Dirs
    /\ Boot \in Dirs /\ Dirs \subseteq Int
    /\ None \notin Slots /\ None # Boot /\ None = -1
    /\ NotBuilding.slot = None /\ NotBuilding.next = 0
    /\ \A s \in Slots : Frame[s] \in Nat
BY PagingAssumption DEF Slots, Boot, Dirs, None, NotBuilding, Frame, FourM

-------------------------------------------------------------------------------
(* map_page and remap_page *)

\* map_page of a page of text memory: the table's entry, and the directory's if it is new.
LEMMA MapsText ==
    ASSUME PagesType, NEW s \in Slots, NEW v \in PTE, NEW page \in Int,
           CanMap(pg_dir, pg_table, s, v), Becomes(map_page(pg_dir, pg_table, s, v, page))
    PROVE  /\ PagesType'
           /\ \A d \in Dirs \ {s} : pg_dir'[d] = pg_dir[d] /\ pg_table'[d] = pg_table[d]
           /\ pg_dir'[s][0] = IF pg_dir[s][0] = None THEN s ELSE pg_dir[s][0]
           /\ pg_dir'[s][1] = pg_dir[s][1] /\ pg_dir'[s][32] = pg_dir[s][32]
           /\ pg_table'[s][v] = page
           /\ \A w \in PTE \ {v} : pg_table'[s][w] = pg_table[s][w]
<1>1. DirOffset(v) = 0 /\ TableOffset(v) = v /\ v < FourM
  BY Offsets
<1>2. pg_table[s][v] = None
  BY <1>1 DEF CanMap
<1>3. /\ pg_dir' = [pg_dir EXCEPT ![s][0] = IF @ = None THEN s ELSE @]
      /\ pg_table' = [pg_table EXCEPT ![s][v] = IF @ = None THEN page ELSE @]
  BY <1>1 DEF Becomes, map_page
<1> DEFINE e == IF pg_dir[s][0] = None THEN s ELSE pg_dir[s][0]
           d1 == [pg_dir[s] EXCEPT ![0] = e]
           t1 == [pg_table[s] EXCEPT ![v] = page]
<1>4. s \in Dirs /\ s \in Int /\ pg_dir[s] \in [PDE -> Int] /\ pg_table[s] \in [PTE -> Int]
  BY SlotNumbers DEF PagesType
<1>5. pg_dir' = [pg_dir EXCEPT ![s] = d1] /\ pg_table' = [pg_table EXCEPT ![s] = t1]
  BY <1>2, <1>3, <1>4, Offsets DEF PagesType
<1>6. e \in Int
  BY <1>4, Offsets
<1>7. d1 \in [PDE -> Int] /\ d1[0] = e /\ d1[1] = pg_dir[s][1] /\ d1[32] = pg_dir[s][32]
  BY <1>4, <1>6, Offsets
<1>8. t1 \in [PTE -> Int] /\ t1[v] = page /\ \A w \in PTE \ {v} : t1[w] = pg_table[s][w]
  BY <1>4
<1> HIDE DEF d1, t1
<1>9. PagesType'
  BY <1>4, <1>5, <1>7, <1>8 DEF PagesType
<1>10. pg_dir'[s] = d1 /\ pg_table'[s] = t1
  BY <1>4, <1>5 DEF PagesType
<1>11. \A d \in Dirs \ {s} : pg_dir'[d] = pg_dir[d] /\ pg_table'[d] = pg_table[d]
  BY <1>5 DEF PagesType
<1>12. QED BY <1>7, <1>8, <1>9, <1>10, <1>11

\* map_page of a 4 MB page: the directory's entry.
LEMMA MapsLarge ==
    ASSUME PagesType, NEW s \in Slots, NEW v \in {KERNEL, TASK}, NEW page \in Int,
           CanMap(pg_dir, pg_table, s, v), Becomes(map_page(pg_dir, pg_table, s, v, page))
    PROVE  /\ PagesType'
           /\ \A d \in Dirs \ {s} : pg_dir'[d] = pg_dir[d]
           /\ pg_dir'[s][DirOffset(v)] = page
           /\ \A i \in PDE \ {DirOffset(v)} : pg_dir'[s][i] = pg_dir[s][i]
           /\ pg_table' = pg_table
<1>1. DirOffset(v) \in PDE /\ ~(v < FourM)
  BY Offsets
<1> DEFINE i == DirOffset(v)
           d1 == [pg_dir[s] EXCEPT ![i] = page]
<1>2. pg_dir[s][i] = None
  BY <1>1 DEF CanMap
<1>3. /\ pg_dir' = [pg_dir EXCEPT ![s][i] = IF @ = None THEN page ELSE @]
      /\ pg_table' = pg_table
  BY <1>1 DEF Becomes, map_page
<1> HIDE DEF i
<1>4. s \in Dirs /\ pg_dir[s] \in [PDE -> Int] /\ i \in PDE
  BY <1>1, SlotNumbers DEF PagesType, i
<1>5. pg_dir' = [pg_dir EXCEPT ![s] = d1]
  BY <1>2, <1>3, <1>4 DEF PagesType
<1>6. d1 \in [PDE -> Int] /\ d1[i] = page /\ \A j \in PDE \ {i} : d1[j] = pg_dir[s][j]
  BY <1>4
<1> HIDE DEF d1
<1>7. PagesType'
  BY <1>3, <1>4, <1>5, <1>6 DEF PagesType
<1>8. pg_dir'[s] = d1 /\ \A d \in Dirs \ {s} : pg_dir'[d] = pg_dir[d]
  BY <1>4, <1>5 DEF PagesType
<1>9. QED BY <1>3, <1>6, <1>7, <1>8 DEF i

\* remap_page of USER_VIDEO: the table's entry if there is one, and the directory's.
LEMMA RemapsText ==
    ASSUME PagesType, NEW s \in Slots, NEW page \in Views,
           pg_dir[s][0] \in {s, None},
           Becomes(remap_page(pg_dir, pg_table, s, USER_VIDEO, page))
    PROVE  /\ PagesType'
           /\ pg_dir' = pg_dir
           /\ \A d \in Dirs \ {s} : pg_table'[d] = pg_table[d]
           /\ pg_table'[s][USER_VIDEO] = IF pg_table[s][USER_VIDEO] = None THEN None ELSE page
           /\ \A w \in PTE \ {USER_VIDEO} : pg_table'[s][w] = pg_table[s][w]
<1>1. /\ DirOffset(USER_VIDEO) = 0 /\ TableOffset(USER_VIDEO) = USER_VIDEO
      /\ USER_VIDEO \in PTE /\ page \in Int
  BY Offsets
<1>2. /\ pg_dir' = [pg_dir EXCEPT ![s][0] = IF @ = None THEN @ ELSE s]
      /\ pg_table' = [pg_table EXCEPT ![s][USER_VIDEO] = IF @ = None THEN @ ELSE page]
  BY <1>1 DEF Becomes, remap_page
<1> DEFINE e == IF pg_table[s][USER_VIDEO] = None THEN None ELSE page
           t1 == [pg_table[s] EXCEPT ![USER_VIDEO] = e]
<1>3. s \in Dirs /\ pg_dir[s] \in [PDE -> Int] /\ pg_table[s] \in [PTE -> Int] /\ 0 \in PDE
  BY SlotNumbers, Offsets DEF PagesType
<1>4. pg_table' = [pg_table EXCEPT ![s] = t1]
  BY <1>1, <1>2, <1>3 DEF PagesType
<1>5. pg_dir' = pg_dir
  <2>1. pg_dir' = [pg_dir EXCEPT ![s] = [pg_dir[s] EXCEPT ![0] = pg_dir[s][0]]]
    BY <1>2, <1>3 DEF PagesType
  <2>2. [pg_dir[s] EXCEPT ![0] = pg_dir[s][0]] = pg_dir[s]
    BY <1>3
  <2>3. QED BY <1>3, <2>1, <2>2 DEF PagesType
<1>6. e \in Int
  BY <1>1, SlotNumbers
<1>7. /\ t1 \in [PTE -> Int] /\ t1[USER_VIDEO] = e
      /\ \A w \in PTE \ {USER_VIDEO} : t1[w] = pg_table[s][w]
  BY <1>1, <1>3, <1>6
<1> HIDE DEF t1
<1>8. PagesType'
  BY <1>3, <1>4, <1>5, <1>7 DEF PagesType
<1>9. pg_table'[s] = t1 /\ \A d \in Dirs \ {s} : pg_table'[d] = pg_table[d]
  BY <1>3, <1>4 DEF PagesType
<1>10. QED BY <1>5, <1>7, <1>8, <1>9
-------------------------------------------------------------------------------
(* init_paging *)

\* One page of text memory becomes its own in the kernel's table.
LEMMA EnablesText ==
    ASSUME NEW pair, pair[2] \in [Dirs -> [PTE -> Int]], NEW v \in Views, NEW end, end = v + 1
    PROVE  LET e == Enable(pair, v, end)
           IN  /\ e[1] = pair[1]
               /\ e[2] \in [Dirs -> [PTE -> Int]]
               /\ \A s \in Slots : e[2][s] = pair[2][s]
               /\ e[2][Boot][v] = v
               /\ \A w \in PTE \ {v} : e[2][Boot][w] = pair[2][Boot][w]
<1>1. v < end /\ end < FourM /\ v \in PTE /\ PTE \subseteq Int
  BY Offsets DEF FourM
<1> DEFINE t == pair[2]
           row == [i \in PTE |-> IF i \in v .. end - 1 THEN i ELSE t[Boot][i]]
           e == Enable(pair, v, end)
<1>2. enable_global_pages(pair[1], t, v, end) = <<pair[1], [t EXCEPT ![Boot] = row]>>
  BY <1>1, Zenon DEF enable_global_pages
<1>3. row \in [PTE -> Int] /\ row[v] = v /\ \A w \in PTE \ {v} : row[w] = t[Boot][w]
  <2>1. t[Boot] \in [PTE -> Int] /\ v \in Int
    BY <1>1, SlotNumbers
  <2>2. \A i \in PTE : i \in v .. end - 1 <=> i = v
    BY <1>1
  <2>3. QED BY <1>1, <2>1, <2>2
<1> HIDE DEF row
<1>4. e[1] = pair[1] /\ e[2] = [t EXCEPT ![Boot] = row]
  BY <1>2 DEF Enable
<1> HIDE DEF t
<1> HIDE DEF e
<1>5. /\ e[2] \in [Dirs -> [PTE -> Int]] /\ e[2][Boot] = row
      /\ \A s \in Slots : e[2][s] = t[s]
  BY <1>3, <1>4, SlotNumbers DEF t
<1>6. e[2][Boot][v] = v /\ \A w \in PTE \ {v} : e[2][Boot][w] = t[Boot][w]
  BY <1>3, <1>5
<1>7. QED BY <1>4, <1>5, <1>6 DEF e, t

\* The kernel's 4 MB page becomes its own in the kernel's directory.
LEMMA EnablesKernel ==
    ASSUME NEW pair, pair[1] \in [Dirs -> [PDE -> Int]]
    PROVE  LET e == Enable(pair, KERNEL, KERNEL + FourM)
           IN  /\ e[2] = pair[2]
               /\ e[1] \in [Dirs -> [PDE -> Int]]
               /\ \A s \in Slots : e[1][s] = pair[1][s]
               /\ e[1][Boot][0] = pair[1][Boot][0] /\ e[1][Boot][1] = KERNEL
<1> DEFINE first == KERNEL
           end == KERNEL + FourM
           d == pair[1]
           from == IF first < FourM THEN FourM ELSE first
           last == from \div FourM + (end - from - 1) \div FourM
           row == [i \in PDE |-> IF i \in from \div FourM .. last THEN i * FourM
                                 ELSE d[Boot][i]]
           e == Enable(pair, first, end)
<1>1. KERNEL = 1024 /\ FourM = 1024
  BY DEF KERNEL, FourM
<1>2. first < end /\ ~(end < FourM) /\ end > FourM
  BY <1>1
<1>3. enable_global_pages(d, pair[2], first, end) = <<[d EXCEPT ![Boot] = row], pair[2]>>
  BY <1>2, Zenon DEF enable_global_pages
<1>4. row \in [PDE -> Int] /\ row[0] = d[Boot][0] /\ row[1] = KERNEL
  <2>1. from = 1024 /\ end = 2048
    BY <1>1
  <2>2. from \div FourM = 1 /\ last = 1
    BY <1>1, <2>1
  <2>3. d[Boot] \in [PDE -> Int] /\ PDE = {0, 1, 32}
    BY Offsets, SlotNumbers
  <2> HIDE DEF from, last, d
  <2>4. QED BY <1>1, <2>2, <2>3
<1> HIDE DEF row, first, end
<1>5. e[2] = pair[2] /\ e[1] = [d EXCEPT ![Boot] = row]
  BY <1>3 DEF Enable
<1> HIDE DEF d
<1> HIDE DEF e
<1>6. /\ e[1] \in [Dirs -> [PDE -> Int]] /\ e[1][Boot] = row
      /\ \A s \in Slots : e[1][s] = d[s]
  BY <1>4, <1>5, SlotNumbers DEF d
<1>7. e[1][Boot][0] = d[Boot][0] /\ e[1][Boot][1] = KERNEL
  BY <1>4, <1>6
<1>8. QED BY <1>5, <1>6, <1>7 DEF e, first, end, d

LEMMA PagingInit == Init => PagingInv
<1> SUFFICES ASSUME Init PROVE PagingInv
  OBVIOUS
<1> DEFINE d0 == [dir \in Dirs |-> [EmptyDir EXCEPT ![0] = IF dir = Boot THEN Boot ELSE None]]
           t0 == [dir \in Dirs |-> EmptyTable]
           k  == Enable(<<d0, t0>>, KERNEL, KERNEL + FourM)
           v  == Enable(k, VIDEO, VIDEO + 1)
           b1 == Enable(v, 185, 186)
           b2 == Enable(b1, 186, 187)
           b3 == Enable(b2, 187, 188)
           u  == map_page(b3[1], b3[2], Boot, USER_VIDEO, VIDEO)
<1>1. pg_dir = u[1] /\ pg_table = u[2]
  BY DEF Init
<1>2. /\ d0 \in [Dirs -> [PDE -> Int]] /\ d0[Boot][0] = Boot
      /\ \A s \in Slots : \A i \in PDE : d0[s][i] = None
  BY SlotNumbers, Offsets DEF EmptyDir
<1>3. t0 \in [Dirs -> [PTE -> Int]] /\ \A s \in Slots : \A i \in PTE : t0[s][i] = None
  BY SlotNumbers DEF EmptyTable
<1> HIDE DEF d0, t0
<1>4. /\ k[2] = t0 /\ k[1] \in [Dirs -> [PDE -> Int]]
      /\ \A s \in Slots : k[1][s] = d0[s]
      /\ k[1][Boot][0] = Boot /\ k[1][Boot][1] = KERNEL
  <2> DEFINE pair == <<d0, t0>>
  <2>1. pair[1] = d0 /\ pair[2] = t0 /\ k = Enable(pair, KERNEL, KERNEL + FourM)
    OBVIOUS
  <2> HIDE DEF pair, k
  <2>2. QED BY <1>2, <2>1, EnablesKernel
<1> HIDE DEF k
<1>5. /\ v[1] = k[1] /\ v[2] \in [Dirs -> [PTE -> Int]]
      /\ \A s \in Slots : v[2][s] = t0[s]
      /\ v[2][Boot][184] = 184
  <2>1. VIDEO \in Views /\ VIDEO = 184
    BY Offsets
  <2>2. QED BY <1>3, <1>4, <2>1, EnablesText
<1> HIDE DEF v
<1>6. /\ b1[1] = k[1] /\ b1[2] \in [Dirs -> [PTE -> Int]]
      /\ \A s \in Slots : b1[2][s] = t0[s]
      /\ b1[2][Boot][184] = 184 /\ b1[2][Boot][185] = 185
  <2>1. 185 \in Views /\ 184 \in PTE \ {185} /\ 186 = 185 + 1
    BY Offsets
  <2>2. QED BY <1>5, <2>1, EnablesText
<1> HIDE DEF b1
<1>7. /\ b2[1] = k[1] /\ b2[2] \in [Dirs -> [PTE -> Int]]
      /\ \A s \in Slots : b2[2][s] = t0[s]
      /\ b2[2][Boot][184] = 184 /\ b2[2][Boot][185] = 185 /\ b2[2][Boot][186] = 186
  <2>1. 186 \in Views /\ 184 \in PTE \ {186} /\ 185 \in PTE \ {186} /\ 187 = 186 + 1
    BY Offsets
  <2>2. QED BY <1>6, <2>1, EnablesText
<1> HIDE DEF b2
<1>8. /\ b3[1] = k[1] /\ b3[2] \in [Dirs -> [PTE -> Int]]
      /\ \A s \in Slots : b3[2][s] = t0[s]
      /\ b3[2][Boot][184] = 184 /\ b3[2][Boot][185] = 185 /\ b3[2][Boot][186] = 186
      /\ b3[2][Boot][187] = 187
  <2>1. /\ 187 \in Views /\ 184 \in PTE \ {187} /\ 185 \in PTE \ {187} /\ 186 \in PTE \ {187}
        /\ 188 = 187 + 1
    BY Offsets
  <2>2. QED BY <1>7, <2>1, EnablesText
<1> HIDE DEF b3
<1>9. /\ u[1] = [b3[1] EXCEPT ![Boot][0] = IF @ = None THEN Boot ELSE @]
      /\ u[2] = [b3[2] EXCEPT ![Boot][USER_VIDEO] = IF @ = None THEN VIDEO ELSE @]
  <2>1. USER_VIDEO < FourM /\ DirOffset(USER_VIDEO) = 0 /\ TableOffset(USER_VIDEO) = USER_VIDEO
    BY Offsets
  <2>2. QED BY <2>1 DEF map_page
<1> HIDE DEF u
<1>10. /\ Boot \in Dirs /\ Boot \in Int /\ VIDEO \in Int /\ Boot # None
       /\ b3[1][Boot] \in [PDE -> Int] /\ b3[2][Boot] \in [PTE -> Int]
       /\ b3[1] \in [Dirs -> [PDE -> Int]] /\ 0 \in PDE
  BY <1>4, <1>8, SlotNumbers, Offsets
<1> DEFINE row == [b3[1][Boot] EXCEPT ![0] = Boot]
           e   == IF b3[2][Boot][USER_VIDEO] = None THEN VIDEO ELSE b3[2][Boot][USER_VIDEO]
           tab == [b3[2][Boot] EXCEPT ![USER_VIDEO] = e]
<1>11. pg_dir = [b3[1] EXCEPT ![Boot] = row] /\ row \in [PDE -> Int]
  BY <1>1, <1>4, <1>8, <1>9, <1>10
<1>12. pg_table = [b3[2] EXCEPT ![Boot] = tab] /\ tab \in [PTE -> Int]
  <2>1. USER_VIDEO \in PTE
    BY Offsets
  <2>2. e \in Int
    BY <1>10, <2>1
  <2>3. pg_table = [b3[2] EXCEPT ![Boot] = tab]
    BY <1>1, <1>8, <1>9, <1>10
  <2> HIDE DEF e
  <2>4. QED BY <1>10, <2>2, <2>3
<1> HIDE DEF e
<1>13. row[0] = Boot /\ row[1] = KERNEL /\ \A i \in Views : tab[i] = b3[2][Boot][i]
  BY <1>4, <1>8, <1>10, Offsets
<1> HIDE DEF row, tab
<1>14. PagesType
  BY <1>8, <1>10, <1>11, <1>12 DEF PagesType
<1>15. \A s \in Slots : pg_dir[s] = d0[s] /\ pg_table[s] = t0[s]
  BY <1>4, <1>8, <1>10, <1>11, <1>12, SlotNumbers
<1>16. KernelInv
  <2>1. pg_dir[Boot] = row /\ pg_table[Boot] = tab
    BY <1>8, <1>10, <1>11, <1>12
  <2>2. QED BY <1>8, <1>13, <2>1, Offsets DEF KernelInv
<1>17. /\ cr3 = Boot /\ building = NotBuilding /\ used = {} /\ wiping = {}
  BY DEF Init
<1>18. FreeInv
  BY <1>2, <1>3, <1>15, Offsets DEF FreeInv, Built
<1>19. QED
  BY <1>14, <1>16, <1>17, <1>18, SlotNumbers
     DEF PagingInv, SlotInv, BuildingInv, ReadyInv, WipingInv, Ready
-------------------------------------------------------------------------------
(* Steps *)

\* What the entries of a slot and of the kernel say depends on their own rows only.
LEMMA SameRow ==
    ASSUME NEW s, pg_dir'[s] = pg_dir[s], pg_table'[s] = pg_table[s], NEW k, NEW view
    PROVE  Built(s, k, view)' <=> Built(s, k, view)
BY DEF Built

LEMMA SlotBuilding ==
    ASSUME PagingInv, building # NotBuilding
    PROVE  /\ building.slot \in used /\ building.slot \in Slots /\ building.next \in 1 .. 8
           /\ building = [slot |-> building.slot, next |-> building.next]
           /\ building.slot # None /\ building.slot \notin wiping
           /\ Built(building.slot, building.next, VIDEO)
<1>1. building \in [slot : used, next : 1 .. 8] /\ used \subseteq Slots
  BY DEF PagingInv, SlotInv
<1>2. building.slot \in used /\ building.slot \in Slots /\ building.slot # None
  BY <1>1, SlotNumbers
<1>3. building.slot \notin wiping
  BY DEF PagingInv, SlotInv
<1>4. QED BY <1>1, <1>2, <1>3 DEF PagingInv, BuildingInv

LEMMA NextBuilding ==
    ASSUME PagingInv, building.next \in 1 .. 8 PROVE building # NotBuilding
BY SlotNumbers

LEMMA BeginStep == ASSUME PagingInv, BeginExecute PROVE PagingInv'
<1>1. PICK s \in Slots : /\ FirstFree(s) /\ used' = used \union {s}
                         /\ building' = [slot |-> s, next |-> 1]
  BY DEF BeginExecute
<1>2. building = NotBuilding /\ UNCHANGED <<pg_dir, pg_table, cr3, wiping>>
  BY DEF BeginExecute
<1>3. s \in Slots /\ s \notin used
  BY <1>1 DEF FirstFree
<1>4. Built(s, 1, VIDEO) /\ building'.slot = s /\ building'.next = 1
  BY <1>1, <1>3 DEF PagingInv, FreeInv
<1>5. SlotInv'
  <2>1. building' \in [slot : used', next : 1 .. 8]
    BY <1>1, <1>3
  <2>2. building'.slot \notin wiping'
    BY <1>2, <1>3, <1>4 DEF PagingInv, SlotInv
  <2>3. QED BY <1>1, <1>2, <1>3, <2>1, <2>2 DEF PagingInv, SlotInv
<1>6. \A r \in Slots : Ready(r)' => Ready(r)
  BY <1>1, <1>2, <1>4, SlotNumbers DEF Ready
<1>7. \A r, k, view : Built(r, k, view)' <=> Built(r, k, view)
  BY <1>2, SameRow
<1>8. PagesType' /\ FreeInv' /\ BuildingInv' /\ ReadyInv' /\ WipingInv' /\ KernelInv'
  BY <1>1, <1>2, <1>4, <1>6, <1>7
     DEF PagingInv, PagesType, FreeInv, BuildingInv, ReadyInv, WipingInv, KernelInv
<1>9. QED BY <1>5, <1>8 DEF PagingInv

LEMMA NotFoundStep == ASSUME PagingInv, ExecuteNotFound PROVE PagingInv'
<1>1. /\ building.next = 1 /\ used' = used \ {building.slot} /\ building' = NotBuilding
      /\ UNCHANGED <<pg_dir, pg_table, cr3, wiping>>
  BY DEF ExecuteNotFound
<1>2. /\ building.slot \in used /\ building.slot \in Slots
      /\ building.slot \notin wiping
      /\ Built(building.slot, 1, VIDEO)
  BY <1>1, SlotBuilding, NextBuilding
<1>3. SlotInv'
  BY <1>1, <1>2, SlotNumbers DEF PagingInv, SlotInv, Ready
<1>4. \A r \in Slots : Ready(r)' => Ready(r)
  BY <1>1 DEF Ready
<1>5. \A r, k, view : Built(r, k, view)' <=> Built(r, k, view)
  BY <1>1, SameRow
<1>6. PagesType' /\ FreeInv' /\ BuildingInv' /\ ReadyInv' /\ WipingInv' /\ KernelInv'
  BY <1>1, <1>2, <1>4, <1>5
     DEF PagingInv, PagesType, FreeInv, BuildingInv, ReadyInv, WipingInv, KernelInv
<1>7. QED BY <1>3, <1>6 DEF PagingInv

\* Each call of map_page fills the entry that is next, and leaves those of the others.
LEMMA MapsNext ==
    ASSUME PagingInv, MapNext, NEW s, s = building.slot, NEW k, k = building.next
    PROVE  /\ PagesType'
           /\ \A d \in Dirs \ {s} : pg_dir'[d] = pg_dir[d] /\ pg_table'[d] = pg_table[d]
           /\ Built(s, k + 1, VIDEO)'
<1> DEFINE m == Maps(s)[k]
<1>1. k \in 1 .. 7 /\ s \in Slots /\ Built(s, k, VIDEO)
  BY SlotBuilding, NextBuilding DEF MapNext
<1>2. /\ CanMap(pg_dir, pg_table, s, m[1])
      /\ Becomes(map_page(pg_dir, pg_table, s, m[1], m[2]))
  BY DEF MapNext
<1>3. s # None /\ Frame[s] \in Int /\ PagesType
  BY <1>1, SlotNumbers DEF PagingInv
<1>4. CASE k \in {1, 2, 3, 4, 7}
  <2> DEFINE v == IF k = 7 THEN 184 ELSE 184 + k
             page == IF k = 4 THEN 184 ELSE v
  <2>1. m[1] = v /\ m[2] = page
    BY <1>4, Offsets DEF Maps
  <2>2. v \in PTE /\ page \in Int
    BY <1>4, Offsets
  <2> HIDE DEF v, page, m
  <2>3. /\ PagesType'
        /\ \A d \in Dirs \ {s} : pg_dir'[d] = pg_dir[d] /\ pg_table'[d] = pg_table[d]
        /\ pg_dir'[s][0] = IF pg_dir[s][0] = None THEN s ELSE pg_dir[s][0]
        /\ pg_dir'[s][1] = pg_dir[s][1] /\ pg_dir'[s][32] = pg_dir[s][32]
        /\ pg_table'[s][v] = page
        /\ \A w \in PTE \ {v} : pg_table'[s][w] = pg_table[s][w]
    BY <1>1, <1>2, <1>3, <2>1, <2>2, MapsText
  <2>4. Built(s, k + 1, VIDEO)'
    BY <1>1, <1>3, <1>4, <2>3, Offsets DEF Built, v, page
  <2>5. QED BY <2>3, <2>4
<1>5. CASE k \in {5, 6}
  <2> DEFINE v == IF k = 5 THEN TASK ELSE KERNEL
             page == IF k = 5 THEN Frame[s] ELSE KERNEL
  <2>1. m[1] = v /\ m[2] = page
    BY <1>5 DEF Maps
  <2>2. v \in {KERNEL, TASK} /\ page \in Int
    BY <1>3, Offsets
  <2> HIDE DEF v, page, m
  <2>3. /\ PagesType'
        /\ \A d \in Dirs \ {s} : pg_dir'[d] = pg_dir[d]
        /\ pg_dir'[s][DirOffset(v)] = page
        /\ \A i \in PDE \ {DirOffset(v)} : pg_dir'[s][i] = pg_dir[s][i]
        /\ pg_table' = pg_table
    BY <1>1, <1>2, <1>3, <2>1, <2>2, MapsLarge
  <2>4. DirOffset(v) = IF k = 5 THEN 32 ELSE 1
    BY Offsets DEF v
  <2>5. Built(s, k + 1, VIDEO)'
    BY <1>1, <1>3, <1>5, <2>3, <2>4, Offsets DEF Built, page
  <2>6. QED BY <2>3, <2>5
<1>6. QED BY <1>1, <1>4, <1>5

LEMMA MapStep == ASSUME PagingInv, MapNext PROVE PagingInv'
<1>1. PICK s, k : s = building.slot /\ k = building.next
  OBVIOUS
<1>2. building # NotBuilding /\ k \in 1 .. 7
  BY <1>1, NextBuilding DEF MapNext
<1>3. /\ s \in used /\ s \in Slots /\ building = [slot |-> s, next |-> k]
      /\ s \notin wiping
  BY <1>1, <1>2, SlotBuilding
<1>4. building' = [building EXCEPT !.next = @ + 1] /\ UNCHANGED <<cr3, used, wiping>>
  BY DEF MapNext
<1>5. building' = [slot |-> s, next |-> k + 1] /\ building'.slot = s /\ building'.next = k + 1
  BY <1>3, <1>4
<1>6. SlotInv'
  <2>1. building' \in [slot : used', next : 1 .. 8]
    BY <1>2, <1>3, <1>4, <1>5
  <2>2. QED BY <1>1, <1>3, <1>4, <1>5, <2>1 DEF PagingInv, SlotInv, Ready
<1>7. /\ PagesType'
      /\ \A d \in Dirs \ {s} : pg_dir'[d] = pg_dir[d] /\ pg_table'[d] = pg_table[d]
      /\ Built(s, k + 1, VIDEO)'
  BY <1>1, MapsNext
<1>8. \A r \in Slots : Ready(r)' <=> Ready(r)
  BY <1>1, <1>4, <1>5 DEF Ready
<1>9. \A r \in Slots \ {s} : \A i, view : Built(r, i, view)' <=> Built(r, i, view)
  <2>1. TAKE r \in Slots \ {s}
  <2>2. pg_dir'[r] = pg_dir[r] /\ pg_table'[r] = pg_table[r]
    BY <1>7, SlotNumbers
  <2>3. QED BY <2>2, SameRow
<1>10. BuildingInv'
  <2>1. Built(building.slot, building.next, VIDEO)'
    BY <1>5, <1>7 DEF Built
  <2>2. QED BY <2>1 DEF BuildingInv
<1>11. FreeInv' /\ ReadyInv'
  BY <1>1, <1>3, <1>4, <1>8, <1>9 DEF PagingInv, FreeInv, ReadyInv, Ready
<1>12. WipingInv'
  BY <1>3, <1>4, <1>7, SlotNumbers DEF PagingInv, SlotInv, WipingInv
<1>13. KernelInv'
  BY <1>3, <1>7, SlotNumbers DEF PagingInv, KernelInv
<1>14. QED BY <1>6, <1>7, <1>10, <1>11, <1>12, <1>13 DEF PagingInv

LEMMA EnterStep == ASSUME PagingInv, EnterProgram PROVE PagingInv'
<1>1. /\ building.next = 8 /\ cr3' = building.slot /\ building' = NotBuilding
      /\ UNCHANGED <<pg_dir, pg_table, used, wiping>>
  BY DEF EnterProgram
<1>2. /\ building.slot \in used /\ building.slot \in Slots /\ building.slot \notin wiping
      /\ Built(building.slot, 8, VIDEO)
  BY <1>1, SlotBuilding, NextBuilding
<1>3. SlotInv'
  BY <1>1, <1>2, SlotNumbers DEF PagingInv, SlotInv, Ready
<1>4. \A r \in Slots : Ready(r)' => Ready(r) \/ r = building.slot
  BY <1>1 DEF Ready
<1>5. \A r, k, view : Built(r, k, view)' <=> Built(r, k, view)
  BY <1>1, SameRow
<1>6. ReadyInv'
  BY <1>2, <1>4, <1>5 DEF PagingInv, ReadyInv, Views
<1>7. PagesType' /\ FreeInv' /\ BuildingInv' /\ WipingInv' /\ KernelInv'
  BY <1>1, <1>5
     DEF PagingInv, PagesType, FreeInv, BuildingInv, WipingInv, KernelInv
<1>8. QED BY <1>3, <1>6, <1>7 DEF PagingInv

\* Another page of text memory at USER_VIDEO of a program; nothing in a clean directory.
LEMMA RemapsSlot ==
    ASSUME PagingInv, building = NotBuilding, NEW s \in used, NEW page \in Views,
           Becomes(remap_page(pg_dir, pg_table, s, USER_VIDEO, page))
    PROVE  /\ PagesType' /\ pg_dir' = pg_dir /\ s \in Slots
           /\ \A d \in Dirs \ {s} : pg_table'[d] = pg_table[d]
           /\ Ready(s) => Built(s, 8, page)'
<1>1. s \in Slots /\ PagesType /\ s # building.slot
  BY SlotNumbers DEF PagingInv, SlotInv
<1>2. pg_dir[s][0] \in {s, None}
  <2>1. CASE s \in wiping
    BY <2>1, Offsets DEF PagingInv, WipingInv
  <2>2. CASE s \notin wiping
    <3>1. PICK view \in Views : Built(s, 8, view)
      BY <1>1, <2>2 DEF PagingInv, ReadyInv, Ready
    <3>2. QED BY <3>1 DEF Built
  <2>3. QED BY <2>1, <2>2
<1>3. /\ PagesType' /\ pg_dir' = pg_dir
      /\ \A d \in Dirs \ {s} : pg_table'[d] = pg_table[d]
      /\ pg_table'[s][USER_VIDEO] = IF pg_table[s][USER_VIDEO] = None THEN None ELSE page
      /\ \A w \in PTE \ {USER_VIDEO} : pg_table'[s][w] = pg_table[s][w]
  BY <1>1, <1>2, RemapsText
<1>4. ASSUME Ready(s) PROVE Built(s, 8, page)'
  <2>1. PICK view \in Views : Built(s, 8, view)
    BY <1>1, <1>4 DEF PagingInv, ReadyInv
  <2>2. pg_table'[s][USER_VIDEO] = page
    BY <1>3, <2>1, Offsets, SlotNumbers DEF Built
  <2>3. \A w \in {184, 185, 186, 187} : pg_table'[s][w] = pg_table[s][w]
    BY <1>3, Offsets
  <2>4. QED BY <1>3, <2>1, <2>2, <2>3, Offsets DEF Built
<1>5. QED BY <1>1, <1>3, <1>4

LEMMA RemapStep == ASSUME PagingInv, Remap PROVE PagingInv'
<1>1. PICK s \in used, page \in Views :
         Becomes(remap_page(pg_dir, pg_table, s, USER_VIDEO, page))
  BY DEF Remap, Views
<1>2. building = NotBuilding /\ UNCHANGED <<cr3, building, used, wiping>>
  BY DEF Remap
<1>3. /\ PagesType' /\ pg_dir' = pg_dir /\ s \in Slots
      /\ \A d \in Dirs \ {s} : pg_table'[d] = pg_table[d]
      /\ Ready(s) => Built(s, 8, page)'
  BY <1>1, <1>2, RemapsSlot
<1>4. \A r \in Slots \ {s} : \A k, view : Built(r, k, view)' <=> Built(r, k, view)
  <2>1. TAKE r \in Slots \ {s}
  <2>2. pg_dir'[r] = pg_dir[r] /\ pg_table'[r] = pg_table[r]
    BY <1>3, SlotNumbers
  <2>3. QED BY <2>2, SameRow
<1>5. \A r \in Slots : Ready(r)' <=> Ready(r)
  BY <1>2 DEF Ready
<1>6. SlotInv' /\ BuildingInv' /\ WipingInv' /\ FreeInv'
  BY <1>2, <1>3, <1>4
     DEF PagingInv, SlotInv, Ready, BuildingInv, WipingInv, FreeInv
<1>7. ReadyInv'
  BY <1>3, <1>4, <1>5 DEF PagingInv, ReadyInv
<1>8. KernelInv'
  BY <1>3, SlotNumbers DEF PagingInv, KernelInv
<1>9. QED BY <1>3, <1>6, <1>7, <1>8 DEF PagingInv

LEMMA SetCr3Step == ASSUME PagingInv, SetCr3 PROVE PagingInv'
<1>1. /\ building = NotBuilding /\ cr3' \in used \union {Boot}
      /\ UNCHANGED <<pg_dir, pg_table, building, used, wiping>>
  BY DEF SetCr3
<1>2. SlotInv'
  BY <1>1, SlotNumbers DEF PagingInv, SlotInv, Ready
<1>3. \A r, k, view : Built(r, k, view)' <=> Built(r, k, view)
  BY <1>1, SameRow
<1>4. PagesType' /\ FreeInv' /\ BuildingInv' /\ ReadyInv' /\ WipingInv' /\ KernelInv'
  BY <1>1, <1>3 DEF PagingInv, PagesType, FreeInv, BuildingInv, ReadyInv, WipingInv,
                    KernelInv, Ready
<1>5. QED BY <1>2, <1>4 DEF PagingInv

LEMMA CleanupDirStep == ASSUME PagingInv, CleanupDir PROVE PagingInv'
<1>1. PICK s \in used \ wiping : /\ pg_dir' = [pg_dir EXCEPT ![s] = EmptyDir]
                                 /\ wiping' = wiping \union {s}
  BY DEF CleanupDir
<1>2. building = NotBuilding /\ UNCHANGED <<pg_table, cr3, building, used>>
  BY DEF CleanupDir
<1>3. s \in Slots /\ s \in Dirs /\ s # None /\ s # Boot /\ EmptyDir \in [PDE -> Int]
  BY SlotNumbers DEF PagingInv, SlotInv, EmptyDir
<1>4. /\ PagesType' /\ pg_dir'[s] = EmptyDir
      /\ \A d \in Dirs \ {s} : pg_dir'[d] = pg_dir[d]
  BY <1>1, <1>2, <1>3 DEF PagingInv, PagesType
<1>5. SlotInv'
  BY <1>1, <1>2, <1>3, SlotNumbers DEF PagingInv, SlotInv, Ready
<1>6. \A r \in Slots \ {s} : \A k, view : Built(r, k, view)' <=> Built(r, k, view)
  <2>1. TAKE r \in Slots \ {s}
  <2>2. pg_dir'[r] = pg_dir[r] /\ pg_table'[r] = pg_table[r]
    BY <1>2, <1>4, SlotNumbers
  <2>3. QED BY <2>2, SameRow
<1>7. \A r \in Slots : Ready(r)' => Ready(r) /\ r # s
  BY <1>1, <1>2, SlotNumbers DEF Ready
<1>8. FreeInv' /\ ReadyInv'
  BY <1>1, <1>2, <1>6, <1>7 DEF PagingInv, FreeInv, ReadyInv
<1>9. BuildingInv' /\ WipingInv'
  BY <1>1, <1>2, <1>3, <1>4, SlotNumbers
     DEF PagingInv, SlotInv, BuildingInv, WipingInv, EmptyDir
<1>10. KernelInv'
  BY <1>2, <1>3, <1>4, SlotNumbers DEF PagingInv, KernelInv
<1>11. QED BY <1>4, <1>5, <1>8, <1>9, <1>10 DEF PagingInv

LEMMA CleanupTableStep == ASSUME PagingInv, CleanupTable PROVE PagingInv'
<1>1. PICK s \in wiping : /\ pg_table' = [pg_table EXCEPT ![s] = EmptyTable]
                          /\ used' = used \ {s} /\ wiping' = wiping \ {s}
  BY DEF CleanupTable
<1>2. building = NotBuilding /\ UNCHANGED <<pg_dir, cr3, building>>
  BY DEF CleanupTable
<1>3. s \in Slots /\ s \in Dirs /\ s # Boot /\ EmptyTable \in [PTE -> Int]
  BY <1>1, <1>2, SlotNumbers DEF PagingInv, SlotInv, Ready, EmptyTable
<1>4. /\ PagesType' /\ pg_table'[s] = EmptyTable
      /\ \A d \in Dirs \ {s} : pg_table'[d] = pg_table[d]
  BY <1>1, <1>2, <1>3 DEF PagingInv, PagesType
<1>5. SlotInv'
  BY <1>1, <1>2, <1>3, SlotNumbers DEF PagingInv, SlotInv, Ready
<1>6. \A r \in Slots \ {s} : \A k, view : Built(r, k, view)' <=> Built(r, k, view)
  <2>1. TAKE r \in Slots \ {s}
  <2>2. pg_dir'[r] = pg_dir[r] /\ pg_table'[r] = pg_table[r]
    BY <1>2, <1>4, SlotNumbers
  <2>3. QED BY <2>2, SameRow
<1>7. \A r \in Slots : Ready(r)' => Ready(r) /\ r # s
  BY <1>1, <1>2, SlotNumbers DEF Ready
<1>8. Built(s, 1, VIDEO)'
  BY <1>1, <1>2, <1>4, Offsets DEF PagingInv, WipingInv, Built, EmptyTable
<1>9. FreeInv' /\ ReadyInv'
  BY <1>1, <1>6, <1>7, <1>8 DEF PagingInv, FreeInv, ReadyInv
<1>10. BuildingInv' /\ WipingInv'
  BY <1>1, <1>2 DEF PagingInv, BuildingInv, WipingInv
<1>11. KernelInv'
  BY <1>2, <1>3, <1>4, SlotNumbers DEF PagingInv, KernelInv
<1>12. QED BY <1>4, <1>5, <1>9, <1>10, <1>11 DEF PagingInv

LEMMA PagingStep == PagingInv /\ [Next]_vars => PagingInv'
<1> SUFFICES ASSUME PagingInv, [Next]_vars PROVE PagingInv'
  OBVIOUS
<1>1. CASE UNCHANGED vars
  BY <1>1 DEF vars, PagingInv, PagesType, SlotInv, FreeInv, BuildingInv, ReadyInv, WipingInv,
              KernelInv, Ready, Built
<1>2. CASE BeginExecute \/ ExecuteNotFound \/ MapNext \/ EnterProgram
  BY <1>2, BeginStep, NotFoundStep, MapStep, EnterStep
<1>3. CASE Remap \/ SetCr3 \/ CleanupDir \/ CleanupTable
  BY <1>3, RemapStep, SetCr3Step, CleanupDirStep, CleanupTableStep
<1>4. QED BY <1>1, <1>2, <1>3 DEF Next

\* What every directory and table holds at every point of a slot's life.
THEOREM PagingInvHolds == Spec => []PagingInv
<1>1. Init => PagingInv
  BY PagingInit
<1>2. PagingInv /\ [Next]_vars => PagingInv'
  BY PagingStep
<1>3. QED BY <1>1, <1>2, PTL DEF Spec

-------------------------------------------------------------------------------
(* Translation *)

LEMMA SharedPages ==
    /\ Shared = {184, 185, 186, 187, 1024} /\ 1024 = FourM
    /\ Virtual = {184, 185, 186, 187, 188, 1024, 32768}
BY Offsets DEF Shared, Virtual, VIDEO_BUFS, FourM

\* The whole address space of a complete directory.
LEMMA BuiltTranslates ==
    ASSUME NEW s \in Slots, NEW view \in Views, Built(s, 8, view)
    PROVE  /\ \A p \in Shared : Translate(s, p) = p
           /\ Translate(s, TASK) = Frame[s] /\ Translate(s, USER_VIDEO) = view
<1>1. /\ pg_dir[s][0] = s /\ pg_dir[s][32] = Frame[s] /\ pg_dir[s][1] = KERNEL
      /\ pg_table[s][185] = 185 /\ pg_table[s][186] = 186 /\ pg_table[s][187] = 187
      /\ pg_table[s][USER_VIDEO] = view /\ pg_table[s][VIDEO] = VIDEO
  BY DEF Built
<1>2. \A v \in PTE : Translate(s, v) = pg_table[s][v]
  BY <1>1, Offsets, SlotNumbers DEF Translate, FourM
<1>3. Translate(s, TASK) = Frame[s] /\ Translate(s, KERNEL) = KERNEL
  BY <1>1, Offsets DEF Translate, FourM
<1>4. QED BY <1>1, <1>2, <1>3, Offsets, SharedPages

\* Nothing is found under a directory that has no entries.
LEMMA CleanTranslates ==
    ASSUME NEW s \in Slots, \A i \in PDE : pg_dir[s][i] = None
    PROVE  \A p \in Virtual : Translate(s, p) = None
<1>1. \A p \in Virtual : DirOffset(p) \in {0, 1, 32}
  BY SharedPages, Offsets DEF DirOffset, FourM
<1>2. QED BY <1>1, Offsets DEF Translate

LEMMA NextMapIsNew == PagingInv => MapsAccepted
<1> SUFFICES ASSUME PagingInv, building.next \in 1 .. 7
             PROVE  CanMap(pg_dir, pg_table, building.slot,
                           Maps(building.slot)[building.next][1])
  BY DEF MapsAccepted
<1> DEFINE s == building.slot
           k == building.next
           v == Maps(s)[k][1]
<1>1. Built(s, k, VIDEO)
  BY SlotBuilding, NextBuilding
<1> HIDE DEF s, k
<1>2. CASE k \in {1, 2, 3, 4, 7}
  <2>1. v = IF k = 7 THEN 184 ELSE 184 + k
    BY <1>2, Offsets DEF Maps
  <2>2. v \in PTE /\ pg_table[s][v] = None
    BY <1>1, <1>2, <2>1, Offsets DEF Built
  <2>3. QED BY <2>2, Offsets DEF CanMap, s, k
<1>3. CASE k \in {5, 6}
  <2>1. v = IF k = 5 THEN TASK ELSE KERNEL
    BY <1>3 DEF Maps
  <2>2. ~(v < FourM) /\ pg_dir[s][DirOffset(v)] = None
    BY <1>1, <1>3, <2>1, Offsets DEF Built
  <2>3. QED BY <2>2 DEF CanMap, s, k
<1>4. QED BY <1>2, <1>3 DEF k

\* MapsAccepted: map_page refuses none of the seven maps of do_execute, whose results it
\* checks, however often the slot was used before.  remap_page, whose result halt and
\* change_terminal ignore, may well find nothing to remap in a cleaned directory.
THEOREM MapsAcceptedHolds == Spec => []MapsAccepted
BY PagingInvHolds, NextMapIsNew, PTL

-------------------------------------------------------------------------------
(* Paging implements AddressSpaces *)

\* A slot has its whole address space while a program may run on it, and else none.
SpaceInv ==
    \A s \in Slots :
        /\ Ready(s) => pg_table[s][USER_VIDEO] \in Views
        /\ SpaceOf(s) = IF Ready(s) THEN Spaces!Whole(s, pg_table[s][USER_VIDEO]) ELSE Nothing

LEMMA SpacesWhole == PagingInv => SpaceInv
<1> SUFFICES ASSUME PagingInv, NEW s \in Slots
             PROVE  /\ Ready(s) => pg_table[s][USER_VIDEO] \in Views
                    /\ SpaceOf(s) = IF Ready(s)
                          THEN Spaces!Whole(s, pg_table[s][USER_VIDEO]) ELSE Nothing
  BY DEF SpaceInv
<1>1. ASSUME Ready(s)
      PROVE  /\ pg_table[s][USER_VIDEO] \in Views
             /\ SpaceOf(s) = Spaces!Whole(s, pg_table[s][USER_VIDEO])
  <2>1. PICK view \in Views : Built(s, 8, view)
    BY <1>1 DEF PagingInv, ReadyInv
  <2>2. pg_table[s][USER_VIDEO] = view
    BY <2>1 DEF Built
  <2>3. SpaceOf(s) = [p \in Virtual |-> Translate(s, p)]
    BY <1>1 DEF SpaceOf, Ready
  <2>4. \A p \in Virtual : Translate(s, p) =
           IF p = TASK THEN Frame[s] ELSE IF p = USER_VIDEO THEN view ELSE p
    BY <2>1, BuiltTranslates DEF Virtual
  <2>5. Spaces!Whole(s, view) = [p \in Virtual |->
           IF p = TASK THEN Frame[s] ELSE IF p = USER_VIDEO THEN view ELSE p]
    BY DEF Spaces!Whole, Virtual
  <2>6. QED BY <2>2, <2>3, <2>4, <2>5
<1>2. ASSUME ~Ready(s) PROVE SpaceOf(s) = Nothing
  <2>1. CASE s = building.slot
    BY <2>1 DEF SpaceOf
  <2>2. CASE s # building.slot
    <3>1. \A i \in PDE : pg_dir[s][i] = None
      <4>1. CASE s \in wiping
        BY <4>1 DEF PagingInv, WipingInv
      <4>2. CASE s \notin used
        BY <4>2, Offsets DEF PagingInv, FreeInv, Built
      <4>3. QED BY <1>2, <2>2, <4>1, <4>2 DEF Ready
    <3>2. QED BY <2>2, <3>1, CleanTranslates DEF SpaceOf, Nothing
  <2>3. QED BY <2>1, <2>2
<1>3. QED BY <1>1, <1>2

LEMMA WholeIsSomething == \A s \in Slots : \A view : Spaces!Whole(s, view) # Nothing
<1> SUFFICES ASSUME NEW s \in Slots, NEW view, Spaces!Whole(s, view) = Nothing PROVE FALSE
  OBVIOUS
<1>1. TASK \in Virtual /\ Frame[s] # None
  BY SlotNumbers DEF Virtual
<1>2. Spaces!Whole(s, view)[TASK] = Frame[s]
  BY DEF Spaces!Whole
<1>3. Nothing[TASK] = None
  BY <1>1 DEF Nothing
<1>4. QED BY <1>1, <1>2, <1>3

\* The variable of AddressSpaces.
AllSpaces == [s \in Slots |-> SpaceOf(s)]

\* What changes for one slot only is a step of AddressSpaces for that slot, or none.
LEMMA OneSpace ==
    ASSUME SpaceInv, SpaceInv', NEW s,
           \A r \in Slots \ {s} : /\ Ready(r)' <=> Ready(r)
                                  /\ Ready(r) => pg_table'[r][USER_VIDEO] = pg_table[r][USER_VIDEO]
    PROVE  AllSpaces' = [AllSpaces EXCEPT ![s] = SpaceOf(s)']
<1>1. \A r \in Slots \ {s} : SpaceOf(r)' = SpaceOf(r)
  <2>1. TAKE r \in Slots \ {s}
  <2>2. SpaceOf(r) = IF Ready(r) THEN Spaces!Whole(r, pg_table[r][USER_VIDEO]) ELSE Nothing
    BY DEF SpaceInv
  <2>3. SpaceOf(r)' = IF Ready(r)' THEN Spaces!Whole(r, pg_table'[r][USER_VIDEO]) ELSE Nothing
    BY DEF SpaceInv, Spaces!Whole, Nothing
  <2>4. QED BY <2>2, <2>3
<1>2. QED BY <1>1 DEF AllSpaces

LEMMA SameSpaces ==
    ASSUME SpaceInv, SpaceInv',
           \A r \in Slots : /\ Ready(r)' <=> Ready(r)
                            /\ Ready(r) => pg_table'[r][USER_VIDEO] = pg_table[r][USER_VIDEO]
    PROVE  AllSpaces' = AllSpaces
<1>1. \A r \in Slots : SpaceOf(r)' = SpaceOf(r)
  <2>1. TAKE r \in Slots
  <2>2. SpaceOf(r) = IF Ready(r) THEN Spaces!Whole(r, pg_table[r][USER_VIDEO]) ELSE Nothing
    BY DEF SpaceInv
  <2>3. SpaceOf(r)' = IF Ready(r)' THEN Spaces!Whole(r, pg_table'[r][USER_VIDEO]) ELSE Nothing
    BY DEF SpaceInv, Spaces!Whole, Nothing
  <2>4. QED BY <2>2, <2>3
<1>2. QED BY <1>1 DEF AllSpaces


SpaceStep == [Spaces!Next]_AllSpaces

\* What do_execute does before it loads the new directory is no step of AddressSpaces.
LEMMA BuildingStutters ==
    ASSUME PagingInv, SpaceInv, SpaceInv', BeginExecute \/ ExecuteNotFound \/ MapNext
    PROVE  AllSpaces' = AllSpaces
<1>1. CASE BeginExecute
  <2>1. PICK s \in Slots : /\ FirstFree(s) /\ used' = used \union {s}
                           /\ building' = [slot |-> s, next |-> 1]
    BY <1>1 DEF BeginExecute
  <2>2. /\ s \notin used /\ building = NotBuilding /\ building'.slot = s
        /\ UNCHANGED <<pg_dir, pg_table, cr3, wiping>>
    BY <1>1, <2>1 DEF BeginExecute, FirstFree
  <2>3. \A r \in Slots : Ready(r)' <=> Ready(r)
    BY <2>1, <2>2, SlotNumbers DEF Ready
  <2>4. QED BY <2>2, <2>3, SameSpaces
<1>2. CASE ExecuteNotFound
  <2>1. /\ building.next = 1 /\ used' = used \ {building.slot} /\ building' = NotBuilding
        /\ UNCHANGED <<pg_dir, pg_table, cr3, wiping>>
    BY <1>2 DEF ExecuteNotFound
  <2>2. \A r \in Slots : Ready(r)' <=> Ready(r)
    BY <2>1, SlotNumbers DEF Ready
  <2>3. QED BY <2>1, <2>2, SameSpaces
<1>3. CASE MapNext
  <2>1. PICK s, k : s = building.slot /\ k = building.next
    OBVIOUS
  <2>2. building # NotBuilding /\ s \in Slots /\ building = [slot |-> s, next |-> k]
    BY <1>3, <2>1, SlotBuilding, NextBuilding DEF MapNext
  <2>3. /\ building' = [building EXCEPT !.next = @ + 1] /\ UNCHANGED <<used, wiping>>
        /\ \A d \in Dirs \ {s} : pg_table'[d] = pg_table[d]
    BY <1>3, <2>1, MapsNext DEF MapNext
  <2>4. building'.slot = s
    BY <2>2, <2>3
  <2>5. \A r \in Slots : Ready(r)' <=> Ready(r)
    BY <2>1, <2>3, <2>4 DEF Ready
  <2>6. \A r \in Slots : Ready(r) => pg_table'[r][USER_VIDEO] = pg_table[r][USER_VIDEO]
    BY <2>1, <2>3, SlotNumbers DEF Ready
  <2>7. QED BY <2>5, <2>6, SameSpaces
<1>4. QED BY <1>1, <1>2, <1>3

\* do_execute loads the new directory: Create.
LEMMA EnterCreates ==
    ASSUME PagingInv, SpaceInv, SpaceInv', EnterProgram PROVE Spaces!Next
<1>1. PICK s : s = building.slot
  OBVIOUS
<1>2. /\ building.next = 8 /\ building' = NotBuilding
      /\ UNCHANGED <<pg_dir, pg_table, used, wiping>>
  BY DEF EnterProgram
<1>3. /\ s \in used /\ s \in Slots /\ s \notin wiping /\ s # None /\ Built(s, 8, VIDEO)
  BY <1>1, <1>2, SlotBuilding, NextBuilding
<1>4. ~Ready(s) /\ Ready(s)'
  BY <1>1, <1>2, <1>3, SlotNumbers DEF Ready
<1>5. \A r \in Slots \ {s} : Ready(r)' <=> Ready(r)
  BY <1>1, <1>2, SlotNumbers DEF Ready
<1>6. SpaceOf(s) = Nothing
  BY <1>3, <1>4 DEF SpaceInv
<1>7. SpaceOf(s)' = Spaces!Whole(s, VIDEO)
  <2>1. pg_table'[s][USER_VIDEO] = VIDEO
    BY <1>2, <1>3 DEF Built
  <2>2. SpaceOf(s)' = Spaces!Whole(s, pg_table'[s][USER_VIDEO])
    BY <1>3, <1>4 DEF SpaceInv, Spaces!Whole
  <2>3. QED BY <2>1, <2>2
<1>8. AllSpaces' = [AllSpaces EXCEPT ![s] = SpaceOf(s)']
  BY <1>2, <1>5, OneSpace
<1>9. Spaces!Create(s)
  BY <1>3, <1>6, <1>7, <1>8 DEF Spaces!Create, AllSpaces
<1>10. QED BY <1>3, <1>9 DEF Spaces!Next

\* change_terminal or halt remaps USER_VIDEO: Show, for a slot that is not in cleanup.
LEMMA RemapShows ==
    ASSUME PagingInv, SpaceInv, SpaceInv', Remap PROVE SpaceStep
<1>1. PICK s \in used, page \in Views :
         Becomes(remap_page(pg_dir, pg_table, s, USER_VIDEO, page))
  BY DEF Remap, Views
<1>2. building = NotBuilding /\ UNCHANGED <<cr3, building, used, wiping>>
  BY DEF Remap
<1>3. /\ s \in Slots /\ \A d \in Dirs \ {s} : pg_table'[d] = pg_table[d]
      /\ Ready(s) => Built(s, 8, page)'
  BY <1>1, <1>2, RemapsSlot
<1>4. /\ \A r \in Slots : Ready(r)' <=> Ready(r)
      /\ \A r \in Slots \ {s} : pg_table'[r][USER_VIDEO] = pg_table[r][USER_VIDEO]
  BY <1>2, <1>3, SlotNumbers DEF Ready
<1>5. CASE Ready(s)
  <2>1. SpaceOf(s) # Nothing
    BY <1>3, <1>5, WholeIsSomething DEF SpaceInv
  <2>2. SpaceOf(s)' = Spaces!Whole(s, page)
    <3>1. pg_table'[s][USER_VIDEO] = page
      BY <1>3, <1>5 DEF Built
    <3>2. SpaceOf(s)' = Spaces!Whole(s, pg_table'[s][USER_VIDEO])
      BY <1>3, <1>4, <1>5 DEF SpaceInv, Spaces!Whole
    <3>3. QED BY <3>1, <3>2
  <2>3. AllSpaces' = [AllSpaces EXCEPT ![s] = SpaceOf(s)']
    BY <1>4, OneSpace
  <2>4. Spaces!Show(s, page)
    BY <1>3, <2>1, <2>2, <2>3 DEF Spaces!Show, AllSpaces
  <2>5. QED BY <1>1, <1>3, <2>4 DEF SpaceStep, Spaces!Next, Views
<1>6. CASE ~Ready(s)
  <2>1. AllSpaces' = AllSpaces
    BY <1>4, <1>6, SameSpaces
  <2>2. QED BY <2>1 DEF SpaceStep
<1>7. QED BY <1>5, <1>6

\* cleanup_pg_dir clears the directory: Destroy, before the table is clean.
LEMMA CleanupDestroys ==
    ASSUME PagingInv, SpaceInv, SpaceInv', CleanupDir PROVE Spaces!Next
<1>1. PICK s \in used \ wiping : wiping' = wiping \union {s}
  BY DEF CleanupDir
<1>2. building = NotBuilding /\ UNCHANGED <<pg_table, building, used>>
  BY DEF CleanupDir
<1>3. s \in Slots /\ Ready(s) /\ ~Ready(s)'
  BY <1>1, <1>2, SlotNumbers DEF PagingInv, SlotInv, Ready
<1>4. \A r \in Slots \ {s} : Ready(r)' <=> Ready(r)
  BY <1>1, <1>2, SlotNumbers DEF Ready
<1>5. SpaceOf(s) # Nothing
  BY <1>3, WholeIsSomething DEF SpaceInv
<1>6. SpaceOf(s)' = Nothing
  BY <1>3 DEF SpaceInv, Nothing
<1>7. AllSpaces' = [AllSpaces EXCEPT ![s] = SpaceOf(s)']
  BY <1>2, <1>4, OneSpace
<1>8. Spaces!Destroy(s)
  BY <1>3, <1>5, <1>6, <1>7 DEF Spaces!Destroy, AllSpaces
<1>9. QED BY <1>3, <1>8 DEF Spaces!Next

LEMMA OthersStutter ==
    ASSUME PagingInv, SpaceInv, SpaceInv', SetCr3 \/ CleanupTable
    PROVE  AllSpaces' = AllSpaces
<1>1. CASE SetCr3
  <2>1. UNCHANGED <<pg_dir, pg_table, building, used, wiping>>
    BY <1>1 DEF SetCr3
  <2>2. QED BY <2>1, SameSpaces DEF Ready
<1>2. CASE CleanupTable
  <2>1. PICK s \in wiping : /\ pg_table' = [pg_table EXCEPT ![s] = EmptyTable]
                            /\ used' = used \ {s} /\ wiping' = wiping \ {s}
    BY <1>2 DEF CleanupTable
  <2>2. building = NotBuilding /\ UNCHANGED <<pg_dir, cr3, building>>
    BY <1>2 DEF CleanupTable
  <2>3. \A r \in Slots : Ready(r)' <=> Ready(r)
    BY <2>1, <2>2, SlotNumbers DEF Ready
  <2>4. \A r \in Slots : Ready(r) => pg_table'[r][USER_VIDEO] = pg_table[r][USER_VIDEO]
    BY <2>1, <2>2, SlotNumbers DEF Ready, PagingInv, PagesType
  <2>5. QED BY <2>3, <2>4, SameSpaces
<1>3. QED BY <1>1, <1>2

LEMMA SpacesInit == Init => Spaces!Init
<1> SUFFICES ASSUME Init PROVE AllSpaces = [s \in Slots |-> Nothing]
  BY DEF Spaces!Init, AllSpaces
<1>1. SpaceInv /\ used = {}
  BY PagingInit, SpacesWhole DEF Init
<1>2. QED BY <1>1 DEF AllSpaces, SpaceInv, Ready

LEMMA SpacesStep ==
    PagingInv /\ SpaceInv /\ SpaceInv' /\ [Next]_vars => SpaceStep
<1> SUFFICES ASSUME PagingInv, SpaceInv, SpaceInv', [Next]_vars PROVE SpaceStep
  OBVIOUS
<1>1. CASE BeginExecute \/ ExecuteNotFound \/ MapNext
  BY <1>1, BuildingStutters DEF SpaceStep
<1>2. CASE EnterProgram
  BY <1>2, EnterCreates DEF SpaceStep
<1>3. CASE Remap
  BY <1>3, RemapShows
<1>4. CASE CleanupDir
  BY <1>4, CleanupDestroys DEF SpaceStep
<1>5. CASE SetCr3 \/ CleanupTable
  BY <1>5, OthersStutter DEF SpaceStep
<1>6. CASE UNCHANGED vars
  <2>1. UNCHANGED <<pg_dir, pg_table, building, used, wiping>>
    BY <1>6 DEF vars
  <2>2. AllSpaces' = AllSpaces
    BY <2>1, SameSpaces DEF Ready
  <2>3. QED BY <2>2 DEF SpaceStep
<1>7. QED BY <1>1, <1>2, <1>3, <1>4, <1>5, <1>6 DEF Next

\* ImplementsSpaces: outside do_execute a slot has the whole address space of its program
\* or none, through cleanups in two steps and the reuse of slots.
THEOREM SpacesImplemented == Spec => ImplementsSpaces
<1>1. Init => Spaces!Init
  BY SpacesInit
<1>2. PagingInv /\ SpaceInv /\ SpaceInv' /\ [Next]_vars => SpaceStep
  BY SpacesStep
<1>3. SpaceStep <=> [Spaces!Next]_([s \in Slots |-> SpaceOf(s)])
  BY DEF SpaceStep, AllSpaces
<1>4. QED BY <1>1, <1>2, <1>3, PagingInvHolds, SpacesWhole, PTL
          DEF Spec, ImplementsSpaces, Spaces!Spec
===============================================================================
