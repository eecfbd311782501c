--------------------------- MODULE DldiDriverProofs ---------------------------
(***************************************************************************)
(* The DLDI driver, proved for every size of the card, of a block, of the     *)
(* cache and of tmp_buf, and for any number of calls.                       *)
(***************************************************************************)
EXTENDS DldiDriver, FiniteSetTheorems, TLAPS

-----------------------------------------------------------------------------
(* Blocks.                                                                  *)

LEMMA AlignedFacts ==
  ASSUME NEW x \in Nat
  PROVE  /\ Aligned(x) \in Nat /\ Aligned(x) <= x /\ x < Aligned(x) + BlockSize
         /\ Aligned(x) % BlockSize = 0
<1> DEFINE i == x \div BlockSize
<1>1. /\ BlockSize \in Nat \ {0} /\ i \in Nat /\ x % BlockSize \in 0..BlockSize-1
      /\ x = i * BlockSize + (x % BlockSize)
  BY SizesAssumption, Z3
<1>2. (i * BlockSize) % BlockSize = 0
  <2> HIDE DEF i
  <2> QED
    BY <1>1
<1>3. Aligned(x) = i * BlockSize
  BY <1>1 DEF Aligned
<1>4. i * BlockSize \in Nat
  BY <1>1
<1> QED
  BY <1>1, <1>2, <1>3, <1>4

LEMMA BlocksApart ==
  ASSUME NEW a \in Nat, NEW b \in Nat, a % BlockSize = 0, b % BlockSize = 0, a < b
  PROVE  a + BlockSize <= b
<1> DEFINE i == a \div BlockSize
           j == b \div BlockSize
<1>1. /\ BlockSize \in Nat \ {0} /\ i \in Int /\ j \in Int
      /\ a = i * BlockSize /\ b = j * BlockSize
  BY SizesAssumption, Z3
<1> HIDE DEF i, j
<1>2. i < j
  <2> SUFFICES ASSUME j <= i PROVE FALSE
    BY <1>1
  <2>1. j * BlockSize <= i * BlockSize
    BY <1>1, Z3
  <2> QED
    BY <1>1, <2>1
<1>3. (i + 1) * BlockSize <= j * BlockSize
  BY <1>1, <1>2, Z3
<1>4. (i + 1) * BlockSize = i * BlockSize + BlockSize
  BY <1>1, Z3
<1> QED
  BY <1>1, <1>3, <1>4

LEMMA BlockOnCard ==
  ASSUME NEW a \in Nat, a % BlockSize = 0, a < NSectors
  PROVE  a + BlockSize <= NSectors
BY SizesAssumption, BlocksApart

-----------------------------------------------------------------------------
(* Types of what decides where the two processors go.                        *)

Jobs == [kind : {"read", "write"}, sector : Sector, num : Nat \ {0}, id : Nat]

Places == {"off", "have", "start", "idle", "loop", "fill", "chunk", "move", "direct", "return"}

WordTypes ==
  /\ word0 \in {"none", "value", "msg", "done"} /\ word1 \in Nat
  /\ pc7 \in {"idle", "value"} /\ ret7 \in {0, 1}
  /\ seen \in BOOLEAN /\ broken \in BOOLEAN

CacheTypes ==
  /\ mode \in {"none", "direct", "plain", "cached"}
  /\ cacheDescriptor \in [Slot -> Int] /\ cacheCounter \in [Slot -> Nat]
  /\ cacheAllocated \in 0..NSlots /\ accessCounter \in Nat
  /\ owner \in [Slot -> {7, 9}] /\ slot \in Slot

CallTypes ==
  /\ pc9 \in Places
  /\ sector \in Nat /\ num \in Nat /\ ahead \in Nat /\ numreads \in Nat
  /\ job \in Jobs /\ job.sector + job.num <= NSectors

Types == WordTypes /\ CacheTypes /\ CallTypes

(* Every non-empty set of naturals has a least element.                     *)
LEMMA LeastExists ==
  ASSUME NEW T, T \subseteq Nat, T # {}
  PROVE  \E x \in T : \A y \in T : x <= y
<1> DEFINE I == {0..x : x \in T}
<1>1. I \subseteq FiniteSubsetsOf(Nat)
  <2> SUFFICES ASSUME NEW x \in T PROVE 0..x \in FiniteSubsetsOf(Nat)
    OBVIOUS
  <2>1. IsFiniteSet(0..x)
    BY FS_Interval
  <2> QED
    BY <2>1 DEF FiniteSubsetsOf
<1>2. I # {}
  OBVIOUS
<1>3. PICK J \in I : \A K \in I : ~ (<<K, J>> \in StrictSubsetOrdering(Nat))
  <2> HIDE DEF I
  <2> QED
    BY <1>1, <1>2, FS_StrictSubsetOrderingWellFounded, WFMin
<1>4. PICK x \in T : J = 0..x
  BY <1>3
<1>5. ASSUME NEW y \in T, y < x PROVE FALSE
  <2>1. /\ 0..y \subseteq Nat /\ 0..x \subseteq Nat
        /\ 0..y \subseteq 0..x /\ 0..y # 0..x
    BY <1>5
  <2>2. <<0..y, 0..x>> \in StrictSubsetOrdering(Nat)
    BY <2>1 DEF StrictSubsetOrdering
  <2> QED
    BY <1>3, <1>4, <2>2
<1> QED
  BY <1>5

(* allocateCacheSlot: the last of the slots 1..n whose counter is lowest.     *)
LEMMA LastLowestExists ==
  ASSUME NEW n \in Nat \ {0}, NEW counter, \A s \in 1..n : counter[s] \in Nat,
         NEW lowest,
         lowest = {s \in 1..n : \A t \in 1..n : counter[s] <= counter[t]}
  PROVE  \E s \in lowest : \A t \in lowest : t <= s
<1>1. \E s \in 1..n : \A t \in 1..n : counter[s] <= counter[t]
  <2> DEFINE C == {counter[s] : s \in 1..n}
  <2>1. C \subseteq Nat /\ C # {}
    OBVIOUS
  <2>2. \E c \in C : \A d \in C : c <= d
    <3> HIDE DEF C
    <3> QED
      BY <2>1, LeastExists
  <2> QED
    BY <2>2
<1> DEFINE D == {n - s : s \in lowest}
<1>2. D \subseteq Nat /\ D # {}
  BY <1>1
<1>3. \E c \in D : \A d \in D : c <= d
  <2> HIDE DEF D
  <2> QED
    BY <1>2, LeastExists
<1>4. PICK s \in lowest : \A d \in D : n - s <= d
  BY <1>3
<1>5. ASSUME NEW t \in lowest PROVE t <= s
  <2>1. n - s <= n - t
    BY <1>4
  <2> QED
    BY <2>1
<1> QED
  BY <1>5

(* What getSlotForSector finds, if it finds a slot.                          *)
LEMMA SlotForSectorFinds ==
  ASSUME Types, NEW a, SlotForSector(a) # 0
  PROVE  SlotForSector(a) \in Allocated /\ cacheDescriptor[SlotForSector(a)] = a
<1> DEFINE owners == {s \in Allocated : cacheDescriptor[s] = a}
<1>1. owners # {}
  BY DEF SlotForSector
<1>2. \E s \in owners : \A t \in owners : s <= t
  <2>1. owners \subseteq Nat
    BY DEF Allocated, Types, CacheTypes, CallTypes
  <2> HIDE DEF owners
  <2> QED
    BY <1>1, <2>1, LeastExists
<1> QED
  BY <1>1, <1>2 DEF SlotForSector

LEMMA SlotForSectorMisses ==
  ASSUME Types, NEW a, SlotForSector(a) = 0, NEW s \in Allocated
  PROVE  cacheDescriptor[s] # a
<1> DEFINE owners == {t \in Allocated : cacheDescriptor[t] = a}
<1> SUFFICES ASSUME owners # {} PROVE FALSE
  OBVIOUS
<1>1. \E t \in owners : \A u \in owners : t <= u
  <2>1. owners \subseteq Nat
    BY DEF Allocated, Types, CacheTypes, CallTypes
  <2> HIDE DEF owners
  <2> QED
    BY <2>1, LeastExists
<1>2. SlotForSector(a) \in owners
  BY <1>1 DEF SlotForSector
<1> QED
  BY <1>2 DEF Allocated, Types, CacheTypes, CallTypes

(* allocateCacheSlot finds a slot, and the first unused one if there is one.  *)
LEMMA AllocateCacheSlotFinds ==
  ASSUME Types, NEW n \in 1..NSlots
  PROVE  /\ AllocateCacheSlot(n) \in 1..n
         /\ (\E s \in 1..n : cacheCounter[s] = 0) =>
              cacheCounter[AllocateCacheSlot(n)] = 0
<1> DEFINE fresh  == {s \in 1..n : cacheCounter[s] = 0}
           lowest == {s \in 1..n : \A t \in 1..n : cacheCounter[s] <= cacheCounter[t]}
<1>0. n \in Nat \ {0} /\ \A s \in 1..n : s \in Slot /\ cacheCounter[s] \in Nat
  BY SizesAssumption DEF Types, CacheTypes, CallTypes, Slot
<1>1. CASE fresh # {}
  <2>1. \E s \in fresh : \A t \in fresh : s <= t
    <3>1. fresh \subseteq Nat
      OBVIOUS
    <3> HIDE DEF fresh
    <3> QED
      BY <1>1, <3>1, LeastExists
  <2> QED
    BY <1>1, <2>1 DEF AllocateCacheSlot
<1>2. CASE fresh = {}
  <2>1. \E s \in lowest : \A t \in lowest : t <= s
    BY <1>0, LastLowestExists
  <2> QED
    BY <1>2, <2>1 DEF AllocateCacheSlot
<1> QED
  BY <1>1, <1>2

(* The slot of a miss.                                                      *)
LEMMA NewSlot ==
  ASSUME Types
  PROVE  /\ Smaller(cacheAllocated + 1, NSlots) \in 1..NSlots
         /\ AllocateCacheSlot(Smaller(cacheAllocated + 1, NSlots)) \in Slot
<1>1. Smaller(cacheAllocated + 1, NSlots) \in 1..NSlots
  BY SizesAssumption DEF Types, CacheTypes, CallTypes, Smaller
<1> QED
  BY <1>1, AllocateCacheSlotFinds, SizesAssumption DEF Slot

(* How far a part of a call reaches.                                        *)
LEMMA PartFits ==
  ASSUME Types
  PROVE  /\ InBlock(Aligned(sector)) \in 0..num
         /\ sector - Aligned(sector) + InBlock(Aligned(sector)) <= BlockSize
         /\ num > 0 => InBlock(Aligned(sector)) > 0
         /\ num > InBlock(Aligned(sector)) =>
              Aligned(sector) + BlockSize = sector + InBlock(Aligned(sector))
<1>1. sector \in Nat /\ num \in Nat
  BY DEF Types, CacheTypes, CallTypes
<1>2. Aligned(sector) \in Nat /\ Aligned(sector) <= sector /\ sector < Aligned(sector) + BlockSize
  BY <1>1, AlignedFacts
<1> QED
  BY <1>1, <1>2, SizesAssumption DEF InBlock

(* What CopyPart does to the place of the driver.                           *)
LEMMA CopyPartTypes ==
  ASSUME Types, NEW s, CopyPart(s, Aligned(sector))
  PROVE  /\ sector' \in Nat /\ num' \in Nat /\ ahead' \in Nat /\ numreads' \in Nat
         /\ accessCounter' \in Nat /\ pc9' \in {"loop", "return", "chunk"} /\ job' = job
<1> DEFINE len2 == InBlock(Aligned(sector))
<1>1. len2 \in 0..num
  BY PartFits
<1>2. sector \in Nat /\ num \in Nat /\ ahead \in Nat /\ numreads \in Nat /\ accessCounter \in Nat
      /\ job.num \in Nat
  BY DEF Types, CacheTypes, CallTypes, Jobs
<1>3. numreads' = numreads /\ job' = job
  BY DEF CopyPart
<1>4. \/ /\ num > len2 /\ num' = num - len2 /\ sector' = sector + len2
         /\ ahead' = ahead + len2 /\ accessCounter' = accessCounter + 1 /\ pc9' = "loop"
      \/ /\ UNCHANGED <<sector, ahead, accessCounter>> /\ num' \in {0, job.num}
         /\ pc9' \in {"return", "chunk"}
  BY DEF CopyPart
<1> QED
  BY <1>1, <1>2, <1>3, <1>4

LEMMA UpdateDescriptorTypes ==
  ASSUME Types, NEW s \in Slot, NEW a \in Int, UpdateDescriptor(s, a)
  PROVE  cacheDescriptor' \in [Slot -> Int] /\ cacheCounter' \in [Slot -> Nat]
BY DEF UpdateDescriptor, Types, CacheTypes, CallTypes

LEMMA TypesInit == Init => Types
<1> SUFFICES ASSUME Init PROVE Types
  OBVIOUS
<1>1. WordTypes
  BY DEF Init, WordTypes
<1>2. CacheTypes
  BY SizesAssumption DEF Init, CacheTypes, Slot
<1>3. CallTypes
  <2>1. job \in Jobs /\ job.sector + job.num <= NSectors
    BY SizesAssumption DEF Init, Jobs, Sector
  <2> QED
    BY <2>1 DEF Init, CallTypes, Places
<1> QED
  BY <1>1, <1>2, <1>3 DEF Types

LEMMA WordTypesKept == Types /\ [Next]_vars => WordTypes'
<1> SUFFICES ASSUME WordTypes, [Next]_vars PROVE WordTypes'
  BY DEF Types
<1> USE DEF WordTypes, words, arm7
<1>1. CASE Startup
  <2>1. UNCHANGED words \/ (word0' = "value" /\ word1' = 0)
    BY <1>1 DEF Startup, SendValue32, HaveSd
  <2>2. seen' \in BOOLEAN
    BY <1>1 DEF Startup
  <2>3. UNCHANGED <<arm7, broken>>
    BY <1>1 DEF Startup
  <2> QED
    BY <2>1, <2>2, <2>3
<1>2. CASE WaitValue32 \/ HaveTimeout \/ StartDone
  BY <1>2 DEF WaitValue32, HaveTimeout, StartDone
<1>3. CASE HaveDone
  <2>1. UNCHANGED words \/ (word0' = "value" /\ word1' = 1)
    BY <1>3 DEF HaveDone, SendValue32, SdStart
  <2>3. seen' \in BOOLEAN
    BY <1>3 DEF HaveDone
  <2>2. UNCHANGED <<arm7, broken>>
    BY <1>3 DEF HaveDone
  <2> QED
    BY <2>1, <2>2, <2>3
<1>4. CASE Begin \/ Direct \/ CacheHit \/ FillDone \/ MoveDone \/ ChunksEnd \/ Return
  BY <1>4 DEF Begin, Direct, CacheHit, FillDone, MoveDone, ChunksEnd, Return
<1>5. CASE CacheMiss \/ Chunk
  <2>1. word0' = "msg" /\ word1' = 1 /\ seen' = FALSE
    BY <1>5 DEF CacheMiss, Chunk, SendMsg, MsgSize
  <2>2. UNCHANGED <<arm7, broken>>
    BY <1>5 DEF CacheMiss, Chunk
  <2> QED
    BY <2>1, <2>2
<1>6. CASE AnswerValue \/ SendResult
  BY <1>6 DEF AnswerValue, SendResult
<1>7. CASE ReadMsg \/ WriteMsg
  BY <1>7 DEF ReadMsg, WriteMsg, Answer
<1>8. CASE UNCHANGED vars
  BY <1>8 DEF vars
<1> QED
  BY <1>1, <1>2, <1>3, <1>4, <1>5, <1>6, <1>7, <1>8 DEF Next, Driver, Engine

LEMMA CacheTypesKept == Types /\ [Next]_vars => CacheTypes'
<1> SUFFICES ASSUME Types, CacheTypes, [Next]_vars PROVE CacheTypes'
  BY DEF Types
<1> USE DEF CacheTypes, cache
<1>1. CASE Startup
  BY <1>1 DEF Startup
<1>2. CASE WaitValue32 \/ HaveTimeout \/ HaveDone \/ StartDone
  BY <1>2 DEF WaitValue32, HaveTimeout, HaveDone, StartDone
<1>3. CASE Begin
  BY <1>3 DEF Begin
<1>4. CASE Direct \/ Chunk \/ MoveDone \/ ChunksEnd \/ Return
  BY <1>4 DEF Direct, Chunk, MoveDone, ChunksEnd, Return
<1>5. CASE CacheHit
  <2> DEFINE s == SlotForSector(Aligned(sector))
  <2>1. s \in Slot /\ UpdateDescriptor(s, Aligned(sector)) /\ CopyPart(s, Aligned(sector))
        /\ slot' = s
    BY <1>5, SlotForSectorFinds, SizesAssumption DEF CacheHit, Allocated, Slot
  <2>2. Aligned(sector) \in Int
    BY AlignedFacts DEF Types, CallTypes
  <2>3. cacheDescriptor' \in [Slot -> Int] /\ cacheCounter' \in [Slot -> Nat]
    BY <2>1, <2>2, UpdateDescriptorTypes
  <2>4. accessCounter' \in Nat
    BY <2>1, CopyPartTypes
  <2>5. UNCHANGED <<mode, cacheAllocated, owner>>
    BY <1>5 DEF CacheHit
  <2> QED
    BY <2>1, <2>3, <2>4, <2>5
<1>6. CASE CacheMiss
  <2>1. AllocateCacheSlot(Smaller(cacheAllocated + 1, NSlots)) \in Slot
        /\ Smaller(cacheAllocated + 1, NSlots) \in 1..NSlots
    BY NewSlot
  <2>2. owner' \in [Slot -> {7, 9}]
    BY <1>6, <2>1 DEF CacheMiss, TransferToArm7
  <2>3. cacheAllocated' \in 0..NSlots /\ slot' \in Slot
        /\ UNCHANGED <<mode, cacheDescriptor, cacheCounter, accessCounter>>
    BY <1>6, <2>1 DEF CacheMiss
  <2> QED
    BY <2>2, <2>3
<1>7. CASE FillDone
  <2>1. Aligned(sector) \in Int /\ slot \in Slot
    BY AlignedFacts DEF Types, CallTypes
  <2>2. UpdateDescriptor(slot, Aligned(sector)) /\ CopyPart(slot, Aligned(sector))
    BY <1>7 DEF FillDone
  <2>3. cacheDescriptor' \in [Slot -> Int] /\ cacheCounter' \in [Slot -> Nat]
    BY <2>1, <2>2, UpdateDescriptorTypes
  <2>4. accessCounter' \in Nat
    BY <2>2, CopyPartTypes
  <2>5. owner' \in [Slot -> {7, 9}] /\ UNCHANGED <<mode, cacheAllocated, slot>>
    BY <1>7 DEF FillDone, TransferToArm9
  <2> QED
    BY <2>3, <2>4, <2>5
<1>8. CASE Engine
  BY <1>8 DEF Engine, AnswerValue, ReadMsg, WriteMsg, SendResult
<1>9. CASE UNCHANGED vars
  BY <1>9 DEF vars
<1> QED
  BY <1>1, <1>2, <1>3, <1>4, <1>5, <1>6, <1>7, <1>8, <1>9 DEF Next, Driver

LEMMA CallTypesKept == Types /\ [Next]_vars => CallTypes'
<1> SUFFICES ASSUME Types, CallTypes, [Next]_vars PROVE CallTypes'
  BY DEF Types
<1> USE DEF CallTypes, Places, locals, call
<1>1. CASE Startup
  BY <1>1 DEF Startup
<1>2. CASE WaitValue32 \/ HaveTimeout \/ HaveDone \/ StartDone
  BY <1>2 DEF WaitValue32, HaveTimeout, HaveDone, StartDone
<1>3. CASE Begin
  <2>1. job' \in Jobs /\ job'.sector + job'.num <= NSectors
        /\ sector' \in Nat /\ num' \in Nat
    BY <1>3, SizesAssumption DEF Begin, Jobs, Sector
  <2>2. ahead' = 0 /\ numreads' = 0 /\ pc9' \in {"loop", "direct", "chunk"}
    BY <1>3 DEF Begin
  <2> QED
    BY <2>1, <2>2
<1>4. CASE Direct \/ Chunk \/ ChunksEnd \/ Return
  BY <1>4 DEF Direct, Chunk, ChunksEnd, Return
<1>5. CASE MoveDone
  BY <1>5, SizesAssumption DEF MoveDone
<1>6. CASE CacheHit \/ FillDone
  <2>1. PICK s : CopyPart(s, Aligned(sector))
    BY <1>6 DEF CacheHit, FillDone
  <2> QED
    BY <2>1, CopyPartTypes
<1>7. CASE CacheMiss
  BY <1>7 DEF CacheMiss
<1>8. CASE Engine
  BY <1>8 DEF Engine, AnswerValue, ReadMsg, WriteMsg, SendResult
<1>9. CASE UNCHANGED vars
  BY <1>9 DEF vars
<1> QED
  BY <1>1, <1>2, <1>3, <1>4, <1>5, <1>6, <1>7, <1>8, <1>9 DEF Next, Driver

LEMMA TypesKept == Types /\ [Next]_vars => Types'
BY WordTypesKept, CacheTypesKept, CallTypesKept DEF Types

-----------------------------------------------------------------------------
LEMMA BanksApartKept == Types /\ BanksApart /\ [Next]_vars => BanksApart'
<1> SUFFICES ASSUME Types, BanksApart, [Next]_vars PROVE BanksApart'
  OBVIOUS
<1>0. owner \in [Slot -> {7, 9}] /\ slot \in Slot
  BY DEF Types, CacheTypes
<1>1. CASE Startup
  BY <1>1 DEF Startup, BanksApart
<1>2. CASE UNCHANGED owner /\ pc9 # "fill" /\ pc9' # "fill"
  BY <1>2 DEF BanksApart
<1>3. CASE UNCHANGED <<owner, slot, pc9>>
  BY <1>3 DEF BanksApart
<1>4. CASE CacheMiss
  <2>1. AllocateCacheSlot(Smaller(cacheAllocated + 1, NSlots)) \in Slot
    BY NewSlot
  <2> QED
    BY <1>0, <1>4, <2>1 DEF BanksApart, CacheMiss, TransferToArm7
<1>5. CASE FillDone
  <2>1. pc9' # "fill"
    BY <1>5, CopyPartTypes DEF FillDone
  <2> QED
    BY <1>0, <1>5, <2>1 DEF BanksApart, FillDone, TransferToArm9
<1>6. ASSUME CacheHit PROVE UNCHANGED owner /\ pc9 # "fill" /\ pc9' # "fill"
  BY <1>6, CopyPartTypes DEF CacheHit
<1>7. ASSUME WaitValue32 \/ Engine PROVE UNCHANGED <<owner, slot, pc9>>
  BY <1>7 DEF WaitValue32, Engine, AnswerValue, ReadMsg, WriteMsg, SendResult
<1>8. ASSUME \/ Begin \/ HaveTimeout \/ HaveDone \/ StartDone \/ Direct \/ Chunk \/ MoveDone
             \/ ChunksEnd \/ Return
      PROVE UNCHANGED owner /\ pc9 # "fill" /\ pc9' # "fill"
  BY <1>8 DEF Begin, HaveTimeout, HaveDone, StartDone, Direct, Chunk, MoveDone, ChunksEnd, Return
<1> QED
  BY <1>1, <1>2, <1>3, <1>4, <1>5, <1>6, <1>7, <1>8 DEF Next, Driver, vars

-----------------------------------------------------------------------------
(* Where a call stands, when no write reaches over the end of a block.        *)

Positions ==
  /\ mode # "cached" \/ pc9 \in {"off", "have", "start"} => cacheAllocated = 0
  /\ pc9 \in {"loop", "fill"} =>
       /\ mode = "cached" /\ num >= 1 /\ accessCounter >= 1 /\ numreads = 0
       /\ job.sector <= sector /\ sector + num = job.sector + job.num
       /\ job.kind = "write" => /\ sector = job.sector /\ ahead = 0
                                /\ sector - Aligned(sector) + num <= BlockSize
  /\ pc9 \in {"chunk", "move"} =>
       /\ sector = job.sector /\ num = job.num /\ ahead = 0
       /\ job.kind = "read" => mode # "cached"
  /\ pc9 = "move" => numreads < num
  /\ pc9 = "direct" => mode = "direct"

(* What the words hold: the message is that of the driver's wait.             *)
FillMsg == [type |-> "read", startsector |-> Aligned(sector), numsectors |-> BlockSize,
            buffer |-> slot]
MoveMsg == [type |-> job.kind, startsector |-> sector + numreads, numsectors |-> ChunkLen,
            buffer |-> 0]

Messages ==
  /\ word0 = "msg" => pc9 \in {"fill", "move"} /\ ~seen
  /\ pc9 \in {"fill", "move"} => word0 \in {"msg", "done"}
  /\ pc9 = "fill" /\ word0 = "msg" => msg = FillMsg
  /\ pc9 = "move" /\ word0 = "msg" => msg = MoveMsg
  /\ pc9 \in {"fill", "move"} /\ seen => word0 = "done"

(* What the sectors of the card, the slots and the buffers are made of.       *)
Value == (Nat \X Nat) \cup {Junk}

Contents ==
  /\ disc \in [Sector -> Value] /\ slotData \in [Slot -> [Inner -> Value]]
  /\ tmp \in Seq(Value) /\ got \in Seq(Value)
  /\ pc9 = "move" /\ (job.kind = "write" \/ word0 = "done") => Len(tmp) = ChunkLen

Lengths ==
  job.kind = "read" =>
    /\ pc9 \in {"loop", "fill"} => Len(got) = sector - job.sector
    /\ pc9 \in {"chunk", "move"} => Len(got) = Smaller(numreads, num)
    /\ pc9 = "direct" => Len(got) = 0
    /\ pc9 = "return" => Len(got) = job.num

(* The slots that hold a block, which is all in use but the one being filled,  *)
(* hold different ones, and their counters tell them from those never used.   *)
Held == Allocated \ (IF pc9 = "fill" THEN {slot} ELSE {})

Blocks ==
  /\ \A s \in Held : /\ cacheDescriptor[s] \in Sector
                     /\ cacheDescriptor[s] % BlockSize = 0
                     /\ cacheCounter[s] > 0
  /\ \A s, t \in Held : s # t => cacheDescriptor[s] # cacheDescriptor[t]
  /\ \A s \in Slot \ Allocated : cacheCounter[s] = 0
  /\ pc9 = "fill" => /\ slot \in Allocated
                     /\ \A s \in Held : cacheDescriptor[s] # Aligned(sector)

(* What a sector will hold when the write under way is over.                 *)
Expected(x) ==
  IF pc9 \in {"chunk", "move"} /\ job.kind = "write" /\ x \in Extent(job)
  THEN Cell(job, x) ELSE disc[x]

(* While no transfer has failed: the slots hold what the card will, a          *)
(* transfer that was answered has been made, and a write has reached the       *)
(* card as far as the driver has come.                                      *)
Coherent ==
  ~broken =>
    /\ \A s \in Held : \A j \in Inner : slotData[s][j] = Expected(cacheDescriptor[s] + j)
    /\ pc9 = "fill" /\ word0 = "done" =>
         \A j \in Inner : slotData[slot][j] = disc[Aligned(sector) + j]

Written ==
  ~broken /\ job.kind = "write" =>
    /\ pc9 \in {"chunk", "move"} =>
         \A x \in Extent(job) : x < sector + numreads => disc[x] = Cell(job, x)
    /\ pc9 = "move" =>
         \A i \in 1..ChunkLen : tmp[i] = Cell(job, sector + numreads + i - 1)
    /\ pc9 = "move" /\ word0 = "done" =>
         \A x \in Extent(job) : x < sector + numreads + ChunkLen => disc[x] = Cell(job, x)
    /\ pc9 = "return" => \A x \in Extent(job) : disc[x] = Cell(job, x)

Fetched ==
  ~broken /\ pc9 = "move" /\ job.kind = "read" /\ word0 = "done" =>
    \A i \in 1..ChunkLen : tmp[i] = disc[sector + numreads + i - 1]

LEMMA CopyPartPlace ==
  ASSUME Types, Positions, pc9 \in {"loop", "fill"}, NEW s, CopyPart(s, Aligned(sector))
  PROVE  /\ InBlock(Aligned(sector)) \in 1..num
         /\ UNCHANGED <<numreads, job>>
         /\ \/ /\ job.kind = "read" /\ num > InBlock(Aligned(sector)) /\ pc9' = "loop"
               /\ num' = num - InBlock(Aligned(sector))
               /\ sector' = sector + InBlock(Aligned(sector))
               /\ accessCounter' = accessCounter + 1
            \/ /\ job.kind = "read" /\ num = InBlock(Aligned(sector)) /\ pc9' = "return"
            \/ /\ job.kind = "write" /\ num = InBlock(Aligned(sector)) /\ pc9' = "chunk"
               /\ num' = job.num /\ UNCHANGED <<sector, ahead>>
<1> DEFINE len2 == InBlock(Aligned(sector))
<1>1. len2 \in 1..num
  BY PartFits DEF Types, CallTypes, Positions
<1>2. UNCHANGED <<numreads, job>>
  BY DEF CopyPart
<1>3. job.kind \in {"read", "write"}
  BY DEF Types, CallTypes, Jobs
<1>4. job.kind = "write" => len2 = num
  <2>1. sector \in Nat /\ num \in Nat /\ BlockSize \in Nat
    BY SizesAssumption DEF Types, CallTypes
  <2>2. Aligned(sector) \in Nat
    BY <2>1, AlignedFacts
  <2>3. job.kind = "write" => sector - Aligned(sector) + num <= BlockSize
    BY DEF Positions
  <2> QED
    BY <2>1, <2>2, <2>3 DEF InBlock
<1>5. CASE num > len2
  <2>1. /\ num' = num - len2 /\ sector' = sector + len2
        /\ accessCounter' = accessCounter + 1 /\ pc9' = "loop"
    BY <1>5 DEF CopyPart
  <2>2. job.kind = "read"
    BY <1>1, <1>3, <1>4, <1>5
  <2>3. accessCounter' = accessCounter + 1
    BY <2>1
  <2>4. pc9' = "loop"
    BY <2>1
  <2>5. num' = num - len2 /\ sector' = sector + len2
    BY <2>1
  <2> QED
    BY <1>1, <1>2, <1>5, <2>2, <2>3, <2>4, <2>5, Zenon
<1>6. CASE ~(num > len2)
  <2>1. num = len2
    BY <1>1, <1>6 DEF Types, CallTypes
  <2>2. UNCHANGED <<sector, ahead>>
    BY <1>6 DEF CopyPart
  <2>3. job.kind = "read" => pc9' = "return"
    BY <1>6 DEF CopyPart
  <2>4. job.kind = "write" => pc9' = "chunk" /\ num' = job.num
    BY <1>6 DEF CopyPart
  <2> QED
    BY <1>1, <1>2, <1>3, <2>1, <2>2, <2>3, <2>4
<1> QED
  BY <1>5, <1>6

LEMMA PositionsKept ==
  ASSUME Types, Positions, LongWrites = FALSE, [Next]_vars
  PROVE  Positions'
<1> USE DEF Positions, words, cache, locals, call
<1>1. CASE Startup
  <2>1. pc9 = "off" /\ pc9' \in {"off", "idle", "have"} /\ UNCHANGED cacheAllocated
    BY <1>1 DEF Startup
  <2> QED
    BY <2>1
<1>2. CASE WaitValue32 \/ Engine
  <2>1. UNCHANGED <<mode, pc9, cacheAllocated, accessCounter, locals, job>>
    BY <1>2 DEF WaitValue32, Engine, AnswerValue, ReadMsg, WriteMsg, SendResult
  <2> QED
    BY <2>1 DEF Aligned
<1>3. CASE HaveTimeout \/ HaveDone \/ StartDone
  <2>1. /\ pc9 \in {"have", "start"} /\ pc9' \in {"off", "start", "idle"}
        /\ UNCHANGED <<mode, cacheAllocated>>
    BY <1>3 DEF HaveTimeout, HaveDone, StartDone
  <2> QED
    BY <2>1
<1>4. CASE Begin
  <2>1. /\ pc9 = "idle" /\ ahead' = 0 /\ numreads' = 0 /\ UNCHANGED <<mode, cacheAllocated>>
    BY <1>4 DEF Begin
  <2>2. sector' = job'.sector /\ num' = job'.num /\ job'.sector \in Nat /\ job'.num \in 1..NSectors
    BY <1>4, SizesAssumption DEF Begin, Sector
  <2>3. mode = "cached" => pc9' = "loop" /\ accessCounter' = accessCounter + 1
    BY <1>4 DEF Begin
  <2>4. mode # "cached" => pc9' = IF mode = "direct" THEN "direct" ELSE "chunk"
    BY <1>4 DEF Begin
  <2>5. mode = "cached" /\ job'.kind = "write" =>
          sector' - Aligned(sector)' + num' <= BlockSize
    BY <1>4 DEF Begin, Aligned
  <2>6. accessCounter \in Nat
    BY DEF Types, CacheTypes
  <2> QED
    BY <2>1, <2>2, <2>3, <2>4, <2>5, <2>6, SizesAssumption
<1>5. CASE Direct \/ ChunksEnd \/ Return
  <2>1. pc9' \in {"return", "idle"} /\ pc9 \notin {"off", "have", "start"}
        /\ UNCHANGED <<mode, cacheAllocated>>
    BY <1>5 DEF Direct, ChunksEnd, Return
  <2> QED
    BY <2>1
<1>6. CASE CacheHit \/ FillDone
  <2>1. PICK s : CopyPart(s, Aligned(sector))
    BY <1>6 DEF CacheHit, FillDone
  <2>2. pc9 \in {"loop", "fill"} /\ UNCHANGED <<mode, cacheAllocated>>
    BY <1>6 DEF CacheHit, FillDone
  <2>3. accessCounter \in Nat /\ sector \in Nat /\ num \in Nat /\ job.num \in Nat
        /\ job.sector \in Nat
    BY SizesAssumption DEF Types, CacheTypes, CallTypes, Jobs, Sector
  <2> QED
    BY <2>1, <2>2, <2>3, CopyPartPlace
<1>7. CASE CacheMiss
  <2>1. pc9 = "loop" /\ pc9' = "fill" /\ UNCHANGED <<mode, accessCounter, locals, job>>
    BY <1>7 DEF CacheMiss
  <2> QED
    BY <2>1 DEF Aligned
<1>8. CASE Chunk
  <2>1. /\ pc9 = "chunk" /\ pc9' = "move" /\ numreads < num
        /\ UNCHANGED <<mode, cacheAllocated, locals, job>>
    BY <1>8 DEF Chunk
  <2> QED
    BY <2>1
<1>9. CASE MoveDone
  <2>1. /\ pc9 = "move" /\ pc9' = "chunk"
        /\ UNCHANGED <<mode, cacheAllocated, sector, num, ahead, job>>
    BY <1>9 DEF MoveDone
  <2> QED
    BY <2>1
<1>10. CASE UNCHANGED vars
  <2>1. UNCHANGED <<mode, pc9, cacheAllocated, accessCounter, locals, job>>
    BY <1>10 DEF vars
  <2> QED
    BY <2>1 DEF Aligned
<1> QED
  BY <1>1, <1>2, <1>3, <1>4, <1>5, <1>6, <1>7, <1>8, <1>9, <1>10 DEF Next, Driver

LEMMA MessagesKept ==
  ASSUME Types, Messages, [Next]_vars
  PROVE  Messages'
<1> USE DEF Messages, words, cache, locals, call
<1>1. CASE Startup \/ HaveTimeout \/ HaveDone \/ StartDone
  <2>1. pc9 \in {"off", "have", "start"} /\ pc9' \in {"off", "idle", "have", "start"}
    BY <1>1 DEF Startup, HaveTimeout, HaveDone, StartDone
  <2>2. UNCHANGED word0 \/ word0' = "value"
    BY <1>1 DEF Startup, HaveTimeout, HaveDone, StartDone, SendValue32
  <2> QED
    BY <2>1, <2>2
<1>2. CASE WaitValue32
  <2>1. word0 = "done" /\ UNCHANGED <<word0, pc9, msg>>
    BY <1>2 DEF WaitValue32, Answered
  <2> QED
    BY <2>1
<1>3. CASE Begin \/ Direct \/ CacheHit \/ ChunksEnd \/ Return
  <2>1. pc9 \notin {"fill", "move"} /\ UNCHANGED word0
    BY <1>3 DEF Begin, Direct, CacheHit, ChunksEnd, Return
  <2>2. pc9' \notin {"fill", "move"}
    BY <1>3, CopyPartTypes DEF Begin, Direct, CacheHit, ChunksEnd, Return
  <2> QED
    BY <2>1, <2>2
<1>4. CASE FillDone \/ MoveDone
  <2>1. pc9 \in {"fill", "move"} /\ word0 = "done" /\ UNCHANGED word0
    BY <1>4 DEF FillDone, MoveDone
  <2>2. pc9' \notin {"fill", "move"}
    BY <1>4, CopyPartTypes DEF FillDone, MoveDone
  <2> QED
    BY <2>1, <2>2
<1>5. CASE CacheMiss
  <2>1. /\ pc9' = "fill" /\ word0' = "msg" /\ seen' = FALSE /\ UNCHANGED sector
        /\ msg' = [type |-> "read", startsector |-> Aligned(sector), numsectors |-> BlockSize,
                   buffer |-> slot']
    BY <1>5 DEF CacheMiss, SendMsg
  <2> QED
    BY <2>1 DEF FillMsg, Aligned
<1>6. CASE Chunk
  <2>1. /\ pc9' = "move" /\ word0' = "msg" /\ seen' = FALSE
        /\ UNCHANGED <<sector, num, numreads, job>>
        /\ msg' = [type |-> job.kind, startsector |-> sector + numreads,
                   numsectors |-> ChunkLen, buffer |-> 0]
    BY <1>6 DEF Chunk, SendMsg
  <2> QED
    BY <2>1 DEF MoveMsg, ChunkLen, Smaller
<1>7. CASE AnswerValue \/ SendResult
  <2>1. UNCHANGED <<pc9, seen, msg, sector, slot, num, numreads, job>>
    BY <1>7 DEF AnswerValue, SendResult
  <2>2. UNCHANGED word0 \/ (word0 = "value" /\ word0' = "done")
    BY <1>7 DEF AnswerValue, SendResult
  <2> QED
    BY <2>1, <2>2 DEF FillMsg, MoveMsg, Aligned, ChunkLen, Smaller
<1>8. CASE ReadMsg \/ WriteMsg
  <2>1. word0 = "msg" /\ word0' = "done" /\ UNCHANGED <<pc9, seen>>
    BY <1>8 DEF ReadMsg, WriteMsg, Answer
  <2> QED
    BY <2>1
<1>9. CASE UNCHANGED vars
  <2>1. UNCHANGED <<word0, pc9, seen, msg, sector, slot, num, numreads, job>>
    BY <1>9 DEF vars
  <2> QED
    BY <2>1 DEF FillMsg, MoveMsg, Aligned, ChunkLen, Smaller
<1> QED
  BY <1>1, <1>2, <1>3, <1>4, <1>5, <1>6, <1>7, <1>8, <1>9 DEF Next, Driver, Engine

-----------------------------------------------------------------------------
(* What the engine does with the message of a wait.                          *)

LEMMA ReadMsgEffect ==
  ASSUME Types, Messages, ReadMsg
  PROVE  \E ok \in BOOLEAN :
           /\ broken' = (broken \/ ~ok) /\ word0' = "done"
           /\ \/ /\ pc9 = "fill" /\ UNCHANGED tmp
                 /\ slotData' = [slotData EXCEPT ![slot] =
                      [j \in Inner |-> IF ok THEN disc[Aligned(sector) + j] ELSE Junk]]
              \/ /\ pc9 = "move" /\ job.kind = "read" /\ UNCHANGED slotData
                 /\ tmp' = [i \in 1..ChunkLen |->
                      IF ok THEN disc[sector + numreads + (i - 1)] ELSE Junk]
<1>1. PICK ok \in BOOLEAN :
        /\ IF msg.buffer = 0
             THEN /\ tmp' = [i \in 1..msg.numsectors |->
                               IF ok THEN disc[msg.startsector + (i - 1)] ELSE Junk]
                  /\ UNCHANGED slotData
             ELSE /\ slotData' = [slotData EXCEPT ![msg.buffer] =
                       [j \in Inner |-> IF ok THEN disc[msg.startsector + j] ELSE Junk]]
                  /\ UNCHANGED tmp
        /\ broken' = (broken \/ ~ok) /\ word0' = "done"
  BY DEF ReadMsg, Answer
<1>2. word0 = "msg" /\ msg.type = "read"
  BY DEF ReadMsg
<1>3. (pc9 = "fill" /\ msg = FillMsg) \/ (pc9 = "move" /\ msg = MoveMsg)
  BY <1>2 DEF Messages
<1>4. CASE pc9 = "fill" /\ msg = FillMsg
  <2>1. msg.buffer = slot /\ slot # 0 /\ msg.startsector = Aligned(sector)
    BY <1>4, SizesAssumption DEF FillMsg, Types, CacheTypes, Slot
  <2> QED
    BY <1>1, <1>4, <2>1
<1>5. CASE pc9 = "move" /\ msg = MoveMsg
  <2>1. /\ msg.buffer = 0 /\ msg.startsector = sector + numreads /\ msg.numsectors = ChunkLen
        /\ job.kind = "read"
    BY <1>2, <1>5 DEF MoveMsg
  <2> QED
    BY <1>1, <1>5, <2>1
<1> QED
  BY <1>3, <1>4, <1>5

LEMMA WriteMsgEffect ==
  ASSUME Types, Messages, WriteMsg
  PROVE  /\ pc9 = "move" /\ job.kind = "write"
         /\ \E ok \in BOOLEAN :
              /\ broken' = (broken \/ ~ok) /\ word0' = "done"
              /\ disc' = [x \in Sector |->
                   IF ok /\ x \in (sector + numreads)..(sector + numreads + ChunkLen - 1)
                   THEN tmp[x - (sector + numreads) + 1] ELSE disc[x]]
<1>1. word0 = "msg" /\ msg.type = "write"
  BY DEF WriteMsg
<1>2. pc9 = "move" /\ msg = MoveMsg
  BY <1>1 DEF Messages, FillMsg
<1>3. /\ msg.startsector = sector + numreads /\ msg.numsectors = ChunkLen
      /\ job.kind = "write"
  BY <1>1, <1>2 DEF MoveMsg
<1> QED
  BY <1>2, <1>3 DEF WriteMsg, Answer, MsgExtent

(* A block and a chunk lie on the card.                                      *)
LEMMA BlockFits ==
  ASSUME Types, Positions, pc9 \in {"loop", "fill"}
  PROVE  Aligned(sector) \in Sector /\ \A j \in Inner : Aligned(sector) + j \in Sector
<1>1. /\ sector \in Nat /\ num \in Nat /\ job.sector \in Nat /\ job.num \in Nat
      /\ job.sector + job.num <= NSectors
  BY SizesAssumption DEF Types, CallTypes, Jobs, Sector
<1>2. sector < NSectors
  <2>1. num >= 1 /\ sector + num = job.sector + job.num
    BY DEF Positions
  <2>2. NSectors \in Nat
    BY SizesAssumption
  <2> QED
    BY <1>1, <2>1, <2>2
<1>3. Aligned(sector) \in Nat /\ Aligned(sector) % BlockSize = 0 /\ Aligned(sector) < NSectors
  <2>1. NSectors \in Nat
    BY SizesAssumption
  <2>2. /\ Aligned(sector) \in Nat /\ Aligned(sector) % BlockSize = 0
        /\ Aligned(sector) <= sector
    BY <1>1, AlignedFacts
  <2> QED
    BY <1>1, <1>2, <2>1, <2>2
<1>4. Aligned(sector) + BlockSize <= NSectors
  BY <1>3, BlockOnCard
<1> QED
  BY <1>3, <1>4, SizesAssumption DEF Sector, Inner

LEMMA ChunkFits ==
  ASSUME Types, Positions, pc9 \in {"chunk", "move"}, numreads < num
  PROVE  /\ ChunkLen \in 1..(num - numreads) /\ ChunkLen <= MaxReads
         /\ \A i \in 1..ChunkLen : sector + numreads + (i - 1) \in Sector
         /\ ChunkLen < num - numreads => ChunkLen = MaxReads
<1>1. /\ sector \in Nat /\ num \in Nat /\ numreads \in Nat
      /\ sector + num <= NSectors
  BY SizesAssumption DEF Types, CallTypes, Positions
<1>2. /\ ChunkLen \in 1..(num - numreads) /\ ChunkLen <= MaxReads
      /\ ChunkLen < num - numreads => ChunkLen = MaxReads
  BY <1>1, SizesAssumption DEF ChunkLen, Smaller
<1> QED
  BY <1>1, <1>2, SizesAssumption DEF Sector

LEMMA SeqFromFunction ==
  ASSUME NEW S, NEW n \in Nat, NEW f \in [1..n -> S]
  PROVE  f \in Seq(S) /\ Len(f) = n
OBVIOUS

LEMMA SeqAppend ==
  ASSUME NEW S, NEW s \in Seq(S), NEW t \in Seq(S)
  PROVE  s \o t \in Seq(S) /\ Len(s \o t) = Len(s) + Len(t)
OBVIOUS

LEMMA CellValue == \A i, k \in Nat : <<i, k>> \in Value
BY DEF Value

LEMMA JunkValue == Junk \in Value
BY DEF Value

(* What CopyPart takes out of a slot and puts in.                            *)
LEMMA CopyPartContents ==
  ASSUME Types, Contents, NEW s \in Slot, CopyPart(s, Aligned(sector))
  PROVE  got' \in Seq(Value) /\ slotData' \in [Slot -> [Inner -> Value]]
<1> DEFINE a == Aligned(sector)
           len2 == InBlock(Aligned(sector))
<1>1. /\ sector \in Nat /\ a \in Nat /\ a <= sector /\ len2 \in Nat /\ ahead \in Nat
      /\ job.id \in Nat /\ sector - a + len2 <= BlockSize
  BY AlignedFacts, PartFits DEF Types, CallTypes, Jobs
<1>2. CASE job.kind = "read"
  <2> DEFINE part == [i \in 1..len2 |-> slotData[s][sector - a + i - 1]]
  <2>1. got' = got \o part /\ UNCHANGED slotData
    BY <1>2 DEF CopyPart
  <2>2. \A i \in 1..len2 : sector - a + i - 1 \in Inner
    <3> HIDE DEF a, len2
    <3> QED
      BY <1>1, SizesAssumption DEF Inner
  <2>3. \A j \in Inner : slotData[s][j] \in Value
    BY DEF Contents
  <2>4. part \in Seq(Value)
    <3> HIDE DEF a, len2
    <3> QED
      BY <1>1, <2>2, <2>3
  <2> HIDE DEF part
  <2> QED
    BY <2>1, <2>4 DEF Contents
<1>3. CASE job.kind # "read"
  <2>1. PutInSlot(s, a) /\ UNCHANGED got
    BY <1>3 DEF CopyPart
  <2> DEFINE new == [j \in Inner |-> IF j >= sector - a /\ j < sector - a + len2
                                    THEN <<job.id, ahead + j - (sector - a)>>
                                    ELSE slotData[s][j]]
  <2>2. slotData' = [slotData EXCEPT ![s] = new]
    BY <2>1 DEF PutInSlot
  <2>3. new \in [Inner -> Value]
    <3>1. ASSUME NEW j \in Inner PROVE new[j] \in Value
      <4>1. CASE j >= sector - a /\ j < sector - a + len2
        <5>1. ahead + j - (sector - a) \in Nat
          <6> HIDE DEF a, len2
          <6> QED
            BY <1>1, <4>1, SizesAssumption DEF Inner
        <5> QED
          BY <1>1, <4>1, <5>1, CellValue
      <4>2. CASE ~(j >= sector - a /\ j < sector - a + len2)
        BY <4>2 DEF Contents
      <4> QED
        BY <4>1, <4>2
    <3> QED
      BY <3>1
  <2> HIDE DEF new
  <2> QED
    BY <2>1, <2>2, <2>3 DEF Contents
<1> QED
  BY <1>2, <1>3

LEMMA ContentsKept ==
  ASSUME Types, Positions, Messages, Contents, [Next]_vars
  PROVE  Contents'
<1> USE DEF Contents, words, locals, call
<1>1. CASE Startup \/ HaveTimeout \/ HaveDone \/ StartDone \/ ChunksEnd \/ Return
  <2>1. pc9' # "move" /\ UNCHANGED <<disc, slotData, tmp, got>>
    BY <1>1 DEF Startup, HaveTimeout, HaveDone, StartDone, ChunksEnd, Return
  <2> QED
    BY <2>1
<1>2. CASE WaitValue32 \/ AnswerValue \/ SendResult
  <2>1. UNCHANGED <<disc, slotData, tmp, got, pc9, job, num, numreads>>
    BY <1>2 DEF WaitValue32, AnswerValue, SendResult
  <2>2. pc9 = "move" /\ word0' = "done" => word0 = "done"
    BY <1>2 DEF WaitValue32, AnswerValue, SendResult, Messages
  <2> QED
    BY <2>1, <2>2 DEF ChunkLen, Smaller
<1>3. CASE Begin
  <2>1. pc9' # "move" /\ got' = <<>> /\ UNCHANGED <<disc, slotData, tmp>>
    BY <1>3 DEF Begin
  <2> QED
    BY <2>1
<1>4. CASE Direct
  <2>1. pc9' # "move" /\ UNCHANGED <<slotData, tmp>>
    BY <1>4 DEF Direct
  <2>2. /\ job.sector \in Nat /\ job.num \in Nat /\ job.id \in Nat
        /\ job.sector + job.num <= NSectors
    BY SizesAssumption DEF Types, CallTypes, Jobs, Sector
  <2>3. disc' \in [Sector -> Value] /\ got' \in Seq(Value)
    <3>1. CASE job.kind = "read"
      <4> DEFINE all == [i \in 1..job.num |-> disc[job.sector + i - 1]]
      <4>1. got' = all /\ UNCHANGED disc
        BY <1>4, <3>1 DEF Direct
      <4>2. all \in Seq(Value)
        <5>1. \A i \in 1..job.num : job.sector + i - 1 \in Sector
          BY <2>2, SizesAssumption DEF Sector
        <5> QED
          BY <2>2, <5>1
      <4> QED
        BY <4>1, <4>2
    <3>2. CASE job.kind # "read"
      <4>1. /\ disc' = [x \in Sector |-> IF x \in Extent(job) THEN Cell(job, x) ELSE disc[x]]
            /\ UNCHANGED got
        BY <1>4, <3>2 DEF Direct
      <4>2. \A x \in Extent(job) : Cell(job, x) \in Value
        BY <2>2, CellValue DEF Extent, Cell
      <4> QED
        BY <4>1, <4>2
    <3> QED
      BY <3>1, <3>2
  <2> QED
    BY <2>1, <2>3
<1>5. CASE CacheHit \/ FillDone
  <2>1. PICK s \in Slot : CopyPart(s, Aligned(sector))
    BY <1>5, SlotForSectorFinds, SizesAssumption
       DEF CacheHit, FillDone, Allocated, Slot, Types, CacheTypes
  <2>2. pc9' # "move" /\ UNCHANGED <<disc, tmp>>
    BY <1>5, <2>1, CopyPartTypes DEF CacheHit, FillDone
  <2> QED
    BY <2>1, <2>2, CopyPartContents
<1>6. CASE CacheMiss
  <2>1. pc9' # "move" /\ UNCHANGED <<disc, slotData, tmp, got>>
    BY <1>6 DEF CacheMiss
  <2> QED
    BY <2>1
<1>7. CASE Chunk
  <2>1. /\ UNCHANGED <<disc, slotData, got, job, num, numreads>> /\ word0' = "msg"
        /\ ChunkLen \in Nat /\ job.id \in Nat /\ ahead \in Nat /\ numreads \in Nat
    BY <1>7, ChunkFits DEF Chunk, SendMsg, Types, CallTypes, Jobs
  <2>2. CASE job.kind = "read"
    BY <1>7, <2>1, <2>2 DEF Chunk
  <2>3. CASE job.kind # "read"
    <3> DEFINE new == [i \in 1..ChunkLen |->
                         IF ahead + numreads + i - 1 < job.num
                         THEN <<job.id, ahead + numreads + i - 1>> ELSE Junk]
    <3>1. tmp' = new
      BY <1>7, <2>3 DEF Chunk
    <3>2. new \in Seq(Value) /\ Len(new) = ChunkLen
      <4>1. ASSUME NEW i \in 1..ChunkLen PROVE new[i] \in Value
        <5>1. ahead + numreads + i - 1 \in Nat
          BY <2>1
        <5> QED
          BY <2>1, <5>1, CellValue, JunkValue
      <4>2. new \in [1..ChunkLen -> Value]
        BY <4>1
      <4> HIDE DEF new
      <4> QED
        BY <2>1, <4>2, SeqFromFunction
    <3>3. ChunkLen' = ChunkLen
      BY <2>1 DEF ChunkLen, Smaller
    <3> HIDE DEF new
    <3> QED
      BY <2>1, <3>1, <3>2, <3>3
  <2> QED
    BY <2>2, <2>3
<1>8. CASE MoveDone
  <2>1. pc9 = "move" /\ word0 = "done" /\ pc9' = "chunk" /\ UNCHANGED <<disc, slotData, tmp>>
    BY <1>8 DEF MoveDone, Messages
  <2>2. ChunkLen \in Nat /\ Len(tmp) = ChunkLen
    BY <2>1, ChunkFits DEF Positions
  <2> DEFINE part == [i \in 1..ChunkLen |-> tmp[i]]
  <2>3. part \in Seq(Value)
    <3>1. \A i \in 1..ChunkLen : tmp[i] \in Value
      BY <2>2
    <3> QED
      BY <2>2, <3>1
  <2>4. got' = got \o part \/ got' = got
    BY <1>8 DEF MoveDone
  <2>5. got' \in Seq(Value)
    <3> HIDE DEF part
    <3> QED
      BY <2>3, <2>4, SeqAppend
  <2> QED
    BY <2>1, <2>5
<1>9. CASE ReadMsg
  <2>1. UNCHANGED <<disc, got, pc9, job, num, numreads>>
    BY <1>9 DEF ReadMsg
  <2>2. PICK ok \in BOOLEAN :
          \/ /\ pc9 = "fill" /\ UNCHANGED tmp
             /\ slotData' = [slotData EXCEPT ![slot] =
                  [j \in Inner |-> IF ok THEN disc[Aligned(sector) + j] ELSE Junk]]
          \/ /\ pc9 = "move" /\ job.kind = "read" /\ UNCHANGED slotData
             /\ tmp' = [i \in 1..ChunkLen |->
                  IF ok THEN disc[sector + numreads + (i - 1)] ELSE Junk]
    BY <1>9, ReadMsgEffect
  <2>3. CASE pc9 = "fill"
    <3> DEFINE new == [j \in Inner |-> IF ok THEN disc[Aligned(sector) + j] ELSE Junk]
    <3>1. new \in [Inner -> Value]
      BY <2>3, BlockFits, JunkValue
    <3>2. slotData' = [slotData EXCEPT ![slot] = new] /\ UNCHANGED tmp
      BY <2>2, <2>3
    <3> HIDE DEF new
    <3> QED
      BY <2>1, <2>3, <3>1, <3>2
  <2>4. CASE pc9 = "move"
    <3> DEFINE new == [i \in 1..ChunkLen |->
                         IF ok THEN disc[sector + numreads + (i - 1)] ELSE Junk]
    <3>1. ChunkLen \in Nat /\ \A i \in 1..ChunkLen : sector + numreads + (i - 1) \in Sector
      BY <2>4, ChunkFits DEF Positions
    <3>2. new \in Seq(Value) /\ Len(new) = ChunkLen
      <4>1. \A i \in 1..ChunkLen : new[i] \in Value
        BY <3>1, JunkValue
      <4> QED
        BY <3>1, <4>1
    <3>3. tmp' = new /\ UNCHANGED slotData
      BY <2>2, <2>4
    <3>4. ChunkLen' = ChunkLen
      BY <2>1 DEF ChunkLen, Smaller
    <3> HIDE DEF new
    <3> QED
      BY <2>1, <3>2, <3>3, <3>4
  <2> QED
    BY <2>2, <2>3, <2>4
<1>10. CASE WriteMsg
  <2>1. UNCHANGED <<slotData, tmp, got, pc9, job, num, numreads>>
    BY <1>10 DEF WriteMsg
  <2>2. pc9 = "move" /\ job.kind = "write"
    BY <1>10, WriteMsgEffect
  <2>3. Len(tmp) = ChunkLen /\ ChunkLen \in Nat
    BY <2>2, ChunkFits DEF Positions
  <2>4. PICK ok \in BOOLEAN :
          disc' = [x \in Sector |->
                   IF ok /\ x \in (sector + numreads)..(sector + numreads + ChunkLen - 1)
                   THEN tmp[x - (sector + numreads) + 1] ELSE disc[x]]
    BY <1>10, WriteMsgEffect
  <2>5. \A x \in (sector + numreads)..(sector + numreads + ChunkLen - 1) :
          x - (sector + numreads) + 1 \in 1..Len(tmp)
    BY <2>3 DEF Types, CallTypes
  <2>6. disc' \in [Sector -> Value]
    BY <2>4, <2>5
  <2> QED
    BY <2>1, <2>2, <2>3, <2>6 DEF ChunkLen, Smaller
<1>11. CASE UNCHANGED vars
  <2>1. UNCHANGED <<disc, slotData, tmp, got, pc9, job, num, numreads, word0>>
    BY <1>11 DEF vars
  <2> QED
    BY <2>1 DEF ChunkLen, Smaller
<1> QED
  BY <1>1, <1>2, <1>3, <1>4, <1>5, <1>6, <1>7, <1>8, <1>9, <1>10, <1>11 DEF Next, Driver, Engine

-----------------------------------------------------------------------------
(* How much of a read has been delivered.                                   *)
LEMMA LengthsKept ==
  ASSUME Types, Positions, Messages, Contents, Lengths, [Next]_vars
  PROVE  Lengths'
<1> USE DEF Lengths, locals, call
<1>0. /\ sector \in Nat /\ num \in Nat /\ numreads \in Nat /\ got \in Seq(Value)
      /\ job.num \in Nat /\ job.sector \in Nat
  BY SizesAssumption DEF Types, CallTypes, Contents, Jobs, Sector
<1>1. CASE Startup \/ HaveTimeout \/ HaveDone \/ StartDone \/ Return
  <2>1. pc9' \in {"off", "have", "start", "idle"}
    BY <1>1 DEF Startup, HaveTimeout, HaveDone, StartDone, Return
  <2> QED
    BY <2>1
<1>2. CASE WaitValue32 \/ Engine
  <2>1. UNCHANGED <<job, got, pc9, sector, num, numreads>>
    BY <1>2 DEF WaitValue32, Engine, AnswerValue, ReadMsg, WriteMsg, SendResult
  <2> QED
    BY <2>1 DEF Smaller
<1>3. CASE Begin
  <2>1. /\ got' = <<>> /\ pc9' \in {"loop", "chunk", "direct"} /\ numreads' = 0
        /\ sector' = job'.sector /\ num' \in Nat /\ job'.sector \in Nat
    BY <1>3, SizesAssumption DEF Begin, Sector
  <2> QED
    BY <2>1 DEF Smaller
<1>4. CASE Direct
  <2>1. pc9' = "return" /\ job' = job
    BY <1>4 DEF Direct
  <2>2. ASSUME job.kind = "read" PROVE Len(got') = job.num
    <3>1. got' = [i \in 1..job.num |-> disc[job.sector + i - 1]]
      BY <1>4, <2>2 DEF Direct
    <3> QED
      BY <1>0, <3>1
  <2> QED
    BY <2>1, <2>2
<1>5. CASE CacheHit \/ FillDone
  <2>1. pc9 \in {"loop", "fill"}
    BY <1>5 DEF CacheHit, FillDone
  <2>2. PICK s \in Slot : CopyPart(s, Aligned(sector))
    BY <1>5, SlotForSectorFinds, SizesAssumption
       DEF CacheHit, FillDone, Allocated, Slot, Types, CacheTypes
  <2> DEFINE len2 == InBlock(Aligned(sector))
             part == [i \in 1..len2 |-> slotData[s][sector - Aligned(sector) + i - 1]]
  <2>3. /\ len2 \in 1..num /\ job' = job
        /\ \/ /\ num > len2 /\ pc9' = "loop" /\ sector' = sector + len2
           \/ num = len2 /\ pc9' = "return"
           \/ job.kind = "write"
    BY <2>1, <2>2, CopyPartPlace
  <2>4. ASSUME job.kind = "read" PROVE Len(got') = Len(got) + len2
    <3>1. got' = got \o part
      BY <2>2, <2>4 DEF CopyPart
    <3>2. part \in Seq(Value) /\ Len(part) = len2
      <4>1. ASSUME NEW i \in 1..len2 PROVE part[i] \in Value
        <5>1. /\ sector - Aligned(sector) + len2 <= BlockSize /\ Aligned(sector) \in Nat
              /\ Aligned(sector) <= sector
          BY <1>0, PartFits, AlignedFacts
        <5>2. sector - Aligned(sector) + i - 1 \in Inner
          BY <1>0, <2>3, <5>1, SizesAssumption DEF Inner
        <5> QED
          BY <5>2 DEF Contents
      <4>2. part \in [1..len2 -> Value]
        BY <4>1
      <4>3. len2 \in Nat
        BY <2>3, <1>0
      <4> HIDE DEF part, len2
      <4> QED
        BY <4>2, <4>3, SeqFromFunction
    <3> HIDE DEF part, len2
    <3> QED
      BY <1>0, <3>1, <3>2, SeqAppend
  <2>5. sector + num = job.sector + job.num
    BY <2>1 DEF Positions
  <2> HIDE DEF part, len2
  <2> QED
    BY <1>0, <2>1, <2>3, <2>4, <2>5
<1>6. CASE CacheMiss
  <2>1. pc9 = "loop" /\ pc9' = "fill" /\ UNCHANGED <<job, got, sector>>
    BY <1>6 DEF CacheMiss
  <2> QED
    BY <2>1
<1>7. CASE Chunk
  <2>1. pc9 = "chunk" /\ pc9' = "move" /\ UNCHANGED <<job, got, num, numreads>>
    BY <1>7 DEF Chunk
  <2> QED
    BY <2>1 DEF Smaller
<1>8. CASE MoveDone
  <2>1. /\ pc9 = "move" /\ word0 = "done" /\ pc9' = "chunk" /\ numreads' = numreads + MaxReads
        /\ numreads < num /\ UNCHANGED <<job, num>>
    BY <1>8 DEF MoveDone, Messages, Positions
  <2>2. ASSUME job.kind = "read" PROVE Len(got') = Smaller(numreads', num')
    <3> DEFINE part == [i \in 1..ChunkLen |-> tmp[i]]
    <3>1. got' = got \o part
      BY <1>8, <2>2 DEF MoveDone
    <3>2. ChunkLen \in Nat /\ Len(tmp) = ChunkLen
      BY <2>1, ChunkFits DEF Contents
    <3>3. part \in Seq(Value) /\ Len(part) = ChunkLen
      <4>1. part \in [1..ChunkLen -> Value]
        BY <3>2 DEF Contents
      <4> HIDE DEF part
      <4> QED
        BY <3>2, <4>1, SeqFromFunction
    <3>4. Len(got') = numreads + ChunkLen
      <4>1. Len(got) = numreads
        BY <2>1, <2>2, <1>0 DEF Smaller
      <4> HIDE DEF part
      <4> QED
        BY <1>0, <3>1, <3>2, <3>3, <4>1, SeqAppend
    <3> QED
      BY <1>0, <2>1, <3>4, SizesAssumption DEF ChunkLen, Smaller
  <2> QED
    BY <2>1, <2>2
<1>9. CASE ChunksEnd
  <2>1. pc9 = "chunk" /\ numreads >= num /\ pc9' = "return" /\ UNCHANGED <<job, got>>
        /\ num = job.num
    BY <1>9 DEF ChunksEnd, Positions
  <2> QED
    BY <1>0, <2>1 DEF Smaller
<1>10. CASE UNCHANGED vars
  <2>1. UNCHANGED <<job, got, pc9, sector, num, numreads>>
    BY <1>10 DEF vars
  <2> QED
    BY <2>1 DEF Smaller
<1> QED
  BY <1>1, <1>2, <1>3, <1>4, <1>5, <1>6, <1>7, <1>8, <1>9, <1>10 DEF Next, Driver

-----------------------------------------------------------------------------
(* The table of slots.                                                      *)

LEMMA HeldOnCard ==
  ASSUME Types, Blocks, NEW s \in Held, NEW j \in Inner
  PROVE  cacheDescriptor[s] \in Nat /\ cacheDescriptor[s] + j \in Sector
<1>1. cacheDescriptor[s] \in Nat /\ cacheDescriptor[s] % BlockSize = 0
      /\ cacheDescriptor[s] < NSectors
  BY SizesAssumption DEF Blocks, Sector
<1>2. cacheDescriptor[s] + BlockSize <= NSectors
  BY <1>1, BlockOnCard
<1> QED
  BY <1>1, <1>2, SizesAssumption DEF Sector, Inner

(* A miss takes no slot that another block keeps.                            *)
LEMMA CacheMissKeepsHeld ==
  ASSUME Types, Positions, Blocks, CacheMiss
  PROVE  Held' \subseteq Held /\ slot' \in Allocated' /\ Allocated \subseteq Allocated'
<1> DEFINE n == Smaller(cacheAllocated + 1, NSlots)
<1>1. pc9 = "loop" /\ pc9' = "fill" /\ cacheAllocated' = n /\ slot' = AllocateCacheSlot(n)
  BY DEF CacheMiss
<1>2. Held = Allocated
  BY <1>1 DEF Held
<1>3. cacheAllocated \in 0..NSlots /\ NSlots \in Nat \ {0}
  BY SizesAssumption DEF Types, CacheTypes
<1>4. n \in 1..NSlots
  BY <1>3 DEF Smaller
<1>5. slot' \in 1..n
  BY <1>1, <1>4, AllocateCacheSlotFinds
<1>6. CASE cacheAllocated < NSlots
  <2>1. n = cacheAllocated + 1
    BY <1>3, <1>6 DEF Smaller
  <2>2. n \in Slot \ Allocated
    BY <1>3, <1>4, <2>1 DEF Slot, Allocated
  <2>3. cacheCounter[n] = 0
    BY <2>2 DEF Blocks
  <2>4. cacheCounter[slot'] = 0
    BY <1>1, <1>4, <2>3, AllocateCacheSlotFinds
  <2>5. slot' \notin Allocated
    BY <1>2, <2>4 DEF Blocks
  <2>6. slot' = n
    BY <1>3, <1>5, <2>1, <2>5 DEF Allocated
  <2> QED
    BY <1>1, <1>2, <1>3, <2>1, <2>6 DEF Held, Allocated
<1>7. CASE cacheAllocated = NSlots
  <2>1. n = cacheAllocated
    BY <1>3, <1>7 DEF Smaller
  <2> QED
    BY <1>1, <1>2, <1>5, <2>1 DEF Held, Allocated
<1> QED
  BY <1>3, <1>6, <1>7

LEMMA BlocksKept ==
  ASSUME Types, Positions, Blocks, [Next]_vars
  PROVE  Blocks'
<1> USE DEF cache, locals, call
<1>1. CASE UNCHANGED cache /\ pc9 # "fill" /\ pc9' # "fill"
  BY <1>1 DEF Blocks, Held, Allocated
<1>2. CASE UNCHANGED <<cache, slot, pc9, sector>>
  BY <1>2 DEF Blocks, Held, Allocated, Aligned
<1>3. ASSUME Begin PROVE Blocks'
  <2>1. UNCHANGED <<cacheDescriptor, cacheCounter, cacheAllocated>> /\ pc9 # "fill" /\ pc9' # "fill"
    BY <1>3 DEF Begin
  <2> QED
    BY <2>1 DEF Blocks, Held, Allocated
<1>4. ASSUME CacheHit PROVE Blocks'
  <2> DEFINE s == SlotForSector(Aligned(sector))
  <2>1. s \in Allocated /\ cacheDescriptor[s] = Aligned(sector)
    BY <1>4, SlotForSectorFinds DEF CacheHit
  <2>2. pc9 = "loop" /\ pc9' # "fill"
    BY <1>4, CopyPartTypes DEF CacheHit
  <2>3. /\ cacheDescriptor' = [cacheDescriptor EXCEPT ![s] = Aligned(sector)]
        /\ cacheCounter' = [cacheCounter EXCEPT ![s] = accessCounter]
        /\ UNCHANGED cacheAllocated
    BY <1>4 DEF CacheHit, UpdateDescriptor
  <2>4. /\ cacheDescriptor \in [Slot -> Int] /\ cacheCounter \in [Slot -> Nat]
        /\ Allocated \subseteq Slot /\ accessCounter >= 1 /\ accessCounter \in Nat
    BY <2>2, SizesAssumption DEF Types, CacheTypes, Positions, Allocated, Slot
  <2>5. cacheDescriptor' = cacheDescriptor
    BY <2>1, <2>3, <2>4
  <2>6. Held' = Held /\ Held = Allocated /\ Allocated' = Allocated
    BY <2>2, <2>3 DEF Held, Allocated
  <2> HIDE DEF s
  <2>7. \A t \in Slot : cacheCounter'[t] = IF t = s THEN accessCounter ELSE cacheCounter[t]
    BY <2>3, <2>4
  <2>8. \A t \in Held' : cacheCounter'[t] > 0
    BY <2>4, <2>6, <2>7 DEF Blocks
  <2>9. \A t \in Slot \ Allocated' : cacheCounter'[t] = 0
    BY <2>1, <2>6, <2>7 DEF Blocks
  <2> QED
    BY <2>2, <2>5, <2>6, <2>8, <2>9 DEF Blocks
<1>5. ASSUME CacheMiss PROVE Blocks'
  <2>1. /\ pc9 = "loop" /\ UNCHANGED <<cacheDescriptor, cacheCounter, sector>>
        /\ SlotForSector(Aligned(sector)) = 0
    BY <1>5 DEF CacheMiss
  <2>2. Held' \subseteq Held /\ slot' \in Allocated' /\ Allocated \subseteq Allocated'
    BY <1>5, CacheMissKeepsHeld
  <2>3. \A s \in Held' : cacheDescriptor[s] # Aligned(sector)
    BY <2>1, <2>2, SlotForSectorMisses DEF Held
  <2>4. Aligned(sector)' = Aligned(sector)
    BY <2>1 DEF Aligned
  <2> QED
    BY <2>1, <2>2, <2>3, <2>4 DEF Blocks
<1>6. ASSUME FillDone PROVE Blocks'
  <2>1. pc9 = "fill" /\ pc9' # "fill"
    BY <1>6, CopyPartTypes DEF FillDone
  <2>2. /\ cacheDescriptor' = [cacheDescriptor EXCEPT ![slot] = Aligned(sector)]
        /\ cacheCounter' = [cacheCounter EXCEPT ![slot] = accessCounter]
        /\ UNCHANGED cacheAllocated
    BY <1>6 DEF FillDone, UpdateDescriptor
  <2>3. /\ cacheDescriptor \in [Slot -> Int] /\ cacheCounter \in [Slot -> Nat]
        /\ Allocated \subseteq Slot /\ accessCounter >= 1 /\ accessCounter \in Nat
    BY <2>1, SizesAssumption DEF Types, CacheTypes, Positions, Allocated, Slot
  <2>4. slot \in Allocated /\ \A s \in Held : cacheDescriptor[s] # Aligned(sector)
    BY <2>1 DEF Blocks
  <2>5. Held' = Allocated /\ Held = Allocated \ {slot} /\ Allocated' = Allocated
    BY <2>1, <2>2 DEF Held, Allocated
  <2>6. Aligned(sector) \in Sector /\ Aligned(sector) % BlockSize = 0
    BY <2>1, BlockFits, AlignedFacts DEF Types, CallTypes
  <2>7. \A t \in Slot :
          /\ cacheCounter'[t] = IF t = slot THEN accessCounter ELSE cacheCounter[t]
          /\ cacheDescriptor'[t] = IF t = slot THEN Aligned(sector) ELSE cacheDescriptor[t]
    BY <2>2, <2>3
  <2>8. \A t \in Held' : /\ cacheCounter'[t] > 0 /\ cacheDescriptor'[t] \in Sector
                         /\ cacheDescriptor'[t] % BlockSize = 0
    BY <2>3, <2>5, <2>6, <2>7 DEF Blocks
  <2>9. \A t \in Slot \ Allocated' : cacheCounter'[t] = 0
    BY <2>4, <2>5, <2>7 DEF Blocks
  <2>10. \A t, u \in Held' : t # u => cacheDescriptor'[t] # cacheDescriptor'[u]
    BY <2>3, <2>4, <2>5, <2>7 DEF Blocks
  <2> QED
    BY <2>1, <2>8, <2>9, <2>10 DEF Blocks
<1>7. ASSUME WaitValue32 \/ Engine \/ UNCHANGED vars PROVE UNCHANGED <<cache, slot, pc9, sector>>
  BY <1>7 DEF WaitValue32, Engine, AnswerValue, ReadMsg, WriteMsg, SendResult, vars
<1>8. ASSUME \/ Startup \/ HaveTimeout \/ HaveDone \/ StartDone \/ Direct \/ Chunk \/ MoveDone
             \/ ChunksEnd \/ Return
      PROVE UNCHANGED cache /\ pc9 # "fill" /\ pc9' # "fill"
  BY <1>8 DEF Startup, HaveTimeout, HaveDone, StartDone, Direct, Chunk, MoveDone, ChunksEnd, Return
<1> QED
  BY <1>1, <1>2, <1>3, <1>4, <1>5, <1>6, <1>7, <1>8 DEF Next, Driver

-----------------------------------------------------------------------------
(* What the card and the slots hold.                                        *)

LEMMA WrittenKept ==
  ASSUME Types, Positions, Messages, Written, [Next]_vars
  PROVE  Written'
<1> USE DEF Written, words, locals, call
<1>0. /\ sector \in Nat /\ num \in Nat /\ numreads \in Nat /\ job.num \in Nat
      /\ job.sector \in Nat /\ job.sector + job.num <= NSectors /\ NSectors \in Nat
  BY SizesAssumption DEF Types, CallTypes, Jobs, Sector
<1>1. CASE Startup \/ HaveTimeout \/ HaveDone \/ StartDone \/ Return
  <2>1. pc9' \in {"off", "have", "start", "idle"}
    BY <1>1 DEF Startup, HaveTimeout, HaveDone, StartDone, Return
  <2> QED
    BY <2>1
<1>2. CASE WaitValue32 \/ AnswerValue \/ SendResult \/ UNCHANGED vars
  <2>1. UNCHANGED <<disc, tmp, job, pc9, sector, num, numreads, broken>>
    BY <1>2 DEF WaitValue32, AnswerValue, SendResult, vars
  <2>2. pc9 = "move" /\ word0' = "done" => word0 = "done"
    BY <1>2 DEF WaitValue32, AnswerValue, SendResult, Messages, vars
  <2> QED
    BY <2>1, <2>2 DEF ChunkLen, Smaller, Extent, Cell
<1>3. CASE Begin
  <2>1. /\ pc9' \in {"loop", "chunk", "direct"} /\ numreads' = 0
        /\ sector' = job'.sector /\ job'.sector \in Nat /\ job'.num \in Nat
    BY <1>3, SizesAssumption DEF Begin, Sector
  <2> QED
    BY <2>1 DEF Extent
<1>4. CASE Direct
  <2>1. pc9' = "return" /\ job' = job
    BY <1>4 DEF Direct
  <2>2. ASSUME job.kind = "write", NEW x \in Extent(job) PROVE disc'[x] = Cell(job, x)
    <3>1. disc' = [y \in Sector |-> IF y \in Extent(job) THEN Cell(job, y) ELSE disc[y]]
      BY <1>4, <2>2 DEF Direct
    <3>2. x \in Sector
      BY <1>0 DEF Extent, Sector
    <3> QED
      BY <2>2, <3>1, <3>2
  <2> QED
    BY <2>1, <2>2 DEF Extent, Cell
<1>5. CASE CacheHit \/ FillDone
  <2>1. pc9 \in {"loop", "fill"}
    BY <1>5 DEF CacheHit, FillDone
  <2>2. PICK s : CopyPart(s, Aligned(sector))
    BY <1>5 DEF CacheHit, FillDone
  <2>3. /\ UNCHANGED <<numreads, job>>
        /\ \/ job.kind = "read"
           \/ pc9' = "chunk" /\ UNCHANGED sector
    BY <2>1, <2>2, CopyPartPlace
  <2>4. numreads = 0 /\ (job.kind = "write" => sector = job.sector)
    BY <2>1 DEF Positions
  <2> QED
    BY <1>0, <2>3, <2>4 DEF Extent
<1>6. CASE CacheMiss
  <2>1. pc9' = "fill"
    BY <1>6 DEF CacheMiss
  <2> QED
    BY <2>1
<1>7. CASE Chunk
  <2>1. /\ pc9 = "chunk" /\ pc9' = "move" /\ word0' = "msg" /\ numreads < num
        /\ UNCHANGED <<disc, job, sector, num, numreads, broken>>
    BY <1>7 DEF Chunk, SendMsg
  <2>2. sector = job.sector /\ num = job.num /\ ahead = 0
    BY <2>1 DEF Positions
  <2>3. ChunkLen \in 1..(num - numreads)
    BY <2>1, ChunkFits
  <2>4. ASSUME job.kind = "write", NEW i \in 1..ChunkLen
        PROVE tmp'[i] = Cell(job, sector + numreads + i - 1)
    <3>1. tmp' = [k \in 1..ChunkLen |-> LET at == ahead + numreads + k - 1
                                       IN  IF at < job.num THEN <<job.id, at>> ELSE Junk]
      BY <1>7, <2>4 DEF Chunk
    <3>2. tmp'[i] = IF ahead + numreads + i - 1 < job.num
                    THEN <<job.id, ahead + numreads + i - 1>> ELSE Junk
      BY <3>1
    <3>3. ahead + numreads + i - 1 < job.num
          /\ ahead + numreads + i - 1 = (sector + numreads + i - 1) - job.sector
      BY <1>0, <2>2, <2>3
    <3> QED
      BY <3>2, <3>3 DEF Cell
  <2>5. ChunkLen' = ChunkLen /\ Extent(job)' = Extent(job)
    BY <2>1 DEF ChunkLen, Smaller, Extent
  <2> QED
    BY <2>1, <2>4, <2>5 DEF Cell
<1>8. CASE MoveDone
  <2>1. /\ pc9 = "move" /\ word0 = "done" /\ pc9' = "chunk" /\ numreads' = numreads + MaxReads
        /\ numreads < num /\ UNCHANGED <<disc, job, sector, num, broken>>
    BY <1>8 DEF MoveDone, Messages, Positions
  <2>2. sector = job.sector /\ num = job.num
    BY <2>1 DEF Positions
  <2>3. ChunkLen \in 1..(num - numreads) /\ (ChunkLen < num - numreads => ChunkLen = MaxReads)
        /\ MaxReads \in Nat
    BY <2>1, ChunkFits, SizesAssumption
  <2>4. ASSUME NEW x \in Extent(job), x < sector' + numreads'
        PROVE  x < sector + numreads + ChunkLen
    BY <1>0, <2>1, <2>2, <2>3, <2>4 DEF Extent
  <2> QED
    BY <2>1, <2>4 DEF Extent, Cell
<1>9. CASE ChunksEnd
  <2>1. /\ pc9 = "chunk" /\ numreads >= num /\ pc9' = "return"
        /\ UNCHANGED <<disc, job, broken>>
        /\ sector = job.sector /\ num = job.num
    BY <1>9 DEF ChunksEnd, Positions
  <2>2. \A x \in Extent(job) : x < sector + numreads
    BY <1>0, <2>1 DEF Extent
  <2> QED
    BY <2>1, <2>2 DEF Extent, Cell
<1>10. CASE ReadMsg
  <2>1. UNCHANGED <<disc, job, pc9, sector, num, numreads>>
    BY <1>10 DEF ReadMsg
  <2>2. (pc9 = "fill" \/ (pc9 = "move" /\ job.kind = "read")) /\ (broken => broken')
    BY <1>10, ReadMsgEffect
  <2> QED
    BY <2>1, <2>2 DEF Extent, Cell
<1>11. CASE WriteMsg
  <2>1. UNCHANGED <<tmp, job, pc9, sector, num, numreads>> /\ pc9 = "move" /\ job.kind = "write"
    BY <1>11, WriteMsgEffect DEF WriteMsg
  <2>2. PICK ok \in BOOLEAN :
          /\ broken' = (broken \/ ~ok)
          /\ disc' = [x \in Sector |->
               IF ok /\ x \in (sector + numreads)..(sector + numreads + ChunkLen - 1)
               THEN tmp[x - (sector + numreads) + 1] ELSE disc[x]]
    BY <1>11, WriteMsgEffect
  <2>3. ChunkLen \in 1..(num - numreads)
    BY <2>1, ChunkFits DEF Positions
  <2>4. ASSUME ~broken', NEW x \in Extent(job), x < sector + numreads + ChunkLen
        PROVE  disc'[x] = Cell(job, x)
    <3>1. ok /\ ~broken /\ x \in Sector /\ x \in Nat
      <4>1. ok /\ ~broken
        BY <2>2, <2>4
      <4>2. x \in Sector /\ x \in Nat
        BY <1>0 DEF Extent, Sector
      <4> QED
        BY <4>1, <4>2
    <3>2. CASE x < sector + numreads
      <4>1. x \notin (sector + numreads)..(sector + numreads + ChunkLen - 1)
        BY <1>0, <3>2
      <4> QED
        BY <2>1, <2>2, <2>4, <3>1, <3>2, <4>1
    <3>3. CASE x >= sector + numreads
      <4> DEFINE i == x - (sector + numreads) + 1
      <4>1. i \in 1..ChunkLen /\ sector + numreads + i - 1 = x
            /\ x \in (sector + numreads)..(sector + numreads + ChunkLen - 1)
        BY <1>0, <2>3, <2>4, <3>1, <3>3
      <4>2. disc'[x] = tmp[i]
        BY <2>2, <3>1, <4>1
      <4>3. tmp[i] = Cell(job, sector + numreads + i - 1)
        BY <2>1, <3>1, <4>1
      <4> QED
        BY <4>1, <4>2, <4>3
    <3> QED
      BY <1>0, <3>1, <3>2, <3>3
  <2>5. ChunkLen' = ChunkLen /\ Extent(job)' = Extent(job) /\ ChunkLen \in Nat
    BY <1>0, <2>1, <2>3 DEF ChunkLen, Smaller, Extent
  <2>6. ~broken' => ~broken
    BY <2>2
  <2>7. ASSUME ~broken', NEW x \in Extent(job), x < sector + numreads
        PROVE  disc'[x] = Cell(job, x)
    <3>1. x < sector + numreads + ChunkLen
      BY <1>0, <2>5, <2>7 DEF Extent
    <3> QED
      BY <2>4, <2>7, <3>1
  <2> QED
    BY <2>1, <2>4, <2>5, <2>6, <2>7 DEF Cell
<1> QED
  BY <1>1, <1>2, <1>3, <1>4, <1>5, <1>6, <1>7, <1>8, <1>9, <1>10, <1>11 DEF Next, Driver, Engine

LEMMA FetchedKept ==
  ASSUME Types, Positions, Messages, Fetched, [Next]_vars
  PROVE  Fetched'
<1> USE DEF Fetched, words, locals, call
<1>1. CASE \/ Startup \/ HaveTimeout \/ HaveDone \/ StartDone \/ Begin \/ Direct \/ CacheHit
           \/ CacheMiss \/ FillDone \/ MoveDone \/ ChunksEnd \/ Return
  <2>1. pc9' # "move"
    BY <1>1, CopyPartTypes DEF Startup, HaveTimeout, HaveDone, StartDone, Begin, Direct, CacheHit,
       CacheMiss, FillDone, MoveDone, ChunksEnd, Return
  <2> QED
    BY <2>1
<1>2. CASE WaitValue32 \/ AnswerValue \/ SendResult \/ UNCHANGED vars
  <2>1. UNCHANGED <<disc, tmp, job, pc9, sector, num, numreads, broken>>
    BY <1>2 DEF WaitValue32, AnswerValue, SendResult, vars
  <2>2. pc9 = "move" /\ word0' = "done" => word0 = "done"
    BY <1>2 DEF WaitValue32, AnswerValue, SendResult, Messages, vars
  <2> QED
    BY <2>1, <2>2 DEF ChunkLen, Smaller
<1>3. CASE Chunk
  <2>1. word0' = "msg"
    BY <1>3 DEF Chunk, SendMsg
  <2> QED
    BY <2>1
<1>4. CASE ReadMsg
  <2>1. UNCHANGED <<disc, job, pc9, sector, num, numreads>>
    BY <1>4 DEF ReadMsg
  <2>2. PICK ok \in BOOLEAN :
          /\ broken' = (broken \/ ~ok)
          /\ pc9 = "move" =>
               tmp' = [i \in 1..ChunkLen |-> IF ok THEN disc[sector + numreads + (i - 1)] ELSE Junk]
    BY <1>4, ReadMsgEffect
  <2>3. sector + numreads \in Nat /\ (pc9 = "move" => ChunkLen \in Nat)
    BY ChunkFits DEF Types, CallTypes, Positions
  <2>4. ASSUME ~broken', pc9 = "move", NEW i \in 1..ChunkLen
        PROVE  tmp'[i] = disc[sector + numreads + i - 1]
    <3>1. ok /\ sector + numreads + (i - 1) = sector + numreads + i - 1
      BY <2>2, <2>3, <2>4
    <3> QED
      BY <2>2, <2>4, <3>1
  <2>5. ChunkLen' = ChunkLen
    BY <2>1 DEF ChunkLen, Smaller
  <2> QED
    BY <2>1, <2>4, <2>5
<1>5. CASE WriteMsg
  <2>1. UNCHANGED job /\ job.kind = "write"
    BY <1>5, WriteMsgEffect DEF WriteMsg
  <2> QED
    BY <2>1
<1> QED
  BY <1>1, <1>2, <1>3, <1>4, <1>5 DEF Next, Driver, Engine

(* The part of a write that lies in a block, put in the slot of the block.     *)
LEMMA PutInSlotExpected ==
  ASSUME Types, Positions, Contents, pc9 \in {"loop", "fill"}, job.kind = "write",
         NEW s \in Slot, CopyPart(s, Aligned(sector)),
         NEW j \in Inner, slotData[s][j] = disc[Aligned(sector) + j], UNCHANGED disc
  PROVE  slotData'[s][j] = Expected(Aligned(sector) + j)'
<1> DEFINE a == Aligned(sector)
           len2 == InBlock(Aligned(sector))
<1>1. /\ len2 = num /\ pc9' = "chunk" /\ UNCHANGED <<sector, ahead, job>>
  BY CopyPartPlace DEF locals, call
<1>2. /\ sector = job.sector /\ ahead = 0 /\ sector + num = job.sector + job.num
  BY DEF Positions
<1>3. /\ sector \in Nat /\ num \in Nat /\ a \in Nat /\ a <= sector /\ j \in Nat
      /\ job.num \in Nat
  BY AlignedFacts, SizesAssumption DEF Types, CallTypes, Jobs, Inner
<1>4. slotData'[s][j] = IF j >= sector - a /\ j < sector - a + num
                        THEN <<job.id, ahead + j - (sector - a)>> ELSE slotData[s][j]
  <2>1. PutInSlot(s, a)
    BY DEF CopyPart
  <2> QED
    BY <1>1, <2>1 DEF PutInSlot, Contents
<1>5. Expected(a + j)' = IF a + j \in Extent(job) THEN Cell(job, a + j) ELSE disc[a + j]
  BY <1>1 DEF Expected, Extent, Cell, Aligned
<1> HIDE DEF a
<1>6. CASE a + j \in Extent(job)
  <2>1. j >= sector - a /\ j < sector - a + num
    BY <1>2, <1>3, <1>6 DEF Extent
  <2>2. ahead + j - (sector - a) = (a + j) - job.sector
    BY <1>2, <1>3
  <2>3. slotData'[s][j] = <<job.id, ahead + j - (sector - a)>>
    BY <1>4, <2>1
  <2>4. slotData'[s][j] = <<job.id, (a + j) - job.sector>>
    BY <2>2, <2>3
  <2>5. Cell(job, a + j) = <<job.id, (a + j) - job.sector>>
    BY DEF Cell
  <2> QED
    BY <1>5, <1>6, <2>4, <2>5 DEF a
<1>7. CASE a + j \notin Extent(job)
  <2>1. ~(j >= sector - a /\ j < sector - a + num)
    BY <1>2, <1>3, <1>7 DEF Extent
  <2> QED
    BY <1>4, <1>5, <1>7, <2>1 DEF a
<1> QED
  BY <1>6, <1>7

(* A write that stays in its block leaves the other blocks alone.             *)
LEMMA OtherBlocksApart ==
  ASSUME Types, Positions, Blocks, pc9 \in {"loop", "fill"}, job.kind = "write",
         NEW t \in Held, cacheDescriptor[t] # Aligned(sector), NEW j \in Inner
  PROVE  cacheDescriptor[t] + j \notin Extent(job)
<1> DEFINE a == Aligned(sector)
           d == cacheDescriptor[t]
<1>1. /\ d \in Nat /\ d % BlockSize = 0
  BY HeldOnCard DEF Blocks
<1>2. /\ sector \in Nat /\ num \in Nat /\ job.num \in Nat
      /\ a \in Nat /\ a % BlockSize = 0 /\ a <= sector
  BY AlignedFacts DEF Types, CallTypes, Jobs
<1>3. /\ sector = job.sector /\ sector + num = job.sector + job.num
      /\ sector - a + num <= BlockSize
  BY DEF Positions
<1>4. /\ j \in Nat /\ j < BlockSize /\ BlockSize \in Nat
  BY SizesAssumption DEF Inner
<1> HIDE DEF a, d
<1>5. CASE d < a
  <2>1. d + BlockSize <= a
    BY <1>1, <1>2, <1>5, BlocksApart
  <2> QED
    BY <1>1, <1>2, <1>3, <1>4, <2>1 DEF Extent, d
<1>6. CASE a < d
  <2>1. a + BlockSize <= d
    BY <1>1, <1>2, <1>6, BlocksApart
  <2> QED
    BY <1>1, <1>2, <1>3, <1>4, <2>1 DEF Extent, d
<1> QED
  BY <1>1, <1>2, <1>5, <1>6 DEF a, d

LEMMA CopyPartCoherent ==
  ASSUME Types, Positions, Contents, Blocks, Coherent, ~broken, UNCHANGED disc,
         pc9 \in {"loop", "fill"}, NEW s \in Slot,
         CopyPart(s, Aligned(sector)), UpdateDescriptor(s, Aligned(sector)),
         \A t \in Held : t # s => cacheDescriptor[t] # Aligned(sector),
         \A j \in Inner : slotData[s][j] = disc[Aligned(sector) + j],
         NEW t \in Slot, t = s \/ t \in Held, NEW j \in Inner
  PROVE  slotData'[t][j] = Expected(cacheDescriptor[t] + j)'
<1>1. cacheDescriptor'[t] = IF t = s THEN Aligned(sector) ELSE cacheDescriptor[t]
  BY DEF UpdateDescriptor, Types, CacheTypes
<1>2. job' = job
  BY CopyPartPlace
<1>3. t # s => slotData[t][j] = disc[cacheDescriptor[t] + j]
  BY DEF Coherent, Expected
<1>4. job.kind \in {"read", "write"}
  BY DEF Types, CallTypes, Jobs
<1>5. CASE job.kind = "read"
  <2>1. UNCHANGED slotData
    BY <1>5 DEF CopyPart
  <2>2. Expected(cacheDescriptor[t] + j)' = disc[cacheDescriptor'[t] + j]
    BY <1>2, <1>5 DEF Expected
  <2> QED
    BY <1>1, <1>3, <2>1, <2>2
<1>6. CASE job.kind = "write" /\ t = s
  <2>1. slotData'[s][j] = Expected(Aligned(sector) + j)'
    BY <1>6, PutInSlotExpected
  <2>2. Aligned(sector)' = Aligned(sector)
    BY <1>6, CopyPartPlace DEF Aligned
  <2> QED
    BY <1>1, <1>6, <2>1, <2>2 DEF Expected
<1>7. CASE job.kind = "write" /\ t # s
  <2>1. PutInSlot(s, Aligned(sector))
    BY <1>7 DEF CopyPart
  <2>2. slotData'[t] = slotData[t]
    BY <1>7, <2>1 DEF PutInSlot, Contents
  <2>3. cacheDescriptor[t] + j \notin Extent(job)
    BY <1>7, OtherBlocksApart
  <2>4. Expected(cacheDescriptor[t] + j)' = disc[cacheDescriptor[t] + j]
    BY <1>1, <1>2, <1>7, <2>3 DEF Expected, Extent
  <2> QED
    BY <1>3, <1>7, <2>2, <2>4
<1> QED
  BY <1>4, <1>5, <1>6, <1>7

LEMMA CoherentKept ==
  ASSUME Types, Positions, Messages, Contents, Blocks, Written, Coherent, [Next]_vars
  PROVE  Coherent'
<1> USE DEF words, cache, locals, call
<1>1. CASE \/ Startup \/ HaveTimeout \/ HaveDone \/ StartDone \/ Begin \/ Direct
  <2>1. CASE mode = "cached"
    <3>1. /\ UNCHANGED <<disc, slotData, cacheDescriptor, cacheAllocated, broken>>
          /\ pc9 \notin {"chunk", "move", "fill"} /\ pc9' \notin {"chunk", "move", "fill"}
      BY <1>1, <2>1 DEF Startup, HaveTimeout, HaveDone, StartDone, Begin, Direct, Positions
    <3> QED
      BY <3>1 DEF Coherent, Expected, Held, Allocated
  <2>2. CASE mode # "cached"
    <3>1. cacheAllocated = 0 /\ UNCHANGED cacheAllocated /\ pc9' # "fill"
      BY <1>1, <2>2 DEF Startup, HaveTimeout, HaveDone, StartDone, Begin, Direct, Positions
    <3>2. Held' = {}
      BY <3>1 DEF Held, Allocated
    <3> QED
      BY <3>1, <3>2 DEF Coherent
  <2> QED
    BY <2>1, <2>2
<1>2. CASE WaitValue32 \/ AnswerValue \/ SendResult \/ UNCHANGED vars
  <2>1. UNCHANGED <<disc, slotData, cacheDescriptor, cacheAllocated, slot, job, pc9, sector, broken>>
    BY <1>2 DEF WaitValue32, AnswerValue, SendResult, vars
  <2>2. pc9 = "fill" /\ word0' = "done" => word0 = "done"
    BY <1>2 DEF WaitValue32, AnswerValue, SendResult, Messages, vars
  <2> QED
    BY <2>1, <2>2 DEF Coherent, Expected, Held, Allocated, Extent, Cell, Aligned
<1>3. CASE CacheHit
  <2> DEFINE s == SlotForSector(Aligned(sector))
  <2>1. /\ pc9 = "loop" /\ UNCHANGED <<disc, cacheAllocated, broken>> /\ pc9' # "fill"
    BY <1>3, CopyPartTypes DEF CacheHit
  <2>2. s \in Allocated /\ cacheDescriptor[s] = Aligned(sector)
        /\ UpdateDescriptor(s, Aligned(sector)) /\ CopyPart(s, Aligned(sector))
    BY <1>3, SlotForSectorFinds DEF CacheHit
  <2>3. Held = Allocated /\ Held' = Allocated /\ Allocated \subseteq Slot
    BY <2>1, SizesAssumption DEF Held, Allocated, Slot, Types, CacheTypes
  <2> HIDE DEF s
  <2>4. \A t \in Held : t # s => cacheDescriptor[t] # Aligned(sector)
    BY <2>2, <2>3 DEF Blocks
  <2>5. ~broken => \A j \in Inner : slotData[s][j] = disc[Aligned(sector) + j]
    BY <2>1, <2>2, <2>3 DEF Coherent, Expected
  <2>6. ASSUME ~broken, NEW t \in Held, NEW j \in Inner
        PROVE  slotData'[t][j] = Expected(cacheDescriptor[t] + j)'
    BY <2>1, <2>2, <2>3, <2>4, <2>5, <2>6, CopyPartCoherent
  <2> QED
    BY <2>1, <2>3, <2>6 DEF Coherent
<1>4. CASE FillDone
  <2>1. /\ pc9 = "fill" /\ word0 = "done" /\ UNCHANGED <<disc, cacheAllocated, broken>>
        /\ pc9' # "fill"
    BY <1>4, CopyPartTypes DEF FillDone, Messages
  <2>2. UpdateDescriptor(slot, Aligned(sector)) /\ CopyPart(slot, Aligned(sector))
    BY <1>4 DEF FillDone
  <2>3. Held = Allocated \ {slot} /\ Held' = Allocated /\ Allocated \subseteq Slot
        /\ slot \in Slot
    BY <2>1, SizesAssumption DEF Held, Allocated, Slot, Types, CacheTypes
  <2>4. \A t \in Held : t # slot => cacheDescriptor[t] # Aligned(sector)
    BY <2>1 DEF Blocks
  <2>5. ~broken => \A j \in Inner : slotData[slot][j] = disc[Aligned(sector) + j]
    BY <2>1 DEF Coherent
  <2>6. ASSUME ~broken, NEW t \in Allocated, NEW j \in Inner
        PROVE  slotData'[t][j] = Expected(cacheDescriptor[t] + j)'
    BY <2>1, <2>2, <2>3, <2>4, <2>5, <2>6, CopyPartCoherent
  <2> QED
    BY <2>1, <2>3, <2>6 DEF Coherent
<1>5. CASE CacheMiss
  <2>1. /\ pc9 = "loop" /\ pc9' = "fill" /\ word0' = "msg"
        /\ UNCHANGED <<disc, slotData, cacheDescriptor, broken>>
    BY <1>5 DEF CacheMiss, SendMsg
  <2>2. Held' \subseteq Held
    BY <1>5, CacheMissKeepsHeld
  <2> QED
    BY <2>1, <2>2 DEF Coherent, Expected
<1>6. CASE Chunk \/ MoveDone
  <2>1. /\ pc9 \in {"chunk", "move"} /\ pc9' \in {"chunk", "move"}
        /\ UNCHANGED <<disc, slotData, cacheDescriptor, cacheAllocated, job, broken>>
    BY <1>6 DEF Chunk, MoveDone
  <2> QED
    BY <2>1 DEF Coherent, Expected, Held, Allocated, Extent, Cell
<1>7. CASE ChunksEnd
  <2>1. /\ pc9 = "chunk" /\ pc9' = "return" /\ numreads >= num
        /\ UNCHANGED <<disc, slotData, cacheDescriptor, cacheAllocated, job, broken>>
    BY <1>7 DEF ChunksEnd
  <2>2. ASSUME ~broken, job.kind = "write", NEW x \in Extent(job) PROVE disc[x] = Cell(job, x)
    <3>1. sector = job.sector /\ num = job.num
      BY <2>1 DEF Positions
    <3>2. x < sector + numreads
      BY <2>1, <3>1, SizesAssumption DEF Extent, Types, CallTypes, Jobs, Sector
    <3> QED
      BY <2>1, <2>2, <3>2 DEF Written
  <2>3. ~broken => \A x : Expected(x) = disc[x]
    BY <2>2 DEF Expected
  <2>4. \A x : Expected(x)' = disc[x]
    BY <2>1 DEF Expected
  <2>5. Held' = Held
    BY <2>1 DEF Held, Allocated
  <2> QED
    BY <2>1, <2>3, <2>4, <2>5 DEF Coherent
<1>8. CASE Return
  <2>1. /\ pc9 = "return" /\ pc9' = "idle"
        /\ UNCHANGED <<disc, slotData, cacheDescriptor, cacheAllocated, broken>>
    BY <1>8 DEF Return
  <2> QED
    BY <2>1 DEF Coherent, Expected, Held, Allocated
<1>9. CASE ReadMsg
  <2>1. UNCHANGED <<disc, cacheDescriptor, cacheAllocated, slot, job, pc9, sector>>
    BY <1>9 DEF ReadMsg
  <2>2. PICK ok \in BOOLEAN :
          /\ broken' = (broken \/ ~ok)
          /\ \/ /\ pc9 = "fill"
                /\ slotData' = [slotData EXCEPT ![slot] =
                     [j \in Inner |-> IF ok THEN disc[Aligned(sector) + j] ELSE Junk]]
             \/ pc9 = "move" /\ UNCHANGED slotData
    BY <1>9, ReadMsgEffect
  <2>3. ~broken' => ok /\ ~broken
    BY <2>2
  <2>4. Held' = Held /\ (pc9 = "fill" => slot \notin Held) /\ Held \subseteq Slot
    BY <2>1, SizesAssumption DEF Held, Allocated, Slot, Types, CacheTypes
  <2>5. \A t \in Held : slotData'[t] = slotData[t]
    BY <2>2, <2>4 DEF Contents
  <2>6. \A x : Expected(x)' = Expected(x)
    BY <2>1 DEF Expected, Extent, Cell
  <2>7. ok /\ pc9 = "fill" => \A j \in Inner : slotData'[slot][j] = disc[Aligned(sector) + j]
    BY <2>2 DEF Contents, Types, CacheTypes
  <2>8. Aligned(sector)' = Aligned(sector)
    BY <2>1 DEF Aligned
  <2> QED
    BY <2>1, <2>3, <2>4, <2>5, <2>6, <2>7, <2>8 DEF Coherent
<1>10. CASE WriteMsg
  <2>1. UNCHANGED <<slotData, cacheDescriptor, cacheAllocated, slot, job, pc9, sector, numreads, num, tmp>>
    BY <1>10 DEF WriteMsg
  <2>2. pc9 = "move" /\ job.kind = "write"
    BY <1>10, WriteMsgEffect
  <2>3. PICK ok \in BOOLEAN :
          /\ broken' = (broken \/ ~ok)
          /\ disc' = [x \in Sector |->
               IF ok /\ x \in (sector + numreads)..(sector + numreads + ChunkLen - 1)
               THEN tmp[x - (sector + numreads) + 1] ELSE disc[x]]
    BY <1>10, WriteMsgEffect
  <2>4. (sector + numreads)..(sector + numreads + ChunkLen - 1) \subseteq Extent(job)
    <3>1. sector = job.sector /\ num = job.num /\ numreads < num
      BY <2>2 DEF Positions
    <3>2. ChunkLen \in 1..(num - numreads)
      BY <2>2, <3>1, ChunkFits
    <3> QED
      BY <3>1, <3>2 DEF Extent, Types, CallTypes
  <2>5. \A x \in Sector : Expected(x)' = Expected(x)
    BY <2>1, <2>2, <2>3, <2>4 DEF Expected, Extent, Cell
  <2>6. Held' = Held
    BY <2>1 DEF Held, Allocated
  <2>7. ~broken' => ~broken
    BY <2>3
  <2>8. \A t \in Held, j \in Inner : cacheDescriptor[t] + j \in Sector
    BY HeldOnCard
  <2> QED
    BY <2>1, <2>2, <2>5, <2>6, <2>7, <2>8 DEF Coherent, Expected
<1> QED
  BY <1>1, <1>2, <1>3, <1>4, <1>5, <1>6, <1>7, <1>8, <1>9, <1>10 DEF Next, Driver, Engine

-----------------------------------------------------------------------------
(* What follows for every run of the driver.                                *)

(* The indices into the cache, the place and extent of a call and the shared   *)
(* words have their types in every state, long writes included.              *)
THEOREM DldiTypesCorrect == Spec => []Types
BY TypesInit, TypesKept, PTL DEF Spec

(* Neither processor touches a bank of the WRAM while it is switched to the   *)
(* other, over any sequence of startups, calls and failures.                *)
THEOREM DldiBanksApart == Spec => []BanksApart
<1>1. Init => BanksApart
  BY DEF Init, BanksApart
<1> QED
  BY <1>1, BanksApartKept, DldiTypesCorrect, PTL DEF Spec

(* All that the cache rests on, when no write reaches over the end of a block. *)
Inv ==
  /\ Types /\ Positions /\ Messages /\ Contents /\ Lengths
  /\ Blocks /\ Coherent /\ Written /\ Fetched

LEMMA InitInv == Init => Inv
<1> SUFFICES ASSUME Init PROVE Inv
  OBVIOUS
<1>1. Types
  BY TypesInit
<1>2. Positions /\ Messages
  BY DEF Init, Positions, Messages
<1>3. Contents
  <2>1. \A x \in Sector : <<0, x>> \in Value
    BY SizesAssumption, CellValue DEF Sector
  <2> QED
    BY <2>1, JunkValue DEF Init, Contents
<1>4. Held = {} /\ Allocated = {}
  BY DEF Init, Held, Allocated
<1>5. Blocks /\ Coherent
  BY <1>4 DEF Init, Blocks, Coherent
<1>6. Lengths /\ Written /\ Fetched
  BY DEF Init, Lengths, Written, Fetched
<1> QED
  BY <1>1, <1>2, <1>3, <1>5, <1>6 DEF Inv

LEMMA NextInv == LongWrites = FALSE /\ Inv /\ [Next]_vars => Inv'
BY TypesKept, PositionsKept, MessagesKept, ContentsKept, LengthsKept, BlocksKept, CoherentKept,
   WrittenKept, FetchedKept DEF Inv

(* The invariant is one of driver and engine together.                       *)
THEOREM DldiInvariant == LongWrites = FALSE => (Spec => []Inv)
<1> SUFFICES ASSUME LongWrites = FALSE PROVE Spec => []Inv
  OBVIOUS
<1>1. Inv /\ [Next]_vars => Inv'
  BY NextInv
<1> QED
  BY <1>1, InitInv, PTL DEF Spec

(* Between two calls the cache is the card, for any interleaving of the two    *)
(* processors, any order of calls and evictions, and as long as no transfer    *)
(* fails and no write reaches over the end of a block.                       *)
THEOREM DldiCacheCoherent == LongWrites = FALSE => (Spec => []CacheCoherent)
<1> SUFFICES ASSUME LongWrites = FALSE PROVE Spec => []CacheCoherent
  OBVIOUS
<1>1. Inv => CacheCoherent
  <2> SUFFICES ASSUME Inv, pc9 = "idle", ~broken, NEW s \in Allocated, NEW j \in Inner
               PROVE  slotData[s][j] = disc[cacheDescriptor[s] + j]
    BY DEF CacheCoherent
  <2>1. s \in Held
    BY DEF Held
  <2> QED
    BY <2>1 DEF Inv, Coherent, Expected
<1> QED
  BY <1>1, DldiInvariant, PTL

-----------------------------------------------------------------------------
(* The block device.                                                        *)

LEMMA DeviceExtents ==
  \A j, x : Device!Extent(j) = Extent(j) /\ Device!Cell(j, x) = Cell(j, x)
BY DEF Device!Extent, Extent, Device!Cell, Cell

(* A call begins.                                                           *)
LEMMA BeginStep == Inv /\ Begin /\ ~broken => Device!Call
<1> SUFFICES ASSUME Inv, Begin, ~broken PROVE Device!Call
  OBVIOUS
<1>1. /\ pc9 = "idle" /\ pc9' \in {"loop", "direct", "chunk"} /\ got' = <<>>
      /\ UNCHANGED <<disc, reply, broken>>
  BY DEF Begin
<1>2. PICK kind \in {"read", "write"}, s \in Sector, n \in 1..NSectors :
        /\ s + n <= NSectors
        /\ job' = [kind |-> kind, sector |-> s, num |-> n, id |-> job.id + 1]
  BY DEF Begin
<1>3. job.id \in Nat /\ NSectors \in Nat
  BY SizesAssumption DEF Inv, Types, CallTypes, Jobs
<1>4. job' \in Device!Jobs
  BY <1>2, <1>3 DEF Device!Jobs, Device!Sector, Sector
<1>5. Device!Extent(job') \subseteq Device!Sector
  BY <1>2, <1>3 DEF Device!Extent, Device!Sector, Sector
<1>6. job'.id = job.id + 1
  BY <1>2
<1> QED
  BY <1>1, <1>4, <1>5, <1>6 DEF Device!Call, Busy

(* A part of a read is delivered out of a slot, or a part of a write is put    *)
(* in one, which no one outside sees.                                       *)
LEMMA CopyPartStep ==
  ASSUME Inv, pc9 \in {"loop", "fill"}, NEW s \in Slot, CopyPart(s, Aligned(sector)),
         \A j \in Inner : slotData[s][j] = disc[Aligned(sector) + j],
         UNCHANGED <<disc, broken>>
  PROVE  Device!ReadOn \/ UNCHANGED Device!vars
<1> DEFINE len2 == InBlock(Aligned(sector))
           part == [i \in 1..len2 |-> slotData[s][sector - Aligned(sector) + i - 1]]
           asked == [i \in 1..len2 |-> disc[job.sector + Len(got) + i - 1]]
<1>1. /\ len2 \in 1..num /\ job' = job /\ pc9' \in {"loop", "return", "chunk"} /\ reply' = reply
  BY CopyPartPlace, CopyPartTypes DEF Inv, CopyPart
<1>2. Busy /\ Busy'
  BY <1>1 DEF Busy
<1>3. CASE job.kind = "read"
  <2>1. got' = got \o part
    BY <1>3 DEF CopyPart
  <2>2. /\ Len(got) = sector - job.sector /\ sector + num = job.sector + job.num
        /\ sector \in Nat /\ job.sector \in Nat /\ num \in Nat /\ job.num \in Nat
    BY <1>3, SizesAssumption DEF Inv, Lengths, Positions, Types, CallTypes, Jobs, Sector
  <2>3. len2 \in 1..(job.num - Len(got))
    <3>1. job.num - Len(got) = num
      BY <2>2
    <3> QED
      BY <1>1, <3>1
  <2>4. ASSUME NEW i \in 1..len2
        PROVE  slotData[s][sector - Aligned(sector) + i - 1] = disc[job.sector + Len(got) + i - 1]
    <3>1. /\ sector - Aligned(sector) + len2 <= BlockSize /\ Aligned(sector) \in Nat
          /\ Aligned(sector) <= sector /\ len2 \in Nat
      BY <1>1, <2>2, PartFits, AlignedFacts DEF Inv
    <3> DEFINE j == sector - Aligned(sector) + i - 1
    <3>2. i \in Nat /\ i >= 1 /\ i <= len2
      BY <3>1
    <3>3. j \in Inner /\ Aligned(sector) + j = job.sector + Len(got) + i - 1
      <4> HIDE DEF len2
      <4>1. BlockSize \in Nat
        BY SizesAssumption
      <4>2. j \in Int /\ j >= 0 /\ j <= BlockSize - 1
        BY <2>2, <3>1, <3>2, <4>1
      <4>3. j \in Inner
        BY <4>1, <4>2 DEF Inner
      <4>4. Aligned(sector) + j = job.sector + Len(got) + i - 1
        BY <2>2, <3>1, <3>2
      <4> QED
        BY <4>3, <4>4
    <3> QED
      BY <3>3
  <2>5. part = asked
    BY <2>4
  <2>6. got' = got \o asked
    BY <2>1, <2>5
  <2> QED
    BY <1>1, <1>2, <1>3, <2>3, <2>6 DEF Device!ReadOn
<1>4. CASE job.kind # "read"
  <2>1. UNCHANGED got
    BY <1>4 DEF CopyPart
  <2> QED
    BY <1>1, <1>2, <2>1 DEF Device!vars
<1> QED
  BY <1>3, <1>4

LEMMA HitAndFillStep ==
  Inv /\ (CacheHit \/ FillDone) /\ ~broken => Device!ReadOn \/ UNCHANGED Device!vars
<1> SUFFICES ASSUME Inv, CacheHit \/ FillDone, ~broken
             PROVE  Device!ReadOn \/ UNCHANGED Device!vars
  OBVIOUS
<1>1. CASE CacheHit
  <2> DEFINE s == SlotForSector(Aligned(sector))
  <2>1. s \in Allocated /\ cacheDescriptor[s] = Aligned(sector) /\ CopyPart(s, Aligned(sector))
        /\ pc9 = "loop" /\ UNCHANGED <<disc, broken>>
    BY <1>1, SlotForSectorFinds DEF CacheHit, Inv
  <2>2. s \in Slot /\ s \in Held
    BY <2>1, SizesAssumption DEF Held, Allocated, Slot, Inv, Types, CacheTypes
  <2>3. \A j \in Inner : slotData[s][j] = disc[Aligned(sector) + j]
    BY <2>1, <2>2 DEF Inv, Coherent, Expected
  <2> QED
    BY <2>1, <2>2, <2>3, CopyPartStep
<1>2. CASE FillDone
  <2>1. pc9 = "fill" /\ CopyPart(slot, Aligned(sector)) /\ UNCHANGED <<disc, broken>>
        /\ word0 = "done" /\ slot \in Slot
    BY <1>2 DEF FillDone, Inv, Messages, Types, CacheTypes
  <2>2. \A j \in Inner : slotData[slot][j] = disc[Aligned(sector) + j]
    BY <2>1 DEF Inv, Coherent
  <2> QED
    BY <2>1, <2>2, CopyPartStep
<1> QED
  BY <1>1, <1>2

(* All of a call at once.                                                   *)
LEMMA DirectStep == Inv /\ Direct => Device!ReadOn \/ Device!WriteOn
<1> SUFFICES ASSUME Inv, Direct PROVE Device!ReadOn \/ Device!WriteOn
  OBVIOUS
<1>1. pc9 = "direct" /\ pc9' = "return" /\ UNCHANGED <<job, reply, broken>>
  BY DEF Direct, locals
<1>2. Busy /\ Busy'
  BY <1>1 DEF Busy
<1>3. /\ job.kind \in {"read", "write"} /\ job.num \in Nat \ {0} /\ job.sector \in Nat
      /\ got \in Seq(Value)
  BY SizesAssumption DEF Inv, Types, CallTypes, Jobs, Sector, Contents
<1>4. CASE job.kind = "read"
  <2>1. Len(got) = 0
    BY <1>1, <1>4 DEF Inv, Lengths
  <2> DEFINE asked == [i \in 1..job.num |-> disc[job.sector + Len(got) + i - 1]]
  <2>2. got' = [i \in 1..job.num |-> disc[job.sector + i - 1]] /\ UNCHANGED disc
    BY <1>4 DEF Direct
  <2>3. \A i \in 1..job.num : job.sector + i - 1 = job.sector + Len(got) + i - 1
    BY <1>3, <2>1
  <2>4. got' = asked
    BY <2>2, <2>3
  <2>5. got = <<>>
    BY <1>3, <2>1
  <2>6. asked \in Seq(Value)
    <3>1. \A i \in 1..job.num : job.sector + i - 1 \in Sector
      BY SizesAssumption DEF Inv, Types, CallTypes, Jobs, Sector
    <3>2. asked \in [1..job.num -> Value]
      BY <2>3, <3>1 DEF Inv, Contents
    <3> HIDE DEF asked
    <3> QED
      BY <1>3, <3>2, SeqFromFunction
  <2>7. got' = got \o asked
    <3> HIDE DEF asked
    <3> QED
      BY <2>4, <2>5, <2>6
  <2>8. job.num \in 1..(job.num - Len(got))
    BY <1>3, <2>1
  <2> QED
    BY <1>1, <1>2, <1>4, <2>2, <2>7, <2>8 DEF Device!ReadOn
<1>5. CASE job.kind = "write"
  <2>1. /\ disc' = [x \in Sector |-> IF x \in Extent(job) THEN Cell(job, x) ELSE disc[x]]
        /\ UNCHANGED got
    BY <1>5 DEF Direct
  <2>2. disc' = [x \in Device!Sector |-> IF x \in Device!Extent(job)
                                        THEN Device!Cell(job, x) ELSE disc[x]]
    BY <2>1, DeviceExtents DEF Device!Sector, Sector
  <2> QED
    BY <1>1, <1>2, <1>5, <2>1, <2>2 DEF Device!WriteOn
<1> QED
  BY <1>3, <1>4, <1>5

(* A transfer through tmp_buf arrives.                                       *)
LEMMA MoveStep == Inv /\ MoveDone /\ ~broken => Device!ReadOn \/ UNCHANGED Device!vars
<1> SUFFICES ASSUME Inv, MoveDone, ~broken PROVE Device!ReadOn \/ UNCHANGED Device!vars
  OBVIOUS
<1>1. pc9 = "move" /\ pc9' = "chunk" /\ word0 = "done" /\ UNCHANGED <<disc, job, reply, broken>>
  BY DEF MoveDone, Inv, Messages
<1>2. Busy /\ Busy'
  BY <1>1 DEF Busy
<1>3. CASE job.kind = "read"
  <2> DEFINE part  == [i \in 1..ChunkLen |-> tmp[i]]
             asked == [i \in 1..ChunkLen |-> disc[job.sector + Len(got) + i - 1]]
  <2>1. /\ sector = job.sector /\ num = job.num /\ numreads < num /\ Len(got) = numreads
        /\ numreads \in Nat /\ sector \in Nat /\ num \in Nat
    BY <1>1, <1>3 DEF Inv, Positions, Lengths, Smaller, Types, CallTypes
  <2>2. ChunkLen \in 1..(job.num - Len(got))
    BY <1>1, <2>1, ChunkFits DEF Inv
  <2>3. \A i \in 1..ChunkLen : tmp[i] = disc[job.sector + Len(got) + i - 1]
    BY <1>1, <1>3, <2>1 DEF Inv, Fetched
  <2>4. part = asked
    BY <2>3
  <2>5. got' = got \o asked
    BY <1>3, <2>4 DEF MoveDone
  <2> QED
    BY <1>1, <1>2, <1>3, <2>2, <2>5 DEF Device!ReadOn
<1>4. CASE job.kind # "read"
  <2>1. UNCHANGED got
    BY <1>4 DEF MoveDone
  <2> QED
    BY <1>1, <1>2, <2>1 DEF Device!vars
<1> QED
  BY <1>3, <1>4

(* The engine's transfers: a block or a part of a write, or a failure.        *)
LEMMA TransferStep ==
  Inv /\ (ReadMsg \/ WriteMsg) /\ ~broken =>
    Device!Break \/ Device!WriteOn \/ UNCHANGED Device!vars
<1> SUFFICES ASSUME Inv, ReadMsg \/ WriteMsg, ~broken
             PROVE  Device!Break \/ Device!WriteOn \/ UNCHANGED Device!vars
  OBVIOUS
<1>1. pc9 \in {"fill", "move"} /\ UNCHANGED <<pc9, job, got, reply>>
  BY DEF ReadMsg, WriteMsg, Inv, Messages, call
<1>2. Busy /\ Busy'
  BY <1>1 DEF Busy
<1>3. broken' \in BOOLEAN
  BY ReadMsgEffect, WriteMsgEffect DEF Inv
<1>4. CASE broken' = TRUE
  BY <1>2, <1>4 DEF Device!Break
<1>5. CASE broken' = FALSE /\ ReadMsg
  <2>1. UNCHANGED disc /\ broken' = broken
    BY <1>5 DEF ReadMsg, Inv, Types, WordTypes
  <2> QED
    BY <1>1, <1>2, <2>1 DEF Device!vars
<1>6. CASE broken' = FALSE /\ WriteMsg
  <2> DEFINE some == (sector + numreads)..(sector + numreads + ChunkLen - 1)
  <2>1. pc9 = "move" /\ job.kind = "write"
    BY <1>6, WriteMsgEffect DEF Inv
  <2>2. disc' = [x \in Sector |-> IF x \in some THEN tmp[x - (sector + numreads) + 1] ELSE disc[x]]
    <3>1. PICK ok \in BOOLEAN :
            /\ broken' = (broken \/ ~ok)
            /\ disc' = [x \in Sector |-> IF ok /\ x \in some
                                        THEN tmp[x - (sector + numreads) + 1] ELSE disc[x]]
      BY <1>6, WriteMsgEffect DEF Inv
    <3>2. ok
      BY <1>6, <3>1
    <3> QED
      BY <3>1, <3>2
  <2>3. /\ sector = job.sector /\ num = job.num /\ numreads < num
        /\ numreads \in Nat /\ sector \in Nat /\ num \in Nat
    BY <2>1 DEF Inv, Positions, Types, CallTypes
  <2>4. ChunkLen \in 1..(num - numreads)
    BY <2>1, <2>3, ChunkFits DEF Inv
  <2>5. some \subseteq Device!Extent(job)
    BY <2>3, <2>4 DEF Device!Extent
  <2>6. ASSUME NEW x \in some PROVE tmp[x - (sector + numreads) + 1] = Device!Cell(job, x)
    <3> DEFINE i == x - (sector + numreads) + 1
    <3>1. i \in 1..ChunkLen /\ sector + numreads + i - 1 = x
      BY <2>3, <2>4
    <3>2. tmp[i] = Cell(job, sector + numreads + i - 1)
      BY <2>1, <3>1 DEF Inv, Written
    <3> QED
      BY <3>1, <3>2, DeviceExtents
  <2>7. disc' = [x \in Device!Sector |-> IF x \in some THEN Device!Cell(job, x) ELSE disc[x]]
    BY <2>2, <2>6 DEF Device!Sector, Sector
  <2>8. broken' = broken
    BY <1>6 DEF Inv, Types, WordTypes
  <2> HIDE DEF some
  <2> QED
    BY <1>1, <1>2, <2>1, <2>5, <2>7, <2>8 DEF Device!WriteOn
<1> QED
  BY <1>3, <1>4, <1>5, <1>6

(* A call returns, and then all of it has been done.                         *)
LEMMA ReturnStep == Inv /\ Return /\ ~broken => Device!Return
<1> SUFFICES ASSUME Inv, Return, ~broken PROVE Device!Return
  OBVIOUS
<1>1. pc9 = "return" /\ pc9' = "idle" /\ UNCHANGED <<disc, job, got, broken>>
  BY DEF Return
<1>2. Busy /\ ~Busy' /\ reply' \in BOOLEAN
  BY <1>1 DEF Busy, Return
<1>3. Device!Complete
  <2>1. job.kind \in {"read", "write"}
    BY DEF Inv, Types, CallTypes, Jobs
  <2>2. CASE job.kind = "read"
    BY <1>1, <2>2 DEF Device!Complete, Inv, Lengths
  <2>3. CASE job.kind = "write"
    BY <1>1, <2>3, DeviceExtents DEF Device!Complete, Inv, Written
  <2> QED
    BY <2>1, <2>2, <2>3
<1> QED
  BY <1>1, <1>2, <1>3 DEF Device!Return

(* What the driver does besides is not seen.                                 *)
LEMMA InnerStep ==
  ASSUME \/ Startup \/ WaitValue32 \/ HaveTimeout \/ HaveDone \/ StartDone \/ CacheMiss
         \/ Chunk \/ ChunksEnd \/ AnswerValue \/ SendResult \/ UNCHANGED vars
  PROVE  UNCHANGED Device!vars
<1> USE DEF Device!vars, Busy, call
<1>1. Startup \/ HaveTimeout \/ HaveDone \/ StartDone => UNCHANGED Device!vars
  BY DEF Startup, HaveTimeout, HaveDone, StartDone
<1>2. CacheMiss \/ Chunk \/ ChunksEnd => UNCHANGED Device!vars
  BY DEF CacheMiss, Chunk, ChunksEnd
<1>3. WaitValue32 \/ AnswerValue \/ SendResult \/ UNCHANGED vars => UNCHANGED Device!vars
  BY DEF WaitValue32, AnswerValue, SendResult, vars
<1> QED
  BY <1>1, <1>2, <1>3

(* Once a transfer has failed nothing is promised, and it stays so.           *)
LEMMA BrokenStep == Types /\ broken /\ [Next]_vars => Device!Broken
<1> SUFFICES ASSUME Types, broken, [Next]_vars PROVE broken' = TRUE
  BY DEF Device!Broken
<1>1. CASE \/ Startup \/ Begin \/ WaitValue32 \/ HaveTimeout \/ HaveDone \/ StartDone \/ Direct
           \/ CacheHit \/ CacheMiss \/ FillDone
  <2>1. broken' = broken
    BY <1>1 DEF Startup, Begin, WaitValue32, HaveTimeout, HaveDone, StartDone, Direct, CacheHit,
       CacheMiss, FillDone
  <2> QED
    BY <2>1 DEF Types, WordTypes
<1>2. CASE \/ Chunk \/ MoveDone \/ ChunksEnd \/ Return \/ AnswerValue \/ SendResult \/ UNCHANGED vars
  <2>1. broken' = broken
    BY <1>2 DEF Chunk, MoveDone, ChunksEnd, Return, AnswerValue, SendResult, vars
  <2> QED
    BY <2>1 DEF Types, WordTypes
<1>3. CASE ReadMsg \/ WriteMsg
  BY <1>3 DEF ReadMsg, WriteMsg
<1> QED
  BY <1>1, <1>2, <1>3 DEF Next, Driver, Engine

(* Homebrew sees a block device: every run of driver and engine together is    *)
(* one of BlockDevice, if no write reaches over the end of a cache block.      *)
THEOREM DldiImplementsBlockDevice == LongWrites = FALSE => (Spec => ImplementsBlockDevice)
<1> SUFFICES ASSUME LongWrites = FALSE PROVE Spec => ImplementsBlockDevice
  OBVIOUS
<1>1. Init => Device!Init
  BY DEF Init, Device!Init, Device!Sector, Sector, Busy
<1>2. Inv /\ [Next]_vars => [Device!Next]_Device!vars
  <2> SUFFICES ASSUME Inv, [Next]_vars PROVE Device!Next \/ UNCHANGED Device!vars
    OBVIOUS
  <2>1. CASE broken
    BY <2>1, BrokenStep DEF Inv, Device!Next
  <2>2. CASE ~broken
    <3>1. CASE Begin
      BY <2>2, <3>1, BeginStep DEF Device!Next
    <3>2. CASE CacheHit \/ FillDone
      BY <2>2, <3>2, HitAndFillStep DEF Device!Next
    <3>3. CASE Direct
      BY <2>2, <3>3, DirectStep DEF Device!Next
    <3>4. CASE MoveDone
      BY <2>2, <3>4, MoveStep DEF Device!Next
    <3>5. CASE ReadMsg \/ WriteMsg
      BY <2>2, <3>5, TransferStep DEF Device!Next
    <3>6. CASE Return
      BY <2>2, <3>6, ReturnStep DEF Device!Next
    <3>7. CASE \/ Startup \/ WaitValue32 \/ HaveTimeout \/ HaveDone \/ StartDone \/ CacheMiss
               \/ Chunk \/ ChunksEnd \/ AnswerValue \/ SendResult \/ UNCHANGED vars
      BY <3>7, InnerStep
    <3> QED
      BY <3>1, <3>2, <3>3, <3>4, <3>5, <3>6, <3>7 DEF Next, Driver, Engine
  <2> QED
    BY <2>1, <2>2
<1> QED
  BY <1>1, <1>2, DldiInvariant, PTL DEF Spec, ImplementsBlockDevice, Device!Spec

-----------------------------------------------------------------------------
(* That a call ends.  CallEnds is about time and stays with TLC; what makes it  *)
(* true is a count that every step of a call, of either processor, takes down   *)
(* by one at least: five steps for a transfer at most, and one transfer for a   *)
(* sector at most.  Writes over the end of a block are no exception.           *)

(* What the loops count with.                                               *)
Counts ==
  /\ pc9 \in {"loop", "fill"} => num \in 1..job.num /\ numreads = 0
  /\ pc9 \in {"chunk", "move"} => num = job.num
  /\ pc9 = "move" => numreads < num

(* What is still to be done for the words: answer, second store, waitValue32.  *)
WordsLeft ==
  (IF word0 \in {"value", "msg"} THEN 2 ELSE 0) + (IF pc7 = "value" THEN 1 ELSE 0)
  + (IF pc9 \in {"fill", "move"} /\ ~seen THEN 1 ELSE 0)

(* Sectors that the loop over tmp_buf has yet to reach.                       *)
Rest == IF numreads < num THEN num - numreads ELSE 0

(* Transfers that are still to come, of five steps each; a message that has    *)
(* been sent has four of them in the words.                                  *)
PlaceLeft ==
  IF pc9 \in {"loop", "fill"}
    THEN 5 * num + (IF job.kind = "write" THEN 5 * job.num + 2 ELSE 1)
         - (IF pc9 = "fill" THEN 4 ELSE 0)
  ELSE IF pc9 \in {"chunk", "move"}
    THEN 5 * Rest + 2 - (IF pc9 = "move" THEN 4 ELSE 0)
  ELSE IF pc9 = "direct" THEN 2 ELSE 1

StepsLeft == PlaceLeft + WordsLeft

(* Ten steps for a sector: a write goes through the cache and to the card.     *)
CallBounded == Busy => StepsLeft \in 1 .. 10 * job.num + 6

CallShrinks == Busy /\ Busy' => StepsLeft' < StepsLeft

(* While the driver waits for the engine, the engine has something to do or    *)
(* has done it.                                                             *)
NeverAsleep ==
  pc9 \in {"fill", "move"} => word0 = "msg" \/ pc7 = "value" \/ Answered

(* What a part of a call through the cache leaves to do.                      *)
LEMMA PartShrinks ==
  ASSUME Types, Counts, pc9 \in {"loop", "fill"}, NEW s, CopyPart(s, Aligned(sector))
  PROVE  /\ UNCHANGED <<numreads, job>>
         /\ \/ pc9' = "return"
            \/ pc9' = "chunk" /\ num' = job.num /\ job.kind = "write"
            \/ pc9' = "loop" /\ num' \in 1..num - 1
<1> DEFINE len2 == InBlock(Aligned(sector))
<1>1. len2 \in 1..num /\ num \in Nat
  BY PartFits DEF Types, CallTypes, Counts
<1>2. UNCHANGED <<numreads, job>>
  BY DEF CopyPart
<1>3. CASE num > len2
  <2>1. num' = num - len2 /\ pc9' = "loop"
    BY <1>3 DEF CopyPart
  <2> QED
    BY <1>1, <1>2, <1>3, <2>1
<1>4. CASE ~(num > len2)
  <2>1. \/ pc9' = "return"
        \/ pc9' = "chunk" /\ num' = job.num /\ job.kind # "read"
    BY <1>4 DEF CopyPart
  <2>2. job.kind # "read" => job.kind = "write"
    BY DEF Types, CallTypes, Jobs
  <2> QED
    BY <1>2, <2>1, <2>2
<1> QED
  BY <1>3, <1>4

(* The counts hold after each step, for writes of any length.                *)
LEMMA CountsKept ==
  ASSUME Types, Counts, [Next]_vars
  PROVE  Counts'
<1> USE DEF Counts, words, cache, locals, call
<1>0. num \in Nat /\ numreads \in Nat /\ job.num \in Nat
  BY DEF Types, CallTypes, Jobs
<1>1. CASE Begin
  <2>1. /\ pc9' \in {"loop", "direct", "chunk"} /\ numreads' = 0
        /\ num' = job'.num /\ job'.num \in 1..NSectors
    BY <1>1 DEF Begin
  <2> QED
    BY <2>1, SizesAssumption
<1>2. CASE CacheHit \/ FillDone
  <2>1. pc9 \in {"loop", "fill"} /\ \E s : CopyPart(s, Aligned(sector))
    BY <1>2 DEF CacheHit, FillDone
  <2> QED
    BY <1>0, <2>1, PartShrinks
<1>3. CASE CacheMiss \/ Chunk
  <2>1. /\ UNCHANGED <<num, numreads, job>>
        /\ \/ pc9 = "loop" /\ pc9' = "fill"
           \/ pc9 = "chunk" /\ pc9' = "move" /\ numreads < num
    BY <1>3 DEF CacheMiss, Chunk
  <2> QED
    BY <2>1
<1>4. CASE MoveDone
  <2>1. pc9 = "move" /\ pc9' = "chunk" /\ UNCHANGED <<num, job>>
    BY <1>4 DEF MoveDone
  <2> QED
    BY <2>1
<1>5. CASE Startup \/ HaveTimeout \/ HaveDone \/ StartDone \/ Direct \/ ChunksEnd \/ Return
  <2>1. pc9' \in {"off", "have", "start", "idle", "return"}
    BY <1>5 DEF Startup, HaveTimeout, HaveDone, StartDone, Direct, ChunksEnd, Return
  <2> QED
    BY <2>1
<1>6. CASE WaitValue32 \/ AnswerValue \/ ReadMsg \/ WriteMsg \/ SendResult \/ UNCHANGED vars
  <2>1. UNCHANGED <<pc9, num, numreads, job>>
    BY <1>6 DEF WaitValue32, AnswerValue, ReadMsg, WriteMsg, SendResult, vars
  <2> QED
    BY <2>1
<1> QED
  BY <1>1, <1>2, <1>3, <1>4, <1>5, <1>6 DEF Next, Driver, Engine

(* The sizes of the count.                                                   *)
LEMMA CountTypes ==
  ASSUME Types, Counts
  PROVE  /\ num \in Nat /\ numreads \in Nat /\ job.num \in 1..NSectors
         /\ Rest \in 0..num /\ WordsLeft \in 0..4
         /\ pc9 \in {"loop", "fill"} => num \in 1..job.num
         /\ pc9 \in {"chunk", "move"} => num = job.num
         /\ pc9 = "move" => Rest >= 1
<1>1. num \in Nat /\ numreads \in Nat /\ job.num \in Nat \ {0} /\ job.sector \in Nat
      /\ job.sector + job.num <= NSectors
  BY SizesAssumption DEF Types, CallTypes, Jobs, Sector
<1>2. Rest \in 0..num /\ (numreads < num => Rest >= 1)
  BY <1>1 DEF Rest
<1>3. WordsLeft \in 0..4
  BY DEF WordsLeft
<1> QED
  BY <1>1, <1>2, <1>3, SizesAssumption DEF Counts

(* From the counts the bound.                                               *)
LEMMA BoundedByCounts == Types /\ Counts => CallBounded
<1> SUFFICES ASSUME Types, Counts, Busy PROVE StepsLeft \in 1 .. 10 * job.num + 6
  BY DEF CallBounded
<1>1. PlaceLeft \in 1 .. 10 * job.num + 2
  BY CountTypes DEF PlaceLeft, Busy
<1> QED
  BY <1>1, CountTypes DEF StepsLeft

(* The count after a step, its two parts given.                              *)
LEMMA CountLess ==
  ASSUME NEW p \in Int, NEW q \in Int, NEW w \in Int, NEW v \in Int, q + v < p + w,
         PlaceLeft = p, PlaceLeft' = q, WordsLeft = w, WordsLeft' = v
  PROVE  StepsLeft' < StepsLeft
<1>1. StepsLeft = p + w
  BY DEF StepsLeft
<1>2. StepsLeft' = q + v
  BY Zenon DEF StepsLeft
<1> QED
  BY <1>1, <1>2

(* The engine, and the wait for it, take what is left to do for the words down. *)
LEMMA WordsShrink ==
  ASSUME Types, Counts, Busy,
         WaitValue32 \/ AnswerValue \/ ReadMsg \/ WriteMsg \/ SendResult
  PROVE  StepsLeft' < StepsLeft
<1> USE DEF words, cache, locals, call, arm7
<1>1. UNCHANGED <<pc9, num, numreads, job>>
  BY DEF WaitValue32, AnswerValue, ReadMsg, WriteMsg, SendResult
<1>2. PlaceLeft' = PlaceLeft
  BY <1>1 DEF PlaceLeft, Rest
<1>3. PlaceLeft \in Int /\ WordsLeft \in Int
  BY CountTypes DEF PlaceLeft, Busy
<1>4. WordsLeft' = WordsLeft - 1
  <2>1. CASE WaitValue32
    <3>1. pc9 \in {"fill", "move"} /\ ~seen /\ seen' = TRUE /\ UNCHANGED <<pc9, word0, pc7>>
      BY <2>1 DEF WaitValue32, Busy, Waits
    <3> QED
      BY <3>1 DEF WordsLeft
  <2>2. CASE AnswerValue \/ ReadMsg \/ WriteMsg
    <3>1. /\ word0 \in {"value", "msg"} /\ word0' = "done" /\ pc7 = "idle" /\ pc7' = "value"
          /\ UNCHANGED <<pc9, seen>>
      BY <2>2 DEF AnswerValue, ReadMsg, WriteMsg, Answer
    <3> QED
      BY <3>1 DEF WordsLeft
  <2>3. CASE SendResult
    <3>1. pc7 = "value" /\ pc7' = "idle" /\ UNCHANGED <<word0, pc9, seen>>
      BY <2>3 DEF SendResult
    <3> QED
      BY <3>1 DEF WordsLeft
  <2> QED
    BY <2>1, <2>2, <2>3
<1>5. PlaceLeft + (WordsLeft - 1) < PlaceLeft + WordsLeft /\ WordsLeft - 1 \in Int
  BY <1>3
<1> QED
  BY <1>2, <1>3, <1>4, <1>5, CountLess, Zenon

(* A new message costs three steps of the words, and its place has four less.   *)
LEMMA SendShrinks ==
  ASSUME Types, Counts, CacheMiss \/ Chunk
  PROVE  StepsLeft' < StepsLeft
<1> USE DEF words, cache, locals, call, arm7
<1>1. /\ word0' = "msg" /\ pc7 = "idle" /\ pc7' = "idle" /\ seen' = FALSE
      /\ UNCHANGED <<num, numreads, job>>
      /\ \/ pc9 = "loop" /\ pc9' = "fill"
         \/ pc9 = "chunk" /\ pc9' = "move"
  BY DEF CacheMiss, Chunk, SendMsg, Prompt
<1>2. PlaceLeft \in Int /\ WordsLeft \in Nat
  BY <1>1, CountTypes DEF PlaceLeft
<1>3. WordsLeft' = 3
  BY <1>1 DEF WordsLeft
<1>4. PlaceLeft' = PlaceLeft - 4
  BY <1>1, CountTypes DEF PlaceLeft, Rest
<1>5. (PlaceLeft - 4) + 3 < PlaceLeft + WordsLeft /\ PlaceLeft - 4 \in Int
      /\ 3 \in Int /\ WordsLeft \in Int
  BY <1>2
<1> QED
  BY <1>2, <1>3, <1>4, <1>5, CountLess, Zenon

(* A chunk that has been moved takes a transfer off.                          *)
LEMMA MoveShrinks ==
  ASSUME Types, Counts, MoveDone
  PROVE  StepsLeft' < StepsLeft
<1> USE DEF words, cache, locals, call, arm7
<1>1. /\ pc9 = "move" /\ pc9' = "chunk" /\ UNCHANGED <<num, job, word0, pc7>>
      /\ numreads' = numreads + MaxReads /\ seen
  BY DEF MoveDone
<1>2. PICK r \in Int : Rest' = r /\ r <= Rest - 1
  <2>1. Rest' = IF numreads + MaxReads < num THEN num - (numreads + MaxReads) ELSE 0
    BY <1>1 DEF Rest
  <2>2. numreads < num /\ num \in Nat /\ numreads \in Nat
    BY <1>1, CountTypes DEF Counts
  <2> QED
    BY <2>1, <2>2, SizesAssumption DEF Rest
<1>3. PlaceLeft = 5 * Rest - 2 /\ Rest \in Int /\ WordsLeft \in Int
  BY <1>1, CountTypes DEF PlaceLeft
<1>4. PlaceLeft' = 5 * r + 2
  BY <1>1, <1>2 DEF PlaceLeft
<1>5. WordsLeft' = WordsLeft
  BY <1>1 DEF WordsLeft
<1>6. (5 * r + 2) + WordsLeft < (5 * Rest - 2) + WordsLeft
      /\ 5 * r + 2 \in Int /\ 5 * Rest - 2 \in Int
  BY <1>2, <1>3
<1> QED
  BY <1>3, <1>4, <1>5, <1>6, CountLess, Zenon

(* A part of a call that goes through the cache.                              *)
LEMMA CopyShrinks ==
  ASSUME Types, Counts, CacheHit \/ FillDone
  PROVE  StepsLeft' < StepsLeft
<1> USE DEF words, cache, locals, call, arm7
<1>1. pc9 \in {"loop", "fill"} /\ (\E s : CopyPart(s, Aligned(sector)))
      /\ UNCHANGED <<word0, pc7>> /\ (pc9 = "fill" => seen)
  BY DEF CacheHit, FillDone
<1>2. /\ UNCHANGED <<numreads, job>>
      /\ \/ pc9' = "return"
         \/ pc9' = "chunk" /\ num' = job.num /\ job.kind = "write"
         \/ pc9' = "loop" /\ num' \in 1..num - 1
  BY <1>1, PartShrinks
<1>3. num \in 1..job.num /\ job.num \in Nat /\ numreads = 0 /\ WordsLeft \in Int
  BY <1>1, CountTypes DEF Counts
<1>4. WordsLeft' = WordsLeft
  BY <1>1, <1>2 DEF WordsLeft
<1> DEFINE after == IF job.kind = "write" THEN 5 * job.num + 2 ELSE 1
<1>5. after \in Nat /\ after >= 1 /\ (job.kind = "write" => after = 5 * job.num + 2)
  BY <1>3
<1>6. PlaceLeft \in Int /\ PlaceLeft >= 5 * num + after - 4
  BY <1>1, <1>3 DEF PlaceLeft
<1> HIDE DEF after
<1>7. \E q \in Int : PlaceLeft' = q /\ q < PlaceLeft
  <2>1. CASE pc9' = "return"
    <3>1. PlaceLeft' = 1
      BY <2>1 DEF PlaceLeft
    <3> QED
      BY <1>3, <1>5, <1>6, <3>1
  <2>2. CASE pc9' = "chunk" /\ num' = job.num /\ job.kind = "write"
    <3>1. Rest' = job.num
      BY <1>2, <1>3, <2>2 DEF Rest
    <3>2. PlaceLeft' = 5 * job.num + 2
      BY <2>2, <3>1 DEF PlaceLeft
    <3> QED
      BY <1>3, <1>5, <1>6, <2>2, <3>2
  <2>3. CASE pc9' = "loop" /\ num' \in 1..num - 1
    <3>1. PICK n \in 1..num - 1 : num' = n
      BY <2>3
    <3>2. PlaceLeft' = 5 * n + after
      BY <1>2, <1>3, <2>3, <3>1 DEF PlaceLeft, after
    <3>3. 5 * n + after \in Int /\ 5 * n + after < PlaceLeft
      BY <1>3, <1>5, <1>6, <3>1
    <3> QED
      BY <3>2, <3>3, Zenon
  <2> QED
    BY <1>2, <2>1, <2>2, <2>3
<1>8. PICK q \in Int : PlaceLeft' = q /\ q < PlaceLeft
  BY <1>7
<1>9. q + WordsLeft < PlaceLeft + WordsLeft
  BY <1>3, <1>6, <1>8
<1> QED
  BY <1>3, <1>4, <1>6, <1>8, <1>9, CountLess, Zenon

(* The end of the loops.                                                    *)
LEMMA EndShrinks ==
  ASSUME Types, Counts, Direct \/ ChunksEnd
  PROVE  StepsLeft' < StepsLeft
<1> USE DEF words, cache, locals, call, arm7
<1>1. pc9 \in {"direct", "chunk"} /\ pc9' = "return" /\ UNCHANGED <<word0, pc7>>
  BY DEF Direct, ChunksEnd
<1>2. WordsLeft' = WordsLeft
  BY <1>1 DEF WordsLeft
<1>3. PlaceLeft' = 1
  BY <1>1 DEF PlaceLeft
<1>4. PlaceLeft \in Int /\ PlaceLeft >= 2 /\ WordsLeft \in Int
  BY <1>1, CountTypes DEF PlaceLeft
<1>5. 1 + WordsLeft < PlaceLeft + WordsLeft /\ 1 \in Int
  BY <1>4
<1> QED
  BY <1>2, <1>3, <1>4, <1>5, CountLess, Zenon

(* Each step of either processor during a call.                              *)
LEMMA ShrinkStep == Types /\ Counts /\ Next => CallShrinks
<1> SUFFICES ASSUME Types, Counts, Next, Busy, Busy' PROVE StepsLeft' < StepsLeft
  BY DEF CallShrinks
<1>1. CASE Startup \/ HaveTimeout \/ HaveDone \/ StartDone \/ Begin \/ Return
  <2>1. pc9 \in {"off", "have", "start", "idle"} \/ pc9' = "idle"
    BY <1>1 DEF Startup, HaveTimeout, HaveDone, StartDone, Begin, Return
  <2> QED
    BY <2>1 DEF Busy
<1> QED
  BY <1>1, WordsShrink, SendShrinks, MoveShrinks, CopyShrinks, EndShrinks
  DEF Next, Driver, Engine

(* A call takes at most ten steps for each of its sectors, and six more, of    *)
(* driver and engine together, whatever the cache holds and whether transfers  *)
(* fail or not: none of the loops of sd_ReadSectors and sd_WriteSectors, nor   *)
(* the wait without a timeout of waitValue32, goes round without getting on.   *)
(* With it CallEnds needs no more than that neither processor stops, since     *)
(* never do both wait.                                                       *)
THEOREM DldiCallShrinks ==
  Spec => [](CallBounded /\ NeverAsleep) /\ [][CallShrinks]_vars
<1>1. Init => Counts /\ Messages
  BY DEF Init, Counts, Messages
<1>2. Types /\ Counts /\ Messages /\ [Next]_vars => (Counts /\ Messages)'
  BY CountsKept, MessagesKept
<1>3. Types /\ Counts /\ Messages => CallBounded /\ NeverAsleep
  BY BoundedByCounts DEF Messages, NeverAsleep, Answered
<1>4. Types /\ Counts /\ [Next]_vars => [CallShrinks]_vars
  BY ShrinkStep
<1> QED
  BY <1>1, <1>2, <1>3, <1>4, DldiTypesCorrect, PTL DEF Spec
================================================================================
