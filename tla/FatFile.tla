-------------------------------- MODULE FatFile --------------------------------
(***************************************************************************)
(* The FAT driver of both card engines (my_fat.c): how a file offset finds   *)
(* its sector, through the FAT itself or through a table of the file's        *)
(* clusters kept in RAM, and how fileRead, fileWrite and the polled           *)
(* fileReadNonBLocking / resumeFileRead move bytes through the one sector     *)
(* buffer that all files of a volume share.                                 *)
(*                                                                          *)
(* The volume is an array of bytes; sector k holds bytes k*BytesPerSector    *)
(* onwards, and cluster c sectors c*discSecPerClus onwards.  A step is the code   *)
(* between two transfers.                                                   *)
(***************************************************************************)
EXTENDS Integers, Sequences, SequencesExt

CONSTANTS
  BytesPerSector,
  NClusters,         (* the volume's data clusters are 1..NClusters         *)
  CacheWords,        (* clusterCacheSize, in words                          *)
  Layouts,           (* bound: the cluster chains tried, by sectors in a     *)
                     (* cluster                                             *)
  MaxCalls           (* bound: calls of fileRead and fileWrite, likewise     *)

ASSUME GeometryAssumption ==
  /\ BytesPerSector \in Nat \ {0}
  /\ NClusters \in Nat
  /\ CacheWords \in Nat
  /\ DOMAIN Layouts \subseteq Nat \ {0} /\ MaxCalls \in [DOMAIN Layouts -> Nat]

(* The ROM is only read; the save (like the page file) is written too.      *)
File    == {"rom", "sav"}
Cluster == 1..NClusters
Eof     == 0               (* CLUSTER_EOF *)

(* A consistent FAT: no cluster is linked twice.                            *)
ASSUME LayoutsAssumption ==
  \A n \in DOMAIN Layouts : \A l \in Layouts[n] :
    /\ l \in [File -> Seq(Cluster)]
    /\ \A f, g \in File : \A i \in 1..Len(l[f]), j \in 1..Len(l[g]) :
         l[f][i] = l[g][j] => f = g /\ i = j

VARIABLES
  discSecPerClus,
  chain,     (* the FAT: each file's clusters in order                      *)
  beyond,    (* what the words after a cluster table read as, see Past      *)
  fatTable, cached, (* aFile.fatTableCache, the flags in fatTableSettings   *)
  cacheUsed, (* words of the cluster cache that lastClusterCacheUsed passed *)
  cursor,    (* aFile.currentCluster and currentOffset                      *)
  disk,      (* the volume's bytes                                          *)
  globalBuffer, prev, (* the sector buffer; prevFirstClust, prevSect, prevClust *)
  call, out, (* the call being served, and what it has put in its buffer    *)
  context, pollOut, (* the same for the polled read                         *)
  calls,     (* calls made so far                                           *)
  booted     (* the files whose table the loader has dealt with             *)

files == <<discSecPerClus, chain, beyond, fatTable, cached, cacheUsed, booted>>
vars  == <<files, cursor, disk, globalBuffer, prev, call, out, context,
           pollOut, calls>>

BytePerClus == BytesPerSector * discSecPerClus

(* A byte: the file and offset it was meant for, and the call that wrote it. *)
Byte(f, o, n) == <<f, o, n>>
Free == <<"free", 0, 0>>

FileSize(f) == Len(chain[f]) * BytePerClus

Volume == (discSecPerClus * BytesPerSector)..((NClusters + 1) * discSecPerClus * BytesPerSector - 1)

(* FAT_ClustToSect, sectors counted from the first data cluster's origin.   *)
ClustToSect(c) == c * discSecPerClus

(* n sectors of the volume from sector k on.                                *)
SectorsFrom(k, n) == [i \in 1..(n * BytesPerSector) |-> disk[k * BytesPerSector + i - 1]]

(* FAT_NextCluster.                                                         *)
NextCluster(c) ==
  IF \E f \in File : \E i \in 1..(Len(chain[f]) - 1) : chain[f][i] = c
    THEN LET f == CHOOSE f \in File : \E i \in 1..(Len(chain[f]) - 1) : chain[f][i] = c
             i == CHOOSE i \in 1..(Len(chain[f]) - 1) : chain[f][i] = c
         IN  chain[f][i + 1]
    ELSE Eof

FollowChain(c, n) ==
  LET after[k \in 0..n] == IF k = 0 THEN c ELSE NextCluster(after[k - 1])
  IN  after[n]

-----------------------------------------------------------------------------
(* The tables of clusters.                                                  *)

(* The maximal runs of consecutive clusters of a chain, <<first, count>>:    *)
(* a cluster lengthens the run before it, or starts another.                *)
Longer(t)   == [t EXCEPT ![Len(t)] = <<@[1], @[2] + 1>>]
Follows(s, i) == i > 1 /\ s[i] = s[i - 1] + 1

Runs(s) ==
  LET runs[i \in 0..Len(s)] ==
        IF i = 0 THEN <<>>
        ELSE IF Follows(s, i) THEN Longer(runs[i - 1])
        ELSE Append(runs[i - 1], <<s[i], 1>>)
  IN  runs[Len(s)]

(* Past the end of its table getCachedCluster returns whatever the memory   *)
(* there leads it to: here words that go on counting, from one that has no   *)
(* relation to the table or, what misleads the grouping of contiguous        *)
(* clusters most, from where the table of a file ended.                     *)
Past(i) == beyond + i

(* The clusters of the first k runs of a table.                             *)
Before(t) ==
  LET before[k \in 0..Len(t)] == IF k = 0 THEN 0 ELSE before[k - 1] + t[k][2]
  IN  before

(* Faulty getCachedCluster: the place in the run is not added.              *)
GetCachedClusterRunStart(f, i) ==
  LET t == fatTable[f]
      before == Before(t)
      hit == {k \in 1..Len(t) : i \in before[k - 1]..(before[k] - 1)}
  IN  IF cached[f] = "plain" THEN (IF i < Len(t) THEN t[i + 1] ELSE Past(i))
      ELSE IF hit = {} THEN Past(i) ELSE t[CHOOSE k \in hit : TRUE][1]

(* getCachedCluster: the i-th cluster, from 0.                              *)
GetCachedCluster(f, i) ==
  LET t == fatTable[f]
      before == Before(t)
      hit == {k \in 1..Len(t) : i \in before[k - 1]..(before[k] - 1)}
  IN  IF cached[f] = "plain" THEN (IF i < Len(t) THEN t[i + 1] ELSE Past(i))
      ELSE IF hit = {} THEN Past(i)
      ELSE LET k == CHOOSE k \in hit : TRUE
           IN  t[k][1] + (i - before[k - 1])

(* buildFatTableCache: one word for each cluster, as far as there is room.  *)
BuildFatTableCache(f) ==
  LET fits == Len(chain[f]) <= CacheWords - cacheUsed
  IN  /\ f \notin booted
      /\ booted' = booted \cup {f}
      /\ chain[f] # <<>>
      /\ cached' = [cached EXCEPT ![f] = IF fits THEN "plain" ELSE "no"]
      /\ fatTable' = [fatTable EXCEPT ![f] = IF fits THEN chain[f] ELSE <<>>]
      /\ cacheUsed' = IF fits THEN cacheUsed + Len(chain[f]) ELSE CacheWords
      /\ UNCHANGED <<discSecPerClus, chain, beyond, cursor, disk, globalBuffer, prev, call, out,
                     context, pollOut, calls>>

(* buildFatTableCacheCompressed: two words for each run of clusters, written *)
(* while there is room for the first of them.                               *)
BuildFatTableCacheCompressed(f) ==
  LET runs == Runs(chain[f])
      fits == 2 * (Len(runs) - 1) < CacheWords - cacheUsed
      room == CacheWords - cacheUsed
  IN  /\ f \notin booted
      /\ booted' = booted \cup {f}
      /\ chain[f] # <<>>
      /\ cached' = [cached EXCEPT ![f] = IF fits THEN "compressed" ELSE "no"]
      /\ fatTable' = [fatTable EXCEPT ![f] = IF fits THEN runs ELSE <<>>]
      /\ cacheUsed' = cacheUsed + (IF fits THEN 2 * Len(runs)
                                   ELSE 2 * ((room + 1) \div 2))
      /\ UNCHANGED <<discSecPerClus, chain, beyond, cursor, disk, globalBuffer, prev, call, out,
                     context, pollOut, calls>>

(* A file that gets no table (or does not exist).                           *)
SkipTable(f) ==
  /\ f \notin booted
  /\ booted' = booted \cup {f}
  /\ UNCHANGED <<discSecPerClus, chain, beyond, fatTable, cached, cacheUsed, cursor,
                 disk, globalBuffer, prev, call, out, context, pollOut, calls>>

-----------------------------------------------------------------------------
(* Where a file is: place.index is the index of the cluster in the table,    *)
(* place.sect the next sector within it.                                    *)
Place(i, c, o, s) == [index |-> i, cluster |-> c, offset |-> o, sect |-> s]

(* Faulty findCluster: an earlier offset does not restart the chain.        *)
FindClusterNoRestart(f, start) ==
  LET steps == (start - cursor[f].offset) \div BytePerClus
      sect  == (start % BytePerClus) \div BytesPerSector
  IN  IF steps <= 0 THEN Place(0, cursor[f].cluster, cursor[f].offset, sect)
      ELSE Place(0, FollowChain(cursor[f].cluster, steps),
                 cursor[f].offset + steps * BytePerClus, sect)

(* findCluster, and the sector that its callers compute.                    *)
FindCluster(f, start) ==
  LET sect  == (start % BytePerClus) \div BytesPerSector
      index == start \div BytePerClus
      from  == IF start < cursor[f].offset
                 THEN [cluster |-> chain[f][1], offset |-> 0] ELSE cursor[f]
      steps == (start - from.offset) \div BytePerClus
  IN  IF cached[f] # "no"
        THEN Place(index, GetCachedCluster(f, index), index * BytePerClus, sect)
        ELSE Place(0, FollowChain(from.cluster, steps),
                   from.offset + steps * BytePerClus, sect)

(* Faulty: a full cluster is not left.                                      *)
NextPlaceStays(f, p) == p

(* "Move to the next cluster if necessary."                                 *)
NextPlace(f, p) ==
  IF p.sect < discSecPerClus THEN p
  ELSE IF cached[f] # "no"
    THEN LET i == p.index + p.sect \div discSecPerClus
         IN  Place(i, GetCachedCluster(f, i), p.offset + BytePerClus,
                   p.sect % discSecPerClus)
    ELSE Place(p.index, NextCluster(p.cluster), p.offset + BytePerClus, 0)

Smaller(m, n) == IF m < n THEN m ELSE n

(* Faulty: the cluster that ends a contiguous group is read whole as well.  *)
SectorsToReadTooMany(f, p, chunks) == Smaller(chunks, 2 * discSecPerClus - p.sect)

(* How many sectors one transfer of a read takes: with a table, contiguous   *)
(* clusters are grouped; without, it stops at the end of the cluster.       *)
SectorsToRead(f, p, chunks) ==
  LET joined(i) == GetCachedCluster(f, i) + 1 = GetCachedCluster(f, i + 1)
      stops(k)  == k * discSecPerClus > chunks \/ ~joined(p.index + k)
      group     == CHOOSE k \in 0..(chunks \div discSecPerClus + 1) :
                     stops(k) /\ \A j \in 0..(k - 1) : ~stops(j)
      clusters  == IF cached[f] = "no" \/ group = 0 THEN 1 ELSE group
  IN  Smaller(chunks, clusters * discSecPerClus - p.sect)

(* The place after n sectors have been read.                                *)
AfterRead(f, p, n) ==
  LET sect  == p.sect + n
      index == p.index + sect \div discSecPerClus
  IN  IF cached[f] = "no" THEN [p EXCEPT !.sect = sect]
      ELSE Place(index, GetCachedCluster(f, index), p.offset, sect % discSecPerClus)

SectorOf(p) == ClustToSect(p.cluster) + p.sect

MoveCursor(f, p) ==
  cursor' = [cursor EXCEPT ![f] = [cluster |-> p.cluster, offset |-> p.offset]]

(* Faulty loadSectorBuf: compares the sector, but not the cluster.          *)
BufferHoldsAnyCluster(f, p) == prev.first = chain[f][1] /\ prev.sect = p.sect

BufferHolds(f, p) ==
  prev = [first |-> chain[f][1], sect |-> p.sect, cluster |-> p.cluster]

(* loadSectorBuf: what the buffer holds once it has run.                    *)
LoadedBuffer(f, p) ==
  IF BufferHolds(f, p) THEN globalBuffer ELSE SectorsFrom(SectorOf(p), 1)

LoadSectorBuf(f, p) ==
  prev' = [first |-> chain[f][1], sect |-> p.sect, cluster |-> p.cluster]

(* The volume once the bytes s have been written from address a on.         *)
Written(a, s) ==
  [x \in DOMAIN disk |-> IF x - a \in 0..(Len(s) - 1) THEN s[x - a + 1] ELSE disk[x]]

(* The caller's bytes for the range [from, to) of a write.                  *)
Data(r, from, to) == [i \in 1..(to - from) |-> Byte(r.file, r.start + from + i - 1, r.id)]

-----------------------------------------------------------------------------
(* fileRead and fileWrite.                                                  *)

NoCall == [open |-> FALSE, kind |-> "read", file |-> "rom", start |-> 0,
           len |-> 0, id |-> 0, pos |-> 0, chunks |-> 0,
           place |-> Place(0, Eof, 0, 0)]

Ready == booted = File /\ ~call.open /\ calls < MaxCalls[discSecPerClus]

(* The part of a call before its loop: the sector that the range starts in. *)
FirstBytes(start, len) ==
  LET inSector == start % BytesPerSector
  IN  IF BytesPerSector < len + inSector THEN BytesPerSector - inSector ELSE len

Begun(kind, f, start, len) ==
  LET p == FindCluster(f, start)
      n == FirstBytes(start, len)
  IN  [open |-> TRUE, kind |-> kind, file |-> f, start |-> start, len |-> len,
       id |-> calls + 1, pos |-> n, chunks |-> (len - n) \div BytesPerSector,
       place |-> [p EXCEPT !.sect = @ + 1]]

(* A file that does not exist (CLUSTER_FREE) makes both calls return 0 at    *)
(* once, which changes nothing.                                             *)
BeginRead(f, start, len) ==
  LET p == FindCluster(f, start)
      inSector == start % BytesPerSector
      n == FirstBytes(start, len)
  IN  /\ Ready
      /\ LoadSectorBuf(f, p)
      /\ globalBuffer' = LoadedBuffer(f, p)
      /\ out' = SubSeq(LoadedBuffer(f, p), inSector + 1, inSector + n)
      /\ call' = Begun("read", f, start, len)
      /\ MoveCursor(f, p)
      /\ calls' = calls + 1
      /\ UNCHANGED <<files, disk, context, pollOut>>

(* One turn of the loop of fileRead.                                        *)
ReadChunks ==
  LET f == call.file
      p == NextPlace(f, call.place)
      n == SectorsToRead(f, p, call.chunks)
      q == AfterRead(f, p, n)
  IN  /\ call.open /\ call.kind = "read" /\ call.chunks > 0
      /\ out' = out \o SectorsFrom(SectorOf(p), n)
      /\ call' = [call EXCEPT !.place = q, !.chunks = @ - n,
                              !.pos = @ + n * BytesPerSector]
      /\ MoveCursor(f, q)
      /\ UNCHANGED <<files, disk, globalBuffer, prev, context, pollOut, calls>>

(* The last, partial sector of a read.                                      *)
ReadTail ==
  LET f == call.file
      p == NextPlace(f, call.place)
  IN  /\ call.open /\ call.kind = "read" /\ call.chunks <= 0 /\ call.pos < call.len
      /\ LoadSectorBuf(f, p)
      /\ globalBuffer' = LoadedBuffer(f, p)
      /\ out' = out \o SubSeq(LoadedBuffer(f, p), 1, call.len - call.pos)
      /\ call' = [call EXCEPT !.place = p, !.pos = call.len]
      /\ MoveCursor(f, p)
      /\ UNCHANGED <<files, disk, context, pollOut, calls>>

(* The buffer with the bytes s put in at position i.                        *)
Patched(b, i, s) ==
  [k \in 1..Len(b) |-> IF k - i \in 1..Len(s) THEN s[k - i] ELSE b[k]]

BeginWrite(f, start, len) ==
  LET p == FindCluster(f, start)
      n == FirstBytes(start, len)
      r == Begun("write", f, start, len)
      b == Patched(LoadedBuffer(f, p), start % BytesPerSector, Data(r, 0, n))
  IN  /\ Ready
      /\ LoadSectorBuf(f, p)
      /\ globalBuffer' = b
      /\ disk' = Written(SectorOf(p) * BytesPerSector, b)
      /\ call' = r
      /\ out' = <<>>
      /\ MoveCursor(f, p)
      /\ calls' = calls + 1
      /\ UNCHANGED <<files, context, pollOut>>

SectorsToWrite(p, chunks) == Smaller(chunks, discSecPerClus - p.sect)

(* One turn of the loop of fileWrite: it does not pass the buffer.          *)
WriteChunks ==
  LET f == call.file
      p == NextPlace(f, call.place)
      n == SectorsToWrite(p, call.chunks)
  IN  /\ call.open /\ call.kind = "write" /\ call.chunks > 0
      /\ disk' = Written(SectorOf(p) * BytesPerSector,
                         Data(call, call.pos, call.pos + n * BytesPerSector))
      /\ call' = [call EXCEPT !.place = [p EXCEPT !.sect = @ + n],
                              !.chunks = @ - n, !.pos = @ + n * BytesPerSector]
      /\ MoveCursor(f, p)
      /\ UNCHANGED <<files, globalBuffer, prev, out, context, pollOut, calls>>

(* The last, partial sector of a write: read, patched and written back.     *)
WriteTail ==
  LET f == call.file
      p == NextPlace(f, call.place)
      b == Patched(LoadedBuffer(f, p), 0, Data(call, call.pos, call.len))
  IN  /\ call.open /\ call.kind = "write" /\ call.chunks <= 0 /\ call.pos < call.len
      /\ LoadSectorBuf(f, p)
      /\ globalBuffer' = b
      /\ disk' = Written(SectorOf(p) * BytesPerSector, b)
      /\ call' = [call EXCEPT !.place = p, !.pos = call.len]
      /\ MoveCursor(f, p)
      /\ UNCHANGED <<files, out, context, pollOut, calls>>

Return ==
  /\ call.open /\ call.pos = call.len
  /\ call' = [call EXCEPT !.open = FALSE]
  /\ UNCHANGED <<files, cursor, disk, globalBuffer, prev, out, context,
                 pollOut, calls>>

-----------------------------------------------------------------------------
(* The polled read: fileReadNonBLocking, then resumeFileRead until it says    *)
(* that it is done.  Only the ROM is read so, in whole sectors, and other    *)
(* calls (of the save) may come between two polls.                          *)

FileReadNonBlocking(start, n) ==
  LET p == FindCluster("rom", start)
  IN  /\ Ready /\ ~context.open
      /\ context' = Begun("read", "rom", start, n * BytesPerSector)
      /\ pollOut' = SectorsFrom(SectorOf(p), 1)
      /\ MoveCursor("rom", p)
      /\ calls' = calls + 1
      /\ UNCHANGED <<files, disk, globalBuffer, prev, call, out>>

ResumeFileRead ==
  LET p == NextPlace("rom", context.place)
      n == SectorsToRead("rom", p, context.chunks)
      q == AfterRead("rom", p, n)
  IN  /\ context.open /\ context.chunks > 0 /\ ~call.open
      /\ pollOut' = pollOut \o SectorsFrom(SectorOf(p), n)
      /\ context' = [context EXCEPT !.place = q, !.chunks = @ - n,
                                    !.pos = @ + n * BytesPerSector]
      /\ MoveCursor("rom", q)
      /\ UNCHANGED <<files, disk, globalBuffer, prev, call, out, calls>>

ResumeFileReadDone ==
  /\ context.open /\ context.chunks = 0 /\ ~call.open
  /\ context' = [context EXCEPT !.open = FALSE]
  /\ UNCHANGED <<files, cursor, disk, globalBuffer, prev, call, out, pollOut,
                 calls>>

-----------------------------------------------------------------------------
(* The byte of the volume where a file's offset is.                         *)
Address(f, o) ==
  ClustToSect(chain[f][o \div BytePerClus + 1]) * BytesPerSector + (o % BytePerClus)

Init ==
  /\ discSecPerClus \in DOMAIN Layouts /\ chain \in Layouts[discSecPerClus]
  /\ beyond \in {0} \cup {Last(chain[f]) + 1 - Len(chain[f]) : f \in File}
  /\ fatTable = [f \in File |-> <<>>] /\ cached = [f \in File |-> "no"]
  /\ cacheUsed = 0 /\ booted = {}
  /\ cursor = [f \in File |-> [cluster |-> chain[f][1], offset |-> 0]]
  /\ disk = [x \in Volume |->
       IF \E f \in File : \E o \in 0..(FileSize(f) - 1) : Address(f, o) = x
         THEN LET f == CHOOSE f \in File : \E o \in 0..(FileSize(f) - 1) : Address(f, o) = x
                  o == CHOOSE o \in 0..(FileSize(f) - 1) : Address(f, o) = x
              IN  Byte(f, o, 0)
         ELSE Free]
  /\ globalBuffer = <<>> /\ prev = [first |-> -1, sect |-> -1, cluster |-> -1]
  /\ call = NoCall /\ out = <<>>
  /\ context = NoCall /\ pollOut = <<>>
  /\ calls = 0

(* The ranges that callers ask for lie in the file.                         *)
InFile(f) == {r \in (0..(FileSize(f) - 1)) \X (0..FileSize(f)) : r[1] + r[2] <= FileSize(f)}

Boot ==
  \E f \in File : BuildFatTableCache(f) \/ BuildFatTableCacheCompressed(f) \/ SkipTable(f)

(* While the polled read is open the mailbox brings no other ROM read.      *)
Ask ==
  \/ \E f \in IF context.open THEN {"sav"} ELSE File : \E r \in InFile(f) :
       BeginRead(f, r[1], r[2])
  \/ \E r \in InFile("sav") : BeginWrite("sav", r[1], r[2])
  \/ \E r \in InFile("rom") :
       /\ r[1] % BytesPerSector = 0 /\ r[2] % BytesPerSector = 0 /\ r[2] > 0
       /\ FileReadNonBlocking(r[1], r[2] \div BytesPerSector)

Serve == ReadChunks \/ ReadTail \/ WriteChunks \/ WriteTail \/ Return
Poll  == ResumeFileRead \/ ResumeFileReadDone

Next == Boot \/ Ask \/ Serve \/ Poll

Spec     == Init /\ [][Next]_vars
FairSpec == Spec /\ WF_vars(Serve) /\ WF_vars(Poll)

-----------------------------------------------------------------------------
(* loadSectorBuf skips the read when prevFirstClust, prevSect and prevClust  *)
(* match: whenever they name a sector, the shared buffer really holds what   *)
(* the card has there, whichever file last used it and whatever was written. *)
BufferCoherent ==
  prev.sect # -1 =>
    globalBuffer = SectorsFrom(ClustToSect(prev.cluster) + prev.sect, 1)

(* fileWrite changes no byte of the card but those of the range it was asked  *)
(* to write: no other file, no free cluster, no neighbour in a shared sector. *)
NoStrayWrite ==
  [][\A x \in Volume : disk'[x] # disk[x] =>
       /\ call'.kind = "write"
       /\ \E o \in call'.start..(call'.start + call'.len - 1) :
            x = Address(call'.file, o)]_vars

(* Every read returns its file's bytes in order and every write stores its    *)
(* own, whether the clusters are found through the FAT, through a table or    *)
(* through a compressed table, and whatever happens between two polls.      *)
Files ==
  INSTANCE ByteFile WITH
    Channel <- {"call", "poll"},
    Fresh   <- Byte,
    content <- [f \in File |-> [o \in 0..(FileSize(f) - 1) |-> disk[Address(f, o)]]],
    req     <- [c \in {"call", "poll"} |->
                  LET r == IF c = "call" THEN call ELSE context
                  IN  [open |-> r.open, kind |-> r.kind, file |-> r.file,
                       start |-> r.start, len |-> r.len, id |-> r.id, pos |-> r.pos]],
    got     <- [c \in {"call", "poll"} |-> IF c = "call" THEN out ELSE pollOut]

ImplementsByteFile == Files!Spec

(* Every call ends: the loops over sectors and clusters make progress.      *)
EveryCallReturns ==
  /\ call.open ~> ~call.open
  /\ context.open ~> ~context.open
=============================================================================
