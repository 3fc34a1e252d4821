----------------------------- MODULE TimeSeries -----------------------------
(***************************************************************************)
(* The segmented append-only log CTimeSeries of src/storage/timeseries.h,  *)
(* with its write-through record cache.                                    *)
(*                                                                         *)
(* Every public operation takes mtxFile for its whole duration, so each    *)
(* of Write, Read and WalkThrough is one atomic action here.  A segment    *)
(* file is a sequence of frames [magic][size][payload]; a frame whose      *)
(* bytes were only partly written (an exception or a crash inside Write)   *)
(* is kept as a torn frame of the length that reached the disk.  Sizes     *)
(* are in abstract units: the 8-byte frame header is Hdr units.            *)
(*                                                                         *)
(* The cache (cacheStream plus mapCachePos) is one sequence of entries,    *)
(* oldest first: mapCachePos always names exactly the entries still held   *)
(* in the circular stream, because eviction erases the key it consumes.    *)
(***************************************************************************)
EXTENDS Naturals, Sequences, SequencesExt

CONSTANTS
    Recs,          \* the records callers store (block payloads)
    RecSize,       \* RecSize[r]: serialized size of record r
    Hdr,           \* size of the [magic][size] frame header
    MaxFileSize,   \* MAX_FILE_SIZE
    CacheSize,     \* FILE_CACHE_SIZE, capacity of cacheStream
    CacheHdr,      \* size of the [diskpos][size] header of a cache entry
    MaxChunkSize,  \* MAX_CHUNK_SIZE, largest record the cache accepts
    MaxFiles,      \* bound: number of segment files
    MaxWrites,     \* bound: number of Write calls
    MaxRestarts    \* bound: number of process restarts

ASSUME RecSize \in [Recs -> Nat \ {0}]
ASSUME MaxChunkSize + CacheHdr <= CacheSize

VARIABLES
    files,       \* files[f]: the frames of segment file f, each [rec, len]
    nLastFile,   \* CTimeSeries::nLastFile, where GetLastFilePath starts
    cache,       \* cacheStream with mapCachePos: entries [pos, rec]
    acked,       \* history: [pos, rec] of every Write that returned true
    lastRead,    \* observation: outcome of the Read taken by this step
    walkResult,  \* observation: outcome of the WalkThrough taken by this step
    nWrites,     \* bound counter: Write calls so far
    nRestarts    \* bound counter: restarts so far

vars == <<files, nLastFile, cache, acked, lastRead, walkResult,
          nWrites, nRestarts>>

(***************************************************************************)
(* Addresses (CDiskPos) and frames.                                        *)
(***************************************************************************)
DiskPos == (1..MaxFiles) \X Nat

\* CDiskPos::operator<, lexicographic on (nFile, nOffset)
PosLess(a, b) == a[1] < b[1] \/ (a[1] = b[1] /\ a[2] < b[2])

\* Write emits the header then the payload: a complete frame
FullLen(r) == Hdr + RecSize[r]

Torn(fr) == fr.len < FullLen(fr.rec)

FileSize(seg) == FoldLeft(LAMBDA acc, fr : acc + fr.len, 0, seg)

FrameStart(seg, i) == FileSize(SubSeq(seg, 1, i - 1))

\* the record whose payload starts at pos, read back by seek + deserialize
DiskFrame(pos) ==
    LET seg == files[pos[1]]
        i   == CHOOSE i \in DOMAIN seg : FrameStart(seg, i) + Hdr = pos[2]
    IN  seg[i]

NoRead == [pos |-> <<0, 0>>, ok |-> FALSE, rec |-> CHOOSE r \in Recs : TRUE]
NoWalk == [visited |-> <<>>, lastFile |-> 0, lastPos |-> 0, ok |-> TRUE,
           budget |-> 0]

TypeOK ==
    /\ files \in Seq(Seq([rec : Recs, len : Nat]))
    /\ Len(files) <= MaxFiles
    /\ nLastFile \in 1..MaxFiles
    /\ cache \in Seq([pos : DiskPos, rec : Recs])
    /\ acked \in Seq([pos : DiskPos, rec : Recs])
    /\ lastRead \in [pos : DiskPos \cup {<<0, 0>>}, ok : BOOLEAN, rec : Recs]
    /\ walkResult \in [visited : Seq([pos : DiskPos, rec : Recs]),
                       lastFile : 0..MaxFiles, lastPos : Nat, ok : BOOLEAN,
                       budget : 0..MaxWrites]
    /\ nWrites \in 0..MaxWrites
    /\ nRestarts \in 0..MaxRestarts

(***************************************************************************)
(* GetLastFilePath: from nLastFile, skip the segments that are full and    *)
(* create the first one that does not exist yet.  Its signature carries    *)
(* no size, so a segment is full once it has reached MAX_FILE_SIZE and a   *)
(* segment under the cap still takes the next frame whatever its size.     *)
(***************************************************************************)
TargetFile ==
    CHOOSE f \in nLastFile..(MaxFiles + 1) :
        /\ f > Len(files) \/ FileSize(files[f]) < MaxFileSize
        /\ \A g \in nLastFile..(f - 1) :
               g <= Len(files) /\ FileSize(files[g]) >= MaxFileSize

OpenFile(f) == IF f > Len(files) THEN Append(files, <<>>) ELSE files

(***************************************************************************)
(* The cache.                                                              *)
(***************************************************************************)
EntrySize(r) == CacheHdr + RecSize[r]

CacheUsed(c) == FoldLeft(LAMBDA acc, e : acc + EntrySize(e.rec), 0, c)

CachedPos(c) == {c[i].pos : i \in DOMAIN c}

CachedRec(c, pos) == (CHOOSE e \in ToSet(c) : e.pos = pos).rec

\* VacateCache: consume entries from the head of the circular stream,
\* erasing their keys, until the needed room is free
RECURSIVE Evict(_, _)
Evict(c, need) ==
    IF c = <<>> \/ CacheSize - CacheUsed(c) >= need THEN c
    ELSE Evict(Tail(c), need)

VacateCache(c, nNeeded) ==
    IF nNeeded > MaxChunkSize THEN [ok |-> FALSE, cache |-> c]
    ELSE [ok |-> TRUE, cache |-> Evict(c, nNeeded + CacheHdr)]

WriteToCache(c, pos, r) ==
    IF pos \in CachedPos(c) THEN [ok |-> TRUE, cache |-> c]
    ELSE LET v == VacateCache(c, RecSize[r]) IN
         IF ~v.ok THEN [ok |-> FALSE, cache |-> v.cache]
         ELSE [ok |-> TRUE, cache |-> Append(v.cache, [pos |-> pos, rec |-> r])]

ResetCache == <<>>

\* "if (!WriteToCache(t,pos)) ResetCache();" at the end of Write and Read
CacheAfter(c, pos, r) ==
    LET w == WriteToCache(c, pos, r) IN IF w.ok THEN w.cache ELSE ResetCache

(***************************************************************************)
(* WalkThrough: the inner loop scans one segment frame by frame; the outer *)
(* loop moves to the next segment only while every frame so far was good. *)
(* The walker accepts `budget` records and rejects the next one.           *)
(***************************************************************************)
\* Mutation of ScanSeg: nOffset advanced past a frame before it is validated
RECURSIVE ScanSegEarlyOffset(_, _, _, _)
ScanSegEarlyOffset(f, i, off, st) ==
    IF i > Len(files[f]) THEN [st EXCEPT !.off = off]
    ELSE LET fr == files[f][i] IN
         IF Torn(fr) \/ st.budget = 0
         THEN [st EXCEPT !.ok = FALSE, !.off = off + fr.len]
         ELSE ScanSegEarlyOffset(f, i + 1, off + fr.len,
                      [st EXCEPT !.visited = Append(@, [pos |-> <<f, off + Hdr>>,
                                                        rec |-> fr.rec]),
                                 !.budget = @ - 1])

RECURSIVE ScanSeg(_, _, _, _)
ScanSeg(f, i, off, st) ==
    IF i > Len(files[f]) THEN [st EXCEPT !.off = off]
    ELSE LET fr == files[f][i] IN
         IF Torn(fr) \/ st.budget = 0
         THEN [st EXCEPT !.ok = FALSE, !.off = off]
         ELSE ScanSeg(f, i + 1, off + fr.len,
                      [st EXCEPT !.visited = Append(@, [pos |-> <<f, off + Hdr>>,
                                                        rec |-> fr.rec]),
                                 !.budget = @ - 1])

RECURSIVE ScanFiles(_, _)
ScanFiles(f, st) ==
    IF f > Len(files) \/ ~st.ok THEN st
    ELSE ScanFiles(f + 1, ScanSeg(f, 1, 0, [st EXCEPT !.lastFile = f]))

WalkThrough(budget) ==
    ScanFiles(1, [visited |-> <<>>, budget |-> budget, ok |-> TRUE,
                  off |-> 0, lastFile |-> 0])

(***************************************************************************)
(* Initial state: no segment file yet; Initialize sets nLastFile to 1.    *)
(***************************************************************************)
Init ==
    /\ files = <<>>
    /\ nLastFile = 1
    /\ cache = ResetCache
    /\ acked = <<>>
    /\ lastRead = NoRead
    /\ walkResult = NoWalk
    /\ nWrites = 0
    /\ nRestarts = 0

(***************************************************************************)
(* Mutation of Write: the cache keyed by the segment number read before   *)
(* GetLastFilePath rotated.                                                *)
(***************************************************************************)
WriteStaleCacheKey(r) ==
    /\ nWrites < MaxWrites
    /\ LET f   == TargetFile
           fs  == OpenFile(f)
           pos == <<f, FileSize(fs[f]) + Hdr>>
       IN  /\ f <= MaxFiles
           /\ files' = [fs EXCEPT ![f] = Append(@, [rec |-> r, len |-> FullLen(r)])]
           /\ nLastFile' = f
           /\ cache' = CacheAfter(cache, <<nLastFile, pos[2]>>, r)
           /\ acked' = Append(acked, [pos |-> pos, rec |-> r])
    /\ nWrites' = nWrites + 1
    /\ lastRead' = NoRead
    /\ walkResult' = NoWalk
    /\ UNCHANGED nRestarts

(***************************************************************************)
(* Write(t, nFile, nOffset) returning true: the frame is appended at the   *)
(* end of the segment GetLastFilePath chose (SeekToEnd), the address is    *)
(* that of the payload, and the record is put in the cache.                *)
(***************************************************************************)
Write(r) ==
    /\ nWrites < MaxWrites
    /\ LET f   == TargetFile
           fs  == OpenFile(f)
           pos == <<f, FileSize(fs[f]) + Hdr>>
       IN  /\ f <= MaxFiles
           /\ files' = [fs EXCEPT ![f] = Append(@, [rec |-> r, len |-> FullLen(r)])]
           /\ nLastFile' = f
           /\ cache' = CacheAfter(cache, pos, r)
           /\ acked' = Append(acked, [pos |-> pos, rec |-> r])
    /\ nWrites' = nWrites + 1
    /\ lastRead' = NoRead
    /\ walkResult' = NoWalk
    /\ UNCHANGED nRestarts

(***************************************************************************)
(* Write returning false: the stream threw after n bytes of the frame had  *)
(* reached the file (n = 0: nothing written).  The segment GetLastFilePath *)
(* opened stays, the bytes stay, the cache is not touched.                 *)
(***************************************************************************)
WriteFail(r, n) ==
    /\ nWrites < MaxWrites
    /\ LET f  == TargetFile
           fs == OpenFile(f)
       IN  /\ f <= MaxFiles
           /\ files' = IF n = 0 THEN fs
                       ELSE [fs EXCEPT ![f] = Append(@, [rec |-> r, len |-> n])]
           /\ nLastFile' = f
    /\ nWrites' = nWrites + 1
    /\ lastRead' = NoRead
    /\ walkResult' = NoWalk
    /\ UNCHANGED <<cache, acked, nRestarts>>

(***************************************************************************)
(* Read(t, nFile, nOffset) of an address a Write returned: served from the *)
(* cache on a hit; otherwise the payload is deserialized from the segment  *)
(* and put in the cache.                                                   *)
(***************************************************************************)
Read(pos) ==
    /\ IF pos \in CachedPos(cache)
       THEN /\ lastRead' = [pos |-> pos, ok |-> TRUE, rec |-> CachedRec(cache, pos)]
            /\ UNCHANGED cache
       ELSE LET fr == DiskFrame(pos) IN
            /\ ~Torn(fr)
            /\ lastRead' = [pos |-> pos, ok |-> TRUE, rec |-> fr.rec]
            /\ cache' = CacheAfter(cache, pos, fr.rec)
    /\ walkResult' = NoWalk
    /\ UNCHANGED <<files, nLastFile, acked, nWrites, nRestarts>>

\* Read returning false: the file stream threw on a cache miss
ReadFail(pos) ==
    /\ pos \notin CachedPos(cache)
    /\ lastRead' = [pos |-> pos, ok |-> FALSE, rec |-> NoRead.rec]
    /\ walkResult' = NoWalk
    /\ UNCHANGED <<files, nLastFile, cache, acked, nWrites, nRestarts>>

(***************************************************************************)
(* WalkThrough(walker, nLastFile, nLastPos), the startup recovery scan.    *)
(***************************************************************************)
Walk(budget) ==
    /\ LET w == WalkThrough(budget) IN
       walkResult' = [visited |-> w.visited, lastFile |-> w.lastFile,
                      lastPos |-> w.off, ok |-> w.ok, budget |-> budget]
    /\ lastRead' = NoRead
    /\ UNCHANGED <<files, nLastFile, cache, acked, nWrites, nRestarts>>

\* Mutation of Restart: Initialize leaves nLastFile at 0, the null segment
RestartNullFile ==
    /\ nRestarts < MaxRestarts
    /\ cache' = ResetCache
    /\ nLastFile' = 0
    /\ nRestarts' = nRestarts + 1
    /\ lastRead' = NoRead
    /\ walkResult' = NoWalk
    /\ UNCHANGED <<files, acked, nWrites>>

(***************************************************************************)
(* The process stops (possibly inside a Write, whose torn bytes WriteFail  *)
(* already models) and starts again: the cache is lost and Initialize      *)
(* sets nLastFile back to 1.                                               *)
(***************************************************************************)
Restart ==
    /\ nRestarts < MaxRestarts
    /\ cache' = ResetCache
    /\ nLastFile' = 1
    /\ nRestarts' = nRestarts + 1
    /\ lastRead' = NoRead
    /\ walkResult' = NoWalk
    /\ UNCHANGED <<files, acked, nWrites>>

AckedPos == {acked[i].pos : i \in DOMAIN acked}

Next ==
    \/ \E r \in Recs : Write(r)
    \/ \E r \in Recs : \E n \in 0..(FullLen(r) - 1) : WriteFail(r, n)
    \/ \E pos \in AckedPos : Read(pos) \/ ReadFail(pos)
    \/ \E b \in 0..MaxWrites : Walk(b)
    \/ Restart

Spec == Init /\ [][Next]_vars

(***************************************************************************)
(* The recovery point WalkThrough should return, stated without the loop:  *)
(* the frames of all segments in order, the first that is torn or that the *)
(* walker rejects, and the records before it.                              *)
(***************************************************************************)
AllFrames ==
    FlattenSeq([f \in 1..Len(files) |->
                   [i \in 1..Len(files[f]) |->
                       [f |-> f, start |-> FrameStart(files[f], i), fr |-> files[f][i]]]])

StopIndex(budget) ==
    LET bad == {k \in 1..Len(AllFrames) : Torn(AllFrames[k].fr) \/ k > budget}
    IN  IF bad = {} THEN Len(AllFrames) + 1 ELSE Min(bad)

ExpectedWalk(budget) ==
    LET k == StopIndex(budget) IN
    [visited  |-> [j \in 1..(k - 1) |->
                     [pos |-> <<AllFrames[j].f, AllFrames[j].start + Hdr>>,
                      rec |-> AllFrames[j].fr.rec]],
     lastFile |-> IF k <= Len(AllFrames) THEN AllFrames[k].f ELSE Len(files),
     lastPos  |-> IF k <= Len(AllFrames) THEN AllFrames[k].start
                  ELSE IF files = <<>> THEN 0 ELSE FileSize(Last(files)),
     ok       |-> k > Len(AllFrames),
     budget   |-> budget]

(***************************************************************************)
(* PROPERTIES                                                              *)
(***************************************************************************)

(***************************************************************************)
(* The log refines AppendLog: the acknowledged writes are its log, and the *)
(* reads and walks are its reads and walks.  Addresses a Write can return  *)
(* lie in the first MaxFiles segments, at most a header past the cap.      *)
(***************************************************************************)
AbsLog == INSTANCE AppendLog WITH
    Pos      <- (1..MaxFiles) \X (0..(MaxFileSize + Hdr)),
    Before   <- PosLess,
    NoRec    <- NoRead.rec,
    NoPos    <- NoRead.pos,
    MaxWalk  <- MaxWrites,
    log      <- acked,
    lastWalk <- [visited |-> walkResult.visited, budget |-> walkResult.budget]

\* CTimeSeries behaves as an append-only log across segment rotation, cache
\* eviction and reset, failed writes and restarts: every acknowledged Write
\* gets an address after all earlier ones, a Read (cache hit or disk) of
\* such an address returns the record written there, and WalkThrough
\* replays a prefix of the acknowledged writes, never a failed one.
AppendLogRefined == AbsLog!Spec

\* Every WalkThrough stops exactly at the first torn frame (or the record the
\* walker rejects) across all segments, having visited every record before
\* it, and returns that frame's start, or the end of the log, as
\* (nLastFile, nLastPos).
WalkStopsAtFirstBadFrame ==
    [][walkResult' # NoWalk => walkResult' = ExpectedWalk(walkResult'.budget)]_vars

\* Spec section 7: a walk whose walker accepts everything recovers every
\* acknowledged record ("no acknowledged write is ever lost"; appends resume
\* at the recovered position).
WalkRecoversAcked ==
    [][(walkResult' # NoWalk /\ walkResult'.budget = MaxWrites) =>
         \A i \in DOMAIN acked : acked[i] \in ToSet(walkResult'.visited)]_vars

=============================================================================
